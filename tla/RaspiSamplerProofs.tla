-------------------------- MODULE RaspiSamplerProofs --------------------------
(***************************************************************************)
(* Proofs about the Raspberry Pi status: about RaspiStatus, for any number *)
(* of handlers and of samples, then about RaspiSampler, for any counters   *)
(* and sizes.                                                              *)
(***************************************************************************)
EXTENDS RaspiSampler, TLAPS

-----------------------------------------------------------------------------
(* RaspiStatus: the union, the host name and the values.                   *)

LEMMA StartHolds == Init => IndInv
<1> SUFFICES ASSUME Init
             PROVE  IndInv
  OBVIOUS
<1>1. TypeOK
  <2>1. loaded \in [Handler -> [tag : Tag \cup {"unread"},
                               value : [Fields -> Sample \cup {Unread, Junk}]]]
    BY DEF Init, Blank
  <2>2. answer \in [Handler -> [available : BOOLEAN, name : {"none", "host", "junk"}]]
    BY DEF Init, NoAnswer
  <2>3. shown \in [Fields -> Sample] /\ floor \in [Handler -> Sample]
    BY MaxSamplesAssumption DEF Init, Sample
  <2>4. tag \in Tag /\ name \in {"none", "held", "freed"}
    BY DEF Init, Tag
  <2>5. frees \in 0 .. 2 /\ taken \in Sample /\ complete \in Sample
    BY MaxSamplesAssumption DEF Init, Sample
  <2> QED BY <2>1, <2>2, <2>3, <2>4, <2>5 DEF Init, TypeOK
<1>2. \A h \in Handler, f \in Fields : loaded[h].value[f] = Unread
  BY DEF Init, Blank
<1>3. \A h \in Handler : ~answer[h].available /\ loaded[h].tag # "available"
  BY DEF Init, NoAnswer, Blank
<1> QED BY <1>1, <1>2, <1>3, MaxSamplesAssumption
        DEF Init, IndInv, Deinits, Names, NameUnlessFailed, Rounds, Loads

\* The sampler's own steps that store nothing.
LEMMA SamplerMoves ==
  ASSUME IndInv,
         FirstTimes \/ TakeSample \/ SampleFails \/ Panic \/ NotAvailable \/ StoreAll
  PROVE  IndInv'
<1> USE MaxSamplesAssumption, JunkAssumption
    DEF IndInv, Deinits, Names, NameUnlessFailed, Rounds, Loads, TypeOK, Sample, Tag, raspi, handler, observer
<1>1. CASE FirstTimes
  BY <1>1 DEF FirstTimes
<1>2. CASE TakeSample
  BY <1>2 DEF TakeSample
<1>3. CASE SampleFails
  BY <1>3 DEF SampleFails
<1>4. CASE Panic
  BY <1>4 DEF Panic
<1>5. CASE NotAvailable
  BY <1>5 DEF NotAvailable
<1>6. CASE StoreAll
  BY <1>6 DEF StoreAll
<1> QED BY <1>1, <1>2, <1>3, <1>4, <1>5, <1>6

\* The sampler gives up beside whatever main is doing.
LEMMA GiveUpHolds ==
  ASSUME IndInv, GiveUp
  PROVE  IndInv'
<1> USE MaxSamplesAssumption, JunkAssumption
    DEF IndInv, Deinits, Names, NameUnlessFailed, Rounds, Loads, TypeOK, Sample, Tag, handler, observer, GiveUp
<1>1. CASE Look(sampler, sampler')
  BY <1>1 DEF Look, raspi
<1>2. CASE FreeName(sampler, sampler')
  BY <1>2 DEF FreeName
<1>3. CASE Retag(sampler, sampler', "ended")
  BY <1>3 DEF Retag
<1> QED BY <1>1, <1>2, <1>3 DEF Deinit

\* main returns beside whatever the sampler is doing.
LEMMA MainHolds ==
  ASSUME IndInv, Main
  PROVE  IndInv'
<1> USE MaxSamplesAssumption, JunkAssumption
    DEF IndInv, Deinits, Names, NameUnlessFailed, Rounds, Loads, TypeOK, Sample, Tag, handler, observer
<1>1. CASE StopServing
  BY <1>1 DEF StopServing, raspi
<1>2. CASE CleanUp
  <2>1. CASE Look(main, main')
    BY <1>2, <2>1 DEF CleanUp, Look, raspi
  <2>2. CASE FreeName(main, main')
    BY <1>2, <2>2 DEF CleanUp, FreeName
  <2>3. CASE Retag(main, main', "closed")
    BY <1>2, <2>3 DEF CleanUp, Retag
  <2> QED BY <1>2, <2>1, <2>2, <2>3 DEF CleanUp, Deinit
<1>3. CASE Exit
  BY <1>3 DEF Exit, raspi
<1> QED BY <1>1, <1>2, <1>3 DEF Main

\* A store becomes visible: its field moves up to the sample that is taken, and
\* the last of a round makes the round complete.
LEMMA VisibleHolds ==
  ASSUME IndInv, NEW g \in Fields, Visible(g)
  PROVE  IndInv'
<1> USE MaxSamplesAssumption, JunkAssumption
    DEF IndInv, Deinits, Names, NameUnlessFailed, Rounds, Loads, TypeOK, Sample, Tag, handler, Visible
<1>1. /\ shown' = [shown EXCEPT ![g] = taken]
      /\ pending' = pending \ {g}
      /\ complete' = IF pending' = {} THEN taken ELSE complete
      /\ UNCHANGED <<tag, name, frees, taken, sampler, main, aborted, pc, loaded, answer, floor>>
  OBVIOUS
<1>2. \A f \in Fields : pending' # {} /\ f \notin pending' => shown'[f] = taken'
  BY <1>1
<1>3. complete \in Sample /\ complete' \in Sample /\ complete <= complete' /\ complete' <= taken
  BY <1>1
<1>4. \A f \in Fields : complete' <= shown'[f] /\ shown'[f] <= taken'
  <2> SUFFICES ASSUME NEW f \in Fields
               PROVE  complete' <= shown'[f] /\ shown'[f] <= taken'
    OBVIOUS
  <2>1. CASE f = g
    BY <2>1, <1>1, <1>3
  <2>2. CASE f # g
    BY <2>2, <1>1, <1>3
  <2> QED BY <2>1, <2>2
<1>5. TypeOK'
  BY <1>1, <1>3
<1>6. \A h \in Handler : floor'[h] <= complete'
  BY <1>1, <1>3
<1> QED BY <1>1, <1>2, <1>3, <1>4, <1>5, <1>6

LEMMA GetHolds ==
  ASSUME IndInv, NEW h \in Handler, Get(h)
  PROVE  IndInv'
<1> USE MaxSamplesAssumption, JunkAssumption DEF IndInv, raspi, observer
<1>1. CASE Arrive(h)
  BY <1>1 DEF Arrive, TypeOK, Deinits, Names, NameUnlessFailed, Rounds, Loads, Sample
<1>2. CASE LoadTag(h)
  BY <1>2 DEF LoadTag, TypeOK, Deinits, Names, NameUnlessFailed, Rounds, Loads, Tag, Sample
<1>3. ASSUME NEW f \in Fields, LoadValue(h, f)
      PROVE  IndInv'
  <2>1. PICK v \in Sample \cup {Junk} :
          /\ v = shown[f] \/ v = Junk
          /\ loaded' = [loaded EXCEPT ![h].value[f] = v]
    BY <1>3 DEF LoadValue, TypeOK
  <2>2. /\ pc[h] = "copy"
        /\ UNCHANGED <<tag, name, frees, shown, taken, sampler, main, aborted, pending,
                       pc, answer, complete, floor>>
    BY <1>3 DEF LoadValue
  <2>3. v # Junk => v >= floor[h]
    BY <2>1 DEF TypeOK, Rounds, Loads, Sample
  <2>4. loaded' \in [Handler -> [tag : Tag \cup {"unread"},
                                value : [Fields -> Sample \cup {Unread, Junk}]]]
    BY <2>1 DEF TypeOK
  <2>5. \A x \in Handler, y \in Fields :
           loaded'[x].value[y] = IF x = h /\ y = f THEN v ELSE loaded[x].value[y]
    BY <2>1 DEF TypeOK
  <2>6. TypeOK'
    BY <2>2, <2>4 DEF TypeOK
  <2>7. \A x \in Handler, y \in Fields :
           loaded'[x].value[y] \notin {Unread, Junk} => loaded'[x].value[y] >= floor'[x]
    BY <2>2, <2>3, <2>5 DEF Loads
  <2>8. \A x \in Handler, y \in Fields :
           /\ pc'[x] = "idle" => loaded'[x].value[y] = Unread
           /\ pc'[x] = "done" => loaded'[x].value[y] # Unread
    <3> TAKE x \in Handler, y \in Fields
    <3>1. x # h \/ pc'[x] = "copy"
      BY <2>2
    <3>2. x # h => loaded'[x].value[y] = loaded[x].value[y]
      BY <2>5
    <3> QED BY <2>2, <3>1, <3>2 DEF Loads
  <2>9. Loads'
    BY <2>2, <2>7, <2>8 DEF Loads
  <2>10. \A x \in Handler : loaded'[x].tag = loaded[x].tag
    BY <2>1 DEF TypeOK
  <2>11. Names'
    BY <2>2, <2>10 DEF Names, NameUnlessFailed
  <2>12. Deinits' /\ Rounds'
    BY <2>2 DEF Deinits, Rounds
  <2> QED BY <2>6, <2>9, <2>11, <2>12
<1>4. CASE Send(h)
  <2>1. /\ \A f \in Fields : loaded[h].value[f] # Unread
        /\ pc' = [pc EXCEPT ![h] = "done"]
        /\ UNCHANGED <<tag, name, frees, shown, taken, sampler, main, aborted, pending,
                       loaded, complete, floor>>
        /\ pc[h] = "copy"
    BY <1>4 DEF Send
  <2>2. answer' \in [Handler -> [available : BOOLEAN, name : {"none", "host", "junk"}]]
    BY <1>4 DEF Send, NoAnswer, TypeOK
  <2>3. \A x \in Handler : x # h => answer'[x] = answer[x]
    BY <1>4 DEF Send, TypeOK
  <2>4. answer'[h].available =>
           \/ answer'[h].name = "host"
           \/ name # "held" /\ loaded[h].tag = "available"
    BY <1>4 DEF Send, NoAnswer, TypeOK, Tag
  <2>5. name # "held" /\ loaded[h].tag = "available" => sampler \in {"retag", "ended"}
    BY <2>1 DEF Names, Deinits, TypeOK
  <2>6. NameUnlessFailed'
    BY <2>1, <2>3, <2>4, <2>5 DEF Names, NameUnlessFailed
  <2>7. \A x \in Handler : answer'[x].available => pc'[x] = "done"
    BY <2>1, <2>3 DEF Names, TypeOK
  <2>11. \A x \in Handler : loaded'[x].tag = "available" => name' # "none"
    BY <2>1, <2>3 DEF Names, TypeOK
  <2>8. TypeOK' /\ Deinits'
    BY <2>1, <2>2 DEF TypeOK, Deinits
  <2>9. Loads' /\ Rounds'
    BY <2>1 DEF Loads, Rounds, TypeOK
  <2>10. Names'
    BY <2>6, <2>7, <2>11 DEF Names
  <2> QED BY <2>8, <2>9, <2>10
<1>5. CASE Finish(h)
  <2>1. TypeOK'
    BY <1>5 DEF Finish, TypeOK, Blank, NoAnswer, Sample
  <2>2. Deinits' /\ Rounds'
    BY <1>5 DEF Finish, Deinits, Rounds, TypeOK
  <2>3. Names'
    BY <1>5 DEF Finish, Names, NameUnlessFailed, TypeOK, Blank, NoAnswer
  <2>4. Loads'
    BY <1>5 DEF Finish, Loads, Rounds, TypeOK, Blank, Sample
  <2> QED BY <2>1, <2>2, <2>3, <2>4
<1> QED BY <1>1, <1>2, <1>3, <1>4, <1>5 DEF Get

LEMMA Invariant == Spec => []IndInv
<1>1. IndInv /\ UNCHANGED vars => IndInv'
  BY DEF IndInv, Deinits, Names, NameUnlessFailed, Rounds, Loads, TypeOK, vars, raspi, handler, observer
<1>2. IndInv /\ [Next]_vars => IndInv'
  BY <1>1, SamplerMoves, GiveUpHolds, MainHolds, VisibleHolds, GetHolds DEF Next, Sampler
<1> QED BY StartHolds, <1>2, PTL DEF Spec

\* The union, its values and the handlers keep their types; in particular the
\* host name is never freed more than twice.
THEOREM TypeCorrect == Spec => []TypeOK
<1>1. IndInv => TypeOK
  BY DEF IndInv
<1> QED BY Invariant, <1>1, PTL

\* Whatever the loads and stores interleave, a request that arrives after a round
\* of the sampler is answered with samples of that round or of a later one.
THEOREM AnswersAreFresh == Spec => []FreshAnswer
<1>1. IndInv => FreshAnswer
  BY DEF IndInv, Loads, FreshAnswer
<1> QED BY Invariant, <1>1, PTL

\* An available answer names the host, unless the sampler has given up: main frees
\* the name only when no handler is left that could answer with it.
THEOREM AnswersNameHost == Spec => []NameUnlessFailed
<1>1. IndInv => NameUnlessFailed
  BY DEF IndInv, Names
<1> QED BY Invariant, <1>1, PTL

\* However main and the sampler meet in giving the name back, it is given back.
THEOREM NameGivenBack == Spec => []NothingLeaks
<1>1. IndInv => NothingLeaks
  BY DEF IndInv, Deinits, Names, NameUnlessFailed, Rounds, Loads, NothingLeaks
<1> QED BY Invariant, <1>1, PTL

\* A second free needs a failed reading and main's own cleaning up, overlapped.
THEOREM FreedOnce == Spec => []FreedOnceWhileServing
<1>1. IndInv => FreedOnceWhileServing
  BY DEF IndInv, Deinits, Names, NameUnlessFailed, Rounds, Loads, FreedOnceWhileServing
<1> QED BY Invariant, <1>1, PTL

-----------------------------------------------------------------------------
(* RaspiSampler: what is read and computed.                                *)

\* What parseCpuTimes makes of a line: idle is a part of the total, and the time of
\* guests is in neither a second time.
LEMMA ParsedTimes ==
  ASSUME NEW c \in Counters
  PROVE  /\ CpuTimes(c).idle = c.idle + c.iowait
         /\ CpuTimes(c).total = c.busy + c.idle + c.iowait
         /\ c.busy \in Nat /\ c.idle \in Nat /\ c.iowait \in Nat
<1>1. c.busy \in Nat /\ c.idle \in Nat /\ c.iowait \in Nat
  BY TickAssumption DEF Counters
<1> DEFINE line == Line(c)
<1>2. /\ Len(line) = 10
      /\ line[1] = c.busy /\ line[2] = 0 /\ line[3] = 0 /\ line[4] = c.idle
      /\ line[5] = c.iowait /\ line[6] = 0 /\ line[7] = 0 /\ line[8] = 0
  BY DEF Line
<1> HIDE DEF line
<1>3. /\ ParseCpuTimes(line).idle = c.idle + c.iowait
      /\ ParseCpuTimes(line).total = c.busy + c.idle + c.iowait
  BY <1>1, <1>2 DEF ParseCpuTimes, Field
<1> QED BY <1>1, <1>3 DEF line, CpuTimes

\* calcCpuUsage never leaves its range where it does not panic.
LEMMA UsageInRange ==
  ASSUME NEW prev \in [idle : Nat, total : Nat], NEW now \in [idle : Nat, total : Nat],
         ~CpuUsagePanics(prev, now)
  PROVE  /\ CalcCpuUsage(prev, now) \in Fractions
         /\ CalcCpuUsage(prev, now).part \in 0 .. CalcCpuUsage(prev, now).whole
         /\ CalcCpuUsage(prev, now).whole > 0
<1>1. IdleDelta(prev, now) \in Nat
  BY DEF IdleDelta
<1>2. CASE now.total = prev.total
  BY <1>2 DEF CalcCpuUsage, Zero, Fraction, Fractions
<1>3. CASE now.total # prev.total
  BY <1>1, <1>3 DEF CpuUsagePanics, CalcCpuUsage, Fraction, Fractions
<1> QED BY <1>2, <1>3

\* Each step with readings is a step of RaspiStatus: its theorems hold here too.
THEOREM SamplerImplementsStatus == SamplerSpec => Spec
<1>1. SamplerInit => Init
  BY DEF SamplerInit
<1>2. [SamplerNext]_samplerVars => [Next]_vars
  BY DEF SamplerNext, SamplerStep, OtherStep, NoReading, ReadFirst, ReadAll, Underflow, Store,
     samplerVars, Next, Sampler
<1> QED BY <1>1, <1>2, PTL DEF SamplerSpec, Spec

LEMMA TimesAreCounters == SamplerSpec => [](times \in Counters)
<1>1. SamplerInit => times \in Counters
  BY TickAssumption DEF SamplerInit, NoTicks, Counters
<1>2. times \in Counters /\ [SamplerNext]_samplerVars => (times \in Counters)'
  BY DEF SamplerNext, SamplerStep, OtherStep, ReadFirst, ReadAll, Underflow, Store, readings,
     samplerVars
<1> QED BY <1>1, <1>2, PTL DEF SamplerSpec

\* The shared status and what the sampler reads and computes keep their types: no
\* usage is below zero.
THEOREM SamplerTypeCorrect == SamplerSpec => []SamplerTypeOK
<1> DEFINE Typed == times \in Counters /\ cpu \in Fractions /\ memory \in Fractions
<1>1. SamplerInit => Typed
  BY TickAssumption DEF SamplerInit, NoTicks, Counters, Zero, Fraction, Fractions
<1>2. Typed /\ [SamplerNext]_samplerVars => Typed'
  <2> SUFFICES ASSUME Typed, [SamplerNext]_samplerVars PROVE Typed'
    OBVIOUS
  <2>1. CASE ReadAll
    <3>1. PICK now \in Counters, total \in Size, available \in Size :
             /\ available <= total
             /\ ~CpuUsagePanics(CpuTimes(times), CpuTimes(now))
             /\ times' = now
             /\ cpu' = CalcCpuUsage(CpuTimes(times), CpuTimes(now))
             /\ memory' = MemoryUsage(total, available)
      BY <2>1 DEF ReadAll
    <3>2. ASSUME NEW c \in Counters PROVE CpuTimes(c) \in [idle : Nat, total : Nat]
      <4>1. CpuTimes(c).idle \in Nat /\ CpuTimes(c).total \in Nat
        BY ParsedTimes
      <4> QED BY <4>1 DEF CpuTimes, ParseCpuTimes
    <3>3. cpu' \in Fractions
      BY <3>1, <3>2, UsageInRange
    <3>4. memory' \in Fractions
      BY <3>1, SizeAssumption DEF MemoryUsage, Fraction, Fractions
    <3> QED BY <3>1, <3>3, <3>4
  <2>2. CASE ReadFirst \/ Underflow \/ Store
    BY <2>2 DEF ReadFirst, Underflow, Store, Zero, Fraction, Fractions
  <2>3. CASE UNCHANGED readings
    BY <2>3 DEF readings
  <2> QED BY <2>1, <2>2, <2>3 DEF SamplerNext, SamplerStep, OtherStep, samplerVars
<1>3. Typed /\ TypeOK => SamplerTypeOK
  BY DEF SamplerTypeOK
<1> QED BY <1>1, <1>2, <1>3, SamplerImplementsStatus, TypeCorrect, PTL DEF SamplerSpec

\* Only ReadAll takes a sample, and only Underflow aborts.
LEMMA WhoTakes ==
  ASSUME SamplerNext
  PROVE  /\ taken' # taken => ReadAll
         /\ aborted' # aborted => Underflow
<1>1. CASE ReadFirst
  BY <1>1 DEF ReadFirst, FirstTimes
<1>2. CASE ReadAll
  BY <1>2 DEF ReadAll, TakeSample
<1>3. CASE Underflow
  BY <1>3 DEF Underflow, Panic
<1>4. CASE Store
  BY <1>4 DEF Store, StoreAll
<1>5. CASE NoReading /\ UNCHANGED readings
  BY <1>5 DEF NoReading, SampleFails, NotAvailable, GiveUp, Visible
<1>6. CASE OtherStep
  <2>1. CASE Main
    BY <2>1 DEF Main, StopServing, CleanUp, Exit
  <2>2. ASSUME NEW h \in Handler, Get(h)
        PROVE  UNCHANGED <<taken, aborted>>
    BY <2>2 DEF Get, Arrive, LoadTag, LoadValue, Send, Finish
  <2> QED BY <1>6, <2>1, <2>2 DEF OtherStep
<1> QED BY <1>1, <1>2, <1>3, <1>4, <1>5, <1>6 DEF SamplerNext, SamplerStep

\* The process is aborted by a reading only if the kernel took iowait back.
THEOREM PanicsOnlyIfBack == SamplerSpec => PanicOnlyIfBack
<1>1. ASSUME times \in Counters, SamplerNext, aborted' # aborted
      PROVE  times'.iowait < times.iowait /\ Spent(times, times') < 0
  <2>1. PICK now \in Counters :
           /\ Later(times, now)
           /\ CpuUsagePanics(CpuTimes(times), CpuTimes(now))
           /\ times' = now
    BY <1>1, WhoTakes DEF Underflow
  <2> DEFINE p == CpuTimes(times)
             n == CpuTimes(now)
  <2>2. /\ p.idle = times.idle + times.iowait
        /\ p.total = times.busy + times.idle + times.iowait
        /\ n.idle = now.idle + now.iowait
        /\ n.total = now.busy + now.idle + now.iowait
    BY <1>1, ParsedTimes
  <2>3. /\ times.busy \in Nat /\ times.idle \in Nat /\ times.iowait \in Nat
        /\ now.busy \in Nat /\ now.idle \in Nat /\ now.iowait \in Nat
    BY <1>1, ParsedTimes
  <2> HIDE DEF p, n
  <2>4. n.total < p.total \/ (n.total # p.total /\ IdleDelta(p, n) > n.total - p.total)
    BY <2>1 DEF CpuUsagePanics, p, n
  <2>5. now.busy >= times.busy /\ now.idle >= times.idle
    BY <2>1 DEF Later
  <2>6. n.total < p.total
    BY <2>2, <2>3, <2>4, <2>5 DEF IdleDelta
  <2> QED BY <2>1, <2>2, <2>3, <2>5, <2>6 DEF Spent, Busy
<1>2. times \in Counters /\ [SamplerNext]_samplerVars =>
        [aborted' # aborted => times'.iowait < times.iowait /\ Spent(times, times') < 0]_samplerVars
  BY <1>1
<1> QED BY TimesAreCounters, <1>2, PTL DEF SamplerSpec, PanicOnlyIfBack

\* Whatever the counters, a usage is in its range, and the busy share unless the
\* kernel took back more waiting than was idle.
THEOREM UsageTrue == SamplerSpec => UsageIsShare
<1> DEFINE Good ==
      /\ cpu'.part \in 0 .. cpu'.whole /\ cpu'.whole > 0
      /\ memory'.part \in 0 .. memory'.whole /\ memory'.whole > 0
      /\ times'.idle + times'.iowait >= times.idle + times.iowait =>
            cpu'.part * Spent(times, times') = Busy(times, times') * cpu'.whole
<1>1. ASSUME times \in Counters, SamplerNext, taken' # taken
      PROVE  Good
  <2>1. PICK now \in Counters, total \in Size, available \in Size :
           /\ Later(times, now) /\ available <= total /\ total > 0
           /\ ~CpuUsagePanics(CpuTimes(times), CpuTimes(now))
           /\ times' = now
           /\ cpu' = CalcCpuUsage(CpuTimes(times), CpuTimes(now))
           /\ memory' = MemoryUsage(total, available)
    BY <1>1, WhoTakes DEF ReadAll
  <2> DEFINE p == CpuTimes(times)
             n == CpuTimes(now)
  <2>2. /\ p.idle = times.idle + times.iowait
        /\ p.total = times.busy + times.idle + times.iowait
        /\ n.idle = now.idle + now.iowait
        /\ n.total = now.busy + now.idle + now.iowait
    BY <1>1, ParsedTimes
  <2>3. /\ times.busy \in Nat /\ times.idle \in Nat /\ times.iowait \in Nat
        /\ now.busy \in Nat /\ now.idle \in Nat /\ now.iowait \in Nat
    BY <1>1, ParsedTimes
  <2>4. p \in [idle : Nat, total : Nat] /\ n \in [idle : Nat, total : Nat]
    BY <2>2, <2>3 DEF CpuTimes, ParseCpuTimes
  <2>5. memory'.part \in 0 .. memory'.whole /\ memory'.whole > 0
    BY <2>1, SizeAssumption DEF MemoryUsage, Fraction
  <2>6. cpu'.part \in 0 .. cpu'.whole /\ cpu'.whole > 0
    BY <2>1, <2>4, UsageInRange
  <2>7. ASSUME now.idle + now.iowait >= times.idle + times.iowait
        PROVE  cpu'.part * Spent(times, now) = Busy(times, now) * cpu'.whole
    <3>1. Busy(times, now) \in Int /\ Spent(times, now) = n.total - p.total
      BY <2>2, <2>3 DEF Busy, Spent
    <3>2. n.total - p.total = Busy(times, now) + (n.idle - p.idle)
      BY <2>2, <2>3 DEF Busy
    <3>3. CASE n.total = p.total
      <4>1. Busy(times, now) = 0
        <5>1. now.busy >= times.busy
          BY <2>1 DEF Later
        <5>2. now.busy + now.idle + now.iowait = times.busy + times.idle + times.iowait
          BY <3>3, <2>2
        <5>3. now.idle + now.iowait >= times.idle + times.iowait
          BY <2>7
        <5>4. now.busy = times.busy
          BY <5>1, <5>2, <5>3, <2>3
        <5> QED BY <5>4, <2>3 DEF Busy
      <4>2. cpu'.part = 0 /\ cpu'.whole = 1
        BY <2>1, <3>3 DEF CalcCpuUsage, Zero, Fraction
      <4>3. Spent(times, now) = 0
        BY <3>1, <3>3, <2>4
      <4>4. cpu'.part * Spent(times, now) = 0
        BY <4>2, <4>3
      <4>5. Busy(times, now) * cpu'.whole = 0
        BY <4>1, <4>2
      <4> QED BY <4>4, <4>5
    <3>4. CASE n.total # p.total
      <4>1. IdleDelta(p, n) = n.idle - p.idle
        BY <2>2, <2>7 DEF IdleDelta
      <4>2. cpu'.part = Busy(times, now) /\ cpu'.whole = n.total - p.total
        <5>1. /\ cpu'.part = (n.total - p.total) - IdleDelta(p, n)
              /\ cpu'.whole = n.total - p.total
          BY <2>1, <3>4 DEF CalcCpuUsage, Fraction
        <5> QED BY <5>1, <4>1, <3>1, <3>2, <2>4
      <4> QED BY <4>2, <3>1
    <3> QED BY <3>3, <3>4
  <2> QED BY <2>1, <2>5, <2>6, <2>7
<1>2. times \in Counters /\ [SamplerNext]_samplerVars => [taken' # taken => Good]_samplerVars
  BY <1>1
<1> QED BY TimesAreCounters, <1>2, PTL DEF SamplerSpec, UsageIsShare
=============================================================================
