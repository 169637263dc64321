------------------------------ MODULE Readings ------------------------------
(***************************************************************************)
(* The arithmetic of services/raspi_status.zig.  All numbers are unsigned: *)
(* a difference below zero is no value but a panic of the build that the   *)
(* Dockerfile makes.  A percentage is a fraction of two numbers.           *)
(***************************************************************************)
EXTENDS Integers, Sequences

Fraction(part, whole) == [part |-> part, whole |-> whole]
Zero == Fraction(0, 1)

\* The numbers of the line "cpu" of /proc/stat: user, nice, system, idle, iowait,
\* irq, softirq, steal, guest, guest_nice.  Older kernels print fewer of them.
Field(fields, i) == IF i <= Len(fields) THEN fields[i] ELSE 0

MutantIowaitIsBusy(fields) ==
    [idle  |-> Field(fields, 4),
     total |-> Field(fields, 1) + Field(fields, 2) + Field(fields, 3) + Field(fields, 4)
               + Field(fields, 5) + Field(fields, 6) + Field(fields, 7) + Field(fields, 8)]

\* The guests' time is part of user and nice already and is left out.
ParseCpuTimes(fields) ==
    [idle  |-> Field(fields, 4) + Field(fields, 5),
     total |-> Field(fields, 1) + Field(fields, 2) + Field(fields, 3) + Field(fields, 4)
               + Field(fields, 5) + Field(fields, 6) + Field(fields, 7) + Field(fields, 8)]

IdleDelta(prev, now) == IF now.idle >= prev.idle THEN now.idle - prev.idle ELSE 0

MutantUncheckedIdle(prev, now) ==
    \/ now.total < prev.total
    \/ now.total # prev.total /\ now.idle < prev.idle

\* Where calcCpuUsage subtracts the larger number from the smaller.
CpuUsagePanics(prev, now) ==
    \/ now.total < prev.total
    \/ now.total # prev.total /\ IdleDelta(prev, now) > now.total - prev.total

CalcCpuUsage(prev, now) ==
    IF now.total = prev.total THEN Zero
    ELSE Fraction((now.total - prev.total) - IdleDelta(prev, now), now.total - prev.total)

\* parseMemoryUsage, of the two values that it looks for.
MemoryUsage(total, available) == Fraction(total - available, total)
=============================================================================
