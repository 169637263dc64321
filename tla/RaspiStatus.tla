----------------------------- MODULE RaspiStatus -----------------------------
(***************************************************************************)
(* The machine's status: a detached sampler thread writes three atomic     *)
(* numbers every second, and the handlers of GET /api/v1/raspi/status copy *)
(* them out of the same tagged union, without a lock.                      *)
(*                                                                         *)
(* A handler copies the union field by field before it uses the copy; the  *)
(* loads are a data race with the sampler, so a build may do them in any   *)
(* order.  The sampler's stores are monotonic: other threads see them in   *)
(* any order, but before the sampler has slept a second and goes on.  When *)
(* a reading fails the sampler frees the host name and then retags the     *)
(* union, which leaves the old payload undefined.                          *)
(*                                                                         *)
(* The sampler is detached.  When main has joined the worker threads and   *)
(* returns, its Context.deinit does to the same union what the sampler     *)
(* does when it gives up, beside it, until the process exits.              *)
(***************************************************************************)
EXTENDS Integers

CONSTANTS Handler,       \* worker threads that answer requests
          MaxSamples,    \* bound: rounds of the sampler
          Junk           \* what an undefined payload reads as

ASSUME MaxSamplesAssumption == MaxSamples \in Nat
ASSUME JunkAssumption == Junk \notin Int

Sample == 0 .. MaxSamples      \* the reading of checkStatus, then one per round

Fields == {"cpu_temperature", "cpu_usage", "memory_usage"}

VARIABLES tag,           \* which variant of ctx.raspi is active
          name,          \* the allocation of the host name
          frees,         \* how often it was freed
          shown,         \* the sample stored in each atomic value
          taken,         \* the sample the sampler holds
          sampler,       \* where the sampler is
          main,          \* where main is: it serves, then cleans up and exits
          aborted,       \* a panic has ended the process
          pending,       \* fields whose stored sample is not visible yet
          pc,            \* where the handler of each thread is
          loaded,        \* what it has copied: a tag, samples, or Unread
          answer,        \* what it answered
          complete,      \* observer: the last sample that was stored in full
          floor          \* observer: the one that was when the request arrived

raspi    == <<tag, name, frees, shown>>
handler  == <<pc, loaded, answer>>
observer == <<complete, floor>>
vars     == <<raspi, taken, sampler, main, aborted, pending, handler, observer>>

Tag    == {"available", "unavailable"}
Unread == -1
Blank  == [tag |-> "unread", value |-> [f \in Fields |-> Unread]]
NoAnswer == [available |-> FALSE, name |-> "none"]

\* Threads run until main has returned and the process exits, or one panics.
Running == main # "exited" /\ ~aborted

TypeOK ==
    /\ tag \in Tag
    /\ name \in {"none", "held", "freed"}
    /\ shown \in [Fields -> Sample]
    /\ taken \in Sample
    /\ frees \in 0 .. 2
    /\ sampler \in {"first", "sample", "check", "look", "free", "retag", "ended"}
    /\ main \in {"serving", "look", "free", "retag", "closed", "exited"}
    /\ aborted \in BOOLEAN
    /\ pending \subseteq Fields
    /\ pc \in [Handler -> {"idle", "copy", "done"}]
    /\ loaded \in [Handler -> [tag : Tag \cup {"unread"},
                               value : [Fields -> Sample \cup {Unread, Junk}]]]
    /\ answer \in [Handler -> [available : BOOLEAN, name : {"none", "host", "junk"}]]
    /\ complete \in Sample
    /\ floor \in [Handler -> Sample]

\* The first readings are made before any other thread runs: all succeed, or the
\* name is given back and the union starts as unavailable.
Init ==
    /\ \/ tag = "available" /\ name = "held"
       \/ tag = "unavailable" /\ name = "none"
    /\ shown = [f \in Fields |-> 0]
    /\ frees = 0
    /\ taken = 0
    /\ sampler = "first"
    /\ main = "serving"
    /\ aborted = FALSE
    /\ pending = {}
    /\ pc = [h \in Handler |-> "idle"]
    /\ loaded = [h \in Handler |-> Blank]
    /\ answer = [h \in Handler |-> NoAnswer]
    /\ complete = 0
    /\ floor = [h \in Handler |-> 0]

-----------------------------------------------------------------------------
(* runStatusSampler                                                        *)

\* The processor times that the first round compares with.
FirstTimes ==
    /\ sampler = "first" /\ Running
    /\ sampler' = "sample"
    /\ UNCHANGED <<raspi, taken, main, aborted, pending, handler, observer>>

\* One second later: temperature, processor times and memory are all read.
TakeSample ==
    /\ sampler = "sample" /\ pending = {} /\ Running
    /\ taken < MaxSamples
    /\ taken' = taken + 1
    /\ sampler' = "check"
    /\ UNCHANGED <<raspi, main, aborted, pending, handler, observer>>

\* A file cannot be read or parsed: the sampler ends, for good.
MutantJustEnd ==
    /\ sampler \in {"first", "sample"} /\ pending = {} /\ Running
    /\ sampler' = "ended"
    /\ UNCHANGED <<raspi, taken, main, aborted, pending, handler, observer>>

SampleFails ==
    /\ sampler \in {"first", "sample"} /\ pending = {} /\ Running
    /\ sampler' = "look"
    /\ UNCHANGED <<raspi, taken, main, aborted, pending, handler, observer>>

\* A difference of two readings underflows: the whole process is aborted.
Panic ==
    /\ sampler = "sample" /\ pending = {} /\ Running
    /\ aborted' = TRUE
    /\ UNCHANGED <<raspi, taken, sampler, main, pending, handler, observer>>

NotAvailable ==
    /\ sampler = "check" /\ tag = "unavailable" /\ Running
    /\ sampler' = "ended"
    /\ UNCHANGED <<raspi, taken, main, aborted, pending, handler, observer>>

StoreAll ==
    /\ sampler = "check" /\ tag = "available" /\ Running
    /\ pending' = Fields
    /\ sampler' = "sample"
    /\ UNCHANGED <<raspi, taken, main, aborted, handler, observer>>

MutantStoreTemperature(f) ==
    /\ f \in pending /\ Running
    /\ shown' = [shown EXCEPT !["cpu_temperature"] = taken]
    /\ pending' = pending \ {f}
    /\ complete' = IF pending' = {} THEN taken ELSE complete
    /\ UNCHANGED <<tag, name, frees, taken, sampler, main, aborted, handler, floor>>

Visible(f) ==
    /\ f \in pending /\ Running
    /\ shown' = [shown EXCEPT ![f] = taken]
    /\ pending' = pending \ {f}
    /\ complete' = IF pending' = {} THEN taken ELSE complete
    /\ UNCHANGED <<tag, name, frees, taken, sampler, main, aborted, handler, floor>>

-----------------------------------------------------------------------------
(* Raspi.deinit, which the sampler runs when it gives up and main when it   *)
(* returns: it looks at the tag, frees the name and retags the union.       *)

Look(place, next) ==
    /\ place = "look"
    /\ next = IF tag = "available" THEN "free" ELSE "retag"
    /\ UNCHANGED raspi

FreeName(place, next) ==
    /\ place = "free"
    /\ next = "retag"
    /\ name' = "freed"
    /\ frees' = frees + 1
    /\ UNCHANGED <<tag, shown>>

\* Without the tag a second deinit frees the name again.
MutantKeepTag(place, next, last) ==
    /\ place = "retag"
    /\ next = "look"
    /\ UNCHANGED raspi

Retag(place, next, last) ==
    /\ place = "retag"
    /\ next = last
    /\ tag' = "unavailable"
    /\ UNCHANGED <<name, frees, shown>>

MutantRetagFirst(place, next, last) ==
    \/ /\ place = "look"
       /\ next = IF tag = "available" THEN "free" ELSE last
       /\ tag' = "unavailable"
       /\ UNCHANGED <<name, frees, shown>>
    \/ /\ place = "free"
       /\ next = last
       /\ name' = "freed" /\ frees' = frees + 1
       /\ UNCHANGED <<tag, shown>>

Deinit(place, next, last) ==
    \/ Look(place, next) \/ FreeName(place, next) \/ Retag(place, next, last)

GiveUp ==
    /\ Running
    /\ Deinit(sampler, sampler', "ended")
    /\ UNCHANGED <<taken, main, aborted, pending, handler, observer>>

\* zap.start returns when its worker threads are joined, or listening has failed.
MutantDontJoin ==
    /\ main = "serving" /\ Running
    /\ main' = "look"
    /\ UNCHANGED <<raspi, taken, sampler, aborted, pending, handler, observer>>

StopServing ==
    /\ main = "serving" /\ Running
    /\ \A h \in Handler : pc[h] = "idle"
    /\ main' = "look"
    /\ UNCHANGED <<raspi, taken, sampler, aborted, pending, handler, observer>>

CleanUp ==
    /\ Running
    /\ Deinit(main, main', "closed")
    /\ UNCHANGED <<taken, sampler, aborted, pending, handler, observer>>

Exit ==
    /\ main = "closed" /\ Running
    /\ main' = "exited"
    /\ UNCHANGED <<raspi, taken, sampler, aborted, pending, handler, observer>>

-----------------------------------------------------------------------------
(* get                                                                     *)

Arrive(h) ==
    /\ pc[h] = "idle" /\ main = "serving" /\ Running
    /\ pc' = [pc EXCEPT ![h] = "copy"]
    /\ floor' = [floor EXCEPT ![h] = complete]
    /\ UNCHANGED <<raspi, taken, sampler, main, aborted, pending, loaded, answer, complete>>

LoadTag(h) ==
    /\ pc[h] = "copy" /\ Running /\ loaded[h].tag = "unread"
    /\ loaded' = [loaded EXCEPT ![h].tag = tag]
    /\ UNCHANGED <<raspi, taken, sampler, main, aborted, pending, pc, answer, observer>>

LoadValue(h, f) ==
    /\ pc[h] = "copy" /\ Running /\ loaded[h].value[f] = Unread
    /\ \E v \in {shown[f]} \cup (IF tag = "available" THEN {} ELSE {Junk}) :
          loaded' = [loaded EXCEPT ![h].value[f] = v]
    /\ UNCHANGED <<raspi, taken, sampler, main, aborted, pending, pc, answer, observer>>

\* The answer is written from the copy; the copy of the name is a pointer.
Send(h) ==
    /\ pc[h] = "copy" /\ Running /\ loaded[h].tag # "unread"
    /\ \A f \in Fields : loaded[h].value[f] # Unread
    /\ pc' = [pc EXCEPT ![h] = "done"]
    /\ answer' = [answer EXCEPT ![h] =
                    IF loaded[h].tag = "unavailable" THEN NoAnswer
                    ELSE [available |-> TRUE,
                          name |-> IF name = "held" THEN "host" ELSE "junk"]]
    /\ UNCHANGED <<raspi, taken, sampler, main, aborted, pending, loaded, observer>>

Finish(h) ==
    /\ pc[h] = "done" /\ Running
    /\ pc' = [pc EXCEPT ![h] = "idle"]
    /\ loaded' = [loaded EXCEPT ![h] = Blank]
    /\ answer' = [answer EXCEPT ![h] = NoAnswer]
    /\ floor' = [floor EXCEPT ![h] = 0]
    /\ UNCHANGED <<raspi, taken, sampler, main, aborted, pending, complete>>

Sampler ==
    \/ FirstTimes \/ TakeSample \/ SampleFails \/ Panic \/ NotAvailable \/ StoreAll
    \/ (\E f \in Fields : Visible(f)) \/ GiveUp

Main == StopServing \/ CleanUp \/ Exit

Get(h) ==
    \/ Arrive(h) \/ LoadTag(h) \/ (\E f \in Fields : LoadValue(h, f))
    \/ Send(h) \/ Finish(h)

Next == Sampler \/ Main \/ \E h \in Handler : Get(h)

Spec == Init /\ [][Next]_vars

-----------------------------------------------------------------------------
(* Properties.                                                             *)

\* When a round of the sampler is complete, every request that arrives later and
\* is answered with values gets that round's or newer ones in all three fields,
\* although its loads and the sampler's stores interleave without a lock.  Values
\* read from a payload that was retagged after the tag was loaded are exempt (Junk):
\* an answer that is called available may hold anything when a reading failed, or
\* main cleaned up, beside it.
FreshAnswer ==
    \A h \in Handler : pc[h] = "done" /\ answer[h].available =>
        \A f \in Fields : loaded[h].value[f] # Junk => loaded[h].value[f] >= floor[h]

\* README: after a failed reading the status is unavailable.  Once the sampler gives
\* up, the union is retagged for good, so its last values are not answered for
\* ever, and the name it held has been given back.
FailureIsShown == sampler \in {"look", "ended"} ~> [](tag = "unavailable" /\ name # "held")

\* README: an available answer carries the host's name.  It does, but for answers
\* that are written while or after a failed reading takes the status away.
NameUnlessFailed ==
    \A h \in Handler :
        answer[h].available => answer[h].name = "host" \/ sampler \in {"retag", "ended"}

\* main asserts that its allocator has lost nothing.  The name is not lost, whether
\* main or the sampler gave it back, or both meet in doing so.
NothingLeaks == main \in {"closed", "exited"} => name # "held"

\* The name is freed a second time, and the freed memory of an answer's name handed
\* out to others, only if a reading failed while main was already cleaning up.
FreedOnceWhileServing ==
    frees > 1 => main \notin {"serving", "look"} /\ sampler \in {"retag", "ended"}

-----------------------------------------------------------------------------
(* The inductive invariant of the proof in RaspiSamplerProofs.             *)

\* What deinit knows at each place: it frees after it has seen the tag, the tag goes
\* after the name, and a second free needs both to have seen the tag.
Deinits ==
    /\ name = "held" => frees = 0
    /\ name = "freed" => frees > 0
    /\ name = "none" => frees = 0 /\ tag = "unavailable" /\ sampler # "free" /\ main # "free"
    /\ tag = "unavailable" => name # "held"
    /\ sampler \in {"retag", "ended"} => name # "held"
    /\ main \in {"retag", "closed", "exited"} => name # "held"
    /\ sampler = "ended" => tag = "unavailable"
    /\ main \in {"closed", "exited"} => tag = "unavailable"
    /\ frees > 0 => sampler \in {"retag", "ended"} \/ main \in {"retag", "closed", "exited"}
    /\ frees > 0 /\ sampler = "free" => frees = 1 /\ main \in {"retag", "closed", "exited"}
    /\ frees > 0 /\ main = "free" => frees = 1 /\ sampler \in {"retag", "ended"}
    /\ frees > 1 => main \in {"retag", "closed", "exited"} /\ sampler \in {"retag", "ended"}
    /\ main # "serving" => \A h \in Handler : pc[h] = "idle"

\* An answer holds the name it found while the union was available.
Names ==
    /\ \A h \in Handler : answer[h].available => pc[h] = "done"
    /\ \A h \in Handler : loaded[h].tag = "available" => name # "none"
    /\ NameUnlessFailed

\* The last complete round is at most each visible sample, and what a request has
\* loaded is at least the round that was complete when it arrived.
Rounds ==
    /\ complete <= taken
    /\ \A f \in Fields : complete <= shown[f] /\ shown[f] <= taken
    /\ \A f \in Fields : pending # {} /\ f \notin pending => shown[f] = taken
    /\ sampler # "sample" => pending = {}

Loads ==
    /\ \A h \in Handler : floor[h] <= complete
    /\ \A h \in Handler, f \in Fields :
          loaded[h].value[f] \notin {Unread, Junk} => loaded[h].value[f] >= floor[h]
    /\ \A h \in Handler, f \in Fields :
          /\ pc[h] = "idle" => loaded[h].value[f] = Unread
          /\ pc[h] = "done" => loaded[h].value[f] # Unread

IndInv == TypeOK /\ Deinits /\ Names /\ Rounds /\ Loads
=============================================================================
