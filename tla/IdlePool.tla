------------------------------ MODULE IdlePool ------------------------------
(***************************************************************************)
(* The pool of idle transports, crates/tls/src/pool.rs, that the           *)
(* Shadowsocks connector takes its streams from.                           *)
(*                                                                         *)
(* take runs under the lock of the queue and spawns one fill_one task;     *)
(* prefill spawns several.  fill_one awaits twice (the lock, the dial) and *)
(* counts itself in an atomic counter, so the tasks interleave between     *)
(* those steps.  A stream is its age in ticks, MaxAge standing for every   *)
(* age of MAX_IDLE_AGE or more.                                            *)
(***************************************************************************)
EXTENDS Naturals, Sequences, FiniteSets

CONSTANTS
    Fillers,  \* fill_one tasks; bound: as many as are alive at a time
    MaxIdle,  \* max_idle, at least 1 after max_idle.max(1)
    MaxAge,   \* MAX_IDLE_AGE in ticks
    Prefill   \* the n of the fill(n) that warms the pool up

ASSUME PoolAssumption ==
    /\ IsFiniteSet(Fillers)
    /\ MaxIdle \in Nat \ {0}
    /\ MaxAge \in Nat \ {0}
    /\ Prefill \in Nat

VARIABLES
    idle,     \* the ages of the streams in the queue, front first
    filling,  \* the atomic counter
    pc        \* the point each fill_one task has reached

vars == <<idle, filling, pc>>

Init ==
    /\ idle = <<>>
    /\ filling = 0
    /\ pc = [f \in Fillers |-> "none"]

\* tokio::spawn(pool.fill_one()) for the tasks of F
Spawn(F) ==
    /\ \A f \in F : pc[f] = "none"
    /\ pc' = [f \in Fillers |-> IF f \in F THEN "check" ELSE pc[f]]

\* fill(n)
Fill ==
    /\ \E F \in SUBSET Fillers : Cardinality(F) = Prefill /\ Spawn(F)
    /\ UNCHANGED <<idle, filling>>

\* take: the aged streams at the front are dropped and the first fresh one is
\* handed out; with none left the caller dials.  Either way one fill_one is
\* spawned.
Take ==
    /\ \E k \in 0 .. Len(idle) :
          /\ \A i \in 1 .. k : idle[i] = MaxAge
          /\ \/ k = Len(idle) /\ idle' = <<>>
             \/ /\ k < Len(idle) /\ idle[k + 1] < MaxAge
                /\ idle' = SubSeq(idle, k + 2, Len(idle))
    /\ \E f \in Fillers : Spawn({f})
    /\ UNCHANGED filling

Goto(f, l) == pc' = [pc EXCEPT ![f] = l]

\* The first lock: a full queue ends the task.
Check(f) ==
    /\ pc[f] = "check"
    /\ Goto(f, IF Len(idle) >= MaxIdle THEN "none" ELSE "count")
    /\ UNCHANGED <<idle, filling>>

\* Mutant of Count: one dial too many.
CountLate(f) ==
    /\ pc[f] = "count"
    /\ filling' = filling + 1
    /\ Goto(f, IF filling > MaxIdle THEN "refused" ELSE "dialing")
    /\ UNCHANGED idle

\* fetch_add, compared with the value it returned
Count(f) ==
    /\ pc[f] = "count"
    /\ filling' = filling + 1
    /\ Goto(f, IF filling >= MaxIdle THEN "refused" ELSE "dialing")
    /\ UNCHANGED idle

\* Mutant of Uncount: the refused task returns at once.
UncountNever(f) ==
    /\ pc[f] = "refused"
    /\ Goto(f, "none")
    /\ UNCHANGED <<idle, filling>>

\* fetch_sub of a task that is not to dial
Uncount(f) ==
    /\ pc[f] = "refused"
    /\ filling' = filling - 1
    /\ Goto(f, "none")
    /\ UNCHANGED idle

\* dial ends, then fetch_sub: with a stream the task goes on to the lock
Dialled(f) ==
    /\ pc[f] = "dialing"
    /\ filling' = filling - 1
    /\ Goto(f, "landed") \/ Goto(f, "none")
    /\ UNCHANGED idle

\* Mutant of Push: the length is not checked again.
PushUnchecked(f) ==
    /\ pc[f] = "landed"
    /\ idle' = Append(idle, 0)
    /\ Goto(f, "none")
    /\ UNCHANGED filling

\* Mutant of Push: the stream goes to the wrong end.
PushFront(f) ==
    /\ pc[f] = "landed"
    /\ idle' = IF Len(idle) < MaxIdle THEN <<0>> \o idle ELSE idle
    /\ Goto(f, "none")
    /\ UNCHANGED filling

\* The second lock: a stream that finds the queue full is dropped.
Push(f) ==
    /\ pc[f] = "landed"
    /\ idle' = IF Len(idle) < MaxIdle THEN Append(idle, 0) ELSE idle
    /\ Goto(f, "none")
    /\ UNCHANGED filling

FillOne(f) == Check(f) \/ Count(f) \/ Uncount(f) \/ Dialled(f) \/ Push(f)

\* Time passes for the streams in the queue.
Tick ==
    /\ idle' = [i \in 1 .. Len(idle) |-> IF idle[i] < MaxAge THEN idle[i] + 1 ELSE MaxAge]
    /\ UNCHANGED <<filling, pc>>

Next == Fill \/ Take \/ Tick \/ \E f \in Fillers : FillOne(f)

Spec == Init /\ [][Next]_vars

-----------------------------------------------------------------------------
(* Properties.                                                             *)

Points == {"none", "check", "count", "refused", "dialing", "landed"}
Dialling == {f \in Fillers : pc[f] = "dialing"}
Counted == {f \in Fillers : pc[f] \in {"dialing", "refused"}}

\* Ages, counter and tasks have their types.
TypeOK ==
    /\ idle \in Seq(0 .. MaxAge)
    /\ filling \in Nat
    /\ pc \in [Fillers -> Points]

\* The queue never holds more than max_idle streams, however many tasks found
\* room for theirs before they dialled.
IdleBounded == Len(idle) <= MaxIdle

\* At most max_idle fill_one tasks dial at a time: the counter is one too high
\* while a refused task has not yet taken itself out, never too low.
DialsBounded == Cardinality(Dialling) <= MaxIdle

\* The counter is exactly the tasks between their fetch_add and fetch_sub, so
\* that it returns to 0 when they are gone and the pool goes on refilling.
CounterIsExact == filling = Cardinality(Counted)

\* The streams are ordered by age, the oldest in front: take stops at the
\* first fresh one and never hands out a newer stream before an older one.
OldestFirst == \A i, j \in 1 .. Len(idle) : i < j => idle[i] >= idle[j]
=============================================================================
