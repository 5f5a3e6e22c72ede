---------------------------- MODULE Backpressure ----------------------------
(***************************************************************************)
(* orchestrate's backpressureController: the adaptive concurrency limit of *)
(* one DAG execution (additive increase, multiplicative decrease).  Every  *)
(* node goroutine acquires a slot, runs and releases it; all of them share *)
(* the context of the execution.  acquire and release run under the mutex, *)
(* but a waiter leaves its select, and removes itself from the queue when  *)
(* the context is done, in separate steps.                                 *)
(*                                                                         *)
(* The plain semaphore of DAGConfig.MaxConcurrency is the controller whose *)
(* minimum and maximum are equal.                                          *)
(***************************************************************************)
EXTENDS Integers, Sequences, FiniteSets, SequencesExt

CONSTANTS
  Goroutine,   \* node goroutines, each acquiring once
  RawConfig    \* BackpressureConfigs as the caller writes them; 0 is unset

ASSUME BackpressureAssumption ==
  /\ IsFiniteSet(Goroutine)
  /\ RawConfig \subseteq [initial : Nat, min : Nat, max : Nat]

VARIABLES
  cfg,          \* the normalised configuration
  concurrency,  \* the current limit
  active,       \* slots in use
  waiters,      \* queue of goroutines waiting for a slot
  signal,       \* waiters whose channel holds a wake-up
  pc,           \* where each goroutine is
  cancelled     \* the shared context is done

vars == <<cfg, concurrency, active, waiters, signal, pc, cancelled>>

-----------------------------------------------------------------------------
Larger(m, n) == IF m >= n THEN m ELSE n
Smaller(m, n) == IF m <= n THEN m ELSE n
Default(n, value) == IF n = 0 THEN value ELSE n

\* newBackpressureController, in its order: the default for max is taken
\* from the initial value before that value is moved into the range.
Normalise(raw) ==
  LET initial == Default(raw.initial, 1)
      min == Default(raw.min, 1)
      max == Default(raw.max, initial * 4)
  IN  [initial |-> Smaller(Larger(initial, min), max), min |-> min, max |-> max]

TypeOK ==
  /\ cfg \in {Normalise(raw) : raw \in RawConfig}
  /\ concurrency \in Nat \ {0}
  /\ active \in Nat
  /\ waiters \in Seq(Goroutine)
  /\ signal \in SUBSET Goroutine
  /\ pc \in [Goroutine -> {"idle", "waiting", "leaving", "held", "done", "failed"}]
  /\ cancelled \in BOOLEAN

Init ==
  /\ cfg \in {Normalise(raw) : raw \in RawConfig}
  /\ concurrency = cfg.initial
  /\ active = 0
  /\ waiters = <<>>
  /\ signal = {}
  /\ pc = [g \in Goroutine |-> "idle"]
  /\ cancelled = FALSE

Holding == {g \in Goroutine : pc[g] = "held"}

-----------------------------------------------------------------------------
\* acquire

AcquireNow(g) ==
  /\ pc[g] = "idle"
  /\ active < concurrency
  /\ active' = active + 1
  /\ pc' = [pc EXCEPT ![g] = "held"]
  /\ UNCHANGED <<cfg, concurrency, waiters, signal, cancelled>>

Enqueue(g) ==
  /\ pc[g] = "idle"
  /\ active >= concurrency
  /\ waiters' = Append(waiters, g)
  /\ pc' = [pc EXCEPT ![g] = "waiting"]
  /\ UNCHANGED <<cfg, concurrency, active, signal, cancelled>>

\* The waiter's select; with both channels ready it may take either.
Wake(g) ==
  /\ pc[g] = "waiting" /\ g \in signal
  /\ signal' = signal \ {g}
  /\ pc' = [pc EXCEPT ![g] = "held"]
  /\ UNCHANGED <<cfg, concurrency, active, waiters, cancelled>>

GiveUp(g) ==
  /\ pc[g] = "waiting" /\ cancelled
  /\ pc' = [pc EXCEPT ![g] = "leaving"]
  /\ UNCHANGED <<cfg, concurrency, active, waiters, signal, cancelled>>

\* A slot already transferred to the leaving waiter is lost: it is not handed
\* on, and active stays as it is.
Leave(g) ==
  /\ pc[g] = "leaving"
  /\ \/ \E i \in DOMAIN waiters : waiters[i] = g /\ waiters' = RemoveAt(waiters, i)
     \/ (\A i \in DOMAIN waiters : waiters[i] # g) /\ UNCHANGED waiters
  /\ pc' = [pc EXCEPT ![g] = "failed"]
  /\ UNCHANGED <<cfg, concurrency, active, signal, cancelled>>

-----------------------------------------------------------------------------
\* release

\* Wrong variant: halving ignores the minimum.
Adjusted_NoFloor == {concurrency, concurrency \div 2, Smaller(concurrency + 1, cfg.max)}

\* maybeAdjust: the interval has not passed, or the average latency is above
\* the threshold, or it is not.
Adjusted ==
  { concurrency,
    Larger(concurrency \div 2, cfg.min),
    Smaller(concurrency + 1, cfg.max) }

\* Wrong variants: the slot is transferred and given back; a lowered limit
\* is ignored; nobody is woken.
Release_GiveTwice(g) ==
  /\ pc[g] = "held"
  /\ pc' = [pc EXCEPT ![g] = "done"]
  /\ concurrency' \in Adjusted
  /\ signal' = IF waiters # <<>> THEN signal \cup {Head(waiters)} ELSE signal
  /\ waiters' = IF waiters # <<>> THEN Tail(waiters) ELSE waiters
  /\ active' = active - 1
  /\ UNCHANGED <<cfg, cancelled>>

Release_AlwaysTransfer(g) ==
  /\ pc[g] = "held"
  /\ pc' = [pc EXCEPT ![g] = "done"]
  /\ concurrency' \in Adjusted
  /\ signal' = IF waiters # <<>> THEN signal \cup {Head(waiters)} ELSE signal
  /\ waiters' = IF waiters # <<>> THEN Tail(waiters) ELSE waiters
  /\ active' = IF waiters # <<>> THEN active ELSE active - 1
  /\ UNCHANGED <<cfg, cancelled>>

\* The slot goes to the first waiter, or back.  The code's second look at the
\* queue, after the decrement, asks for active - 1 < concurrency: the first
\* look has then already succeeded.
Release(g) ==
  /\ pc[g] = "held"
  /\ pc' = [pc EXCEPT ![g] = "done"]
  /\ concurrency' \in Adjusted
  /\ \/ /\ waiters # <<>> /\ active <= concurrency'
        /\ signal' = signal \cup {Head(waiters)}
        /\ waiters' = Tail(waiters)
        /\ active' = active
     \/ /\ waiters = <<>> \/ active > concurrency'
        /\ active' = active - 1
        /\ UNCHANGED <<signal, waiters>>
  /\ UNCHANGED <<cfg, cancelled>>

Cancel ==
  /\ ~cancelled
  /\ cancelled' = TRUE
  /\ UNCHANGED <<cfg, concurrency, active, waiters, signal, pc>>

Step(g) ==
  AcquireNow(g) \/ Enqueue(g) \/ Wake(g) \/ GiveUp(g) \/ Leave(g) \/ Release(g)

Next == Cancel \/ \E g \in Goroutine : Step(g)

Spec == Init /\ [][Next]_vars

-----------------------------------------------------------------------------
\* Properties

\* Slots that were sent to a waiter: it still waits and will find the slot, or
\* it took the done context instead and the slot is lost.
OnTheWay == {g \in signal : pc[g] = "waiting"}
Lost == {g \in signal : pc[g] \in {"leaving", "failed"}}

\* No slot is invented, given out twice or forgotten on the way to a waiter
\* that takes it: active counts those held, those on the way and those lost,
\* each once.  A slot is lost only once the execution's context is done, to a
\* waiter that leaves with the slot in its channel; nobody gives it back.
SlotsAccounted ==
  /\ active = Cardinality(Holding) + Cardinality(OnTheWay) + Cardinality(Lost)
  /\ Lost # {} => cancelled

\* A lowered limit takes effect: as long as more slots are in use than the
\* limit allows, nobody new gets one, whether by arriving or by a transfer.
NoEntryOverLimit ==
  [][(active > concurrency') =>
       (Holding' \cup signal') \subseteq (Holding \cup signal)]_vars
=============================================================================
