---------------------------- MODULE NodeAdmission ----------------------------
(***************************************************************************)
(* What a DAG node's goroutine goes through before its runner is called    *)
(* and after it returned: the global slot (Backpressure), one concurrency  *)
(* slot per resource tag, one rate-limit token per tag, the run, and the   *)
(* deferred releases (launchNodeAdvanced, resourceManager, tokenBucket).   *)
(* All goroutines share the execution's context.                           *)
(*                                                                         *)
(* A bucket is counted in fractions of a token: Unit of them make one      *)
(* token, and a rate of Rate[t] / Unit requests per second gives the       *)
(* bucket a capacity of Rate[t] (burst = rate).                            *)
(***************************************************************************)
EXTENDS Backpressure

CONSTANTS
  Tag,         \* resource tags, numbered in their sort order
  Tags,        \* Node.ResourceTags of each goroutine, sorted
  SlotLimit,   \* ResourceLimits: tag -> slots, for the tags it has
  Rate,        \* ResourceRateLimits: tag -> rate, for the tags it has
  Unit         \* fractions of a token in one token

ASSUME AdmissionAssumption ==
  /\ Tag \subseteq Nat
  /\ Tags \in [Goroutine -> Seq(Tag)]
  /\ \A g \in Goroutine : \A i, j \in DOMAIN Tags[g] : i < j => Tags[g][i] <= Tags[g][j]
  /\ DOMAIN SlotLimit \subseteq Tag /\ DOMAIN Rate \subseteq Tag
  /\ \A t \in DOMAIN SlotLimit : SlotLimit[t] \in Nat
  /\ Rate \in [DOMAIN Rate -> Nat \ {0}]
  /\ Unit \in Nat \ {0}

VARIABLES
  stage,      \* where a goroutine is while it holds its global slot
  at,         \* the tag it is about to acquire, an index into its Tags
  slots,      \* slots of each tag's semaphore in use
  tokens      \* content of each tag's bucket

tagVars == <<stage, at, slots, tokens>>
admissionVars == <<vars, tagVars>>

-----------------------------------------------------------------------------
AdmissionTypeOK ==
  /\ TypeOK
  /\ stage \in [Goroutine -> {"slots", "tokens", "sleep", "run", "leave"}]
  /\ at \in [Goroutine -> Nat]
  /\ slots \in [DOMAIN SlotLimit -> Nat]
  /\ tokens \in [DOMAIN Rate -> Nat]

\* Buckets start full.
AdmissionInit ==
  /\ Init
  /\ stage = [g \in Goroutine |-> "slots"]
  /\ at = [g \in Goroutine |-> 1]
  /\ slots = [t \in DOMAIN SlotLimit |-> 0]
  /\ tokens = Rate

CurrentTag(g) == Tags[g][at[g]]
AtEnd(g) == at[g] > Len(Tags[g])
In(g, s) == pc[g] = "held" /\ stage[g] = s
Goto(g, s) == stage' = [stage EXCEPT ![g] = s]

\* The positions of tag t among the first n tags of g, and their number: a
\* tag may be listed twice.
Positions(g, t, n) == {i \in 1..n : i \in DOMAIN Tags[g] /\ Tags[g][i] = t}
Occurrences(g, t, n) == Cardinality(Positions(g, t, n))

\* releaseConcurrency of the first n tags; it never blocks, and takes nothing
\* out of an empty semaphore.
SlotsAfterRelease(g, n) ==
  [t \in DOMAIN SlotLimit |->
     IF slots[t] >= Occurrences(g, t, n) THEN slots[t] - Occurrences(g, t, n) ELSE 0]

-----------------------------------------------------------------------------
\* The global slot.

Enter(g) ==
  /\ AcquireNow(g) \/ Enqueue(g) \/ Wake(g) \/ GiveUp(g) \/ Leave(g)
  /\ UNCHANGED tagVars

\* The last deferred call of the goroutine.
Exit(g) ==
  /\ stage[g] = "leave"
  /\ Release(g)
  /\ UNCHANGED tagVars

-----------------------------------------------------------------------------
\* resourceManager.acquire

\* The next tag's semaphore, if the tag has one.
TakeSlot(g) ==
  /\ In(g, "slots") /\ ~AtEnd(g)
  /\ \/ /\ CurrentTag(g) \notin DOMAIN SlotLimit
        /\ UNCHANGED slots
     \/ /\ CurrentTag(g) \in DOMAIN SlotLimit
        /\ slots[CurrentTag(g)] < SlotLimit[CurrentTag(g)]
        /\ slots' = [slots EXCEPT ![CurrentTag(g)] = @ + 1]
  /\ at' = [at EXCEPT ![g] = @ + 1]
  /\ UNCHANGED <<vars, stage, tokens>>

\* Wrong variant: the slots acquired so far are kept.
SlotCancelled_Leak(g) ==
  /\ In(g, "slots") /\ ~AtEnd(g) /\ cancelled
  /\ CurrentTag(g) \in DOMAIN SlotLimit
  /\ Goto(g, "leave")
  /\ UNCHANGED <<vars, at, slots, tokens>>

\* acquire's ctx.Done branch gives back the slots acquired so far.
SlotCancelled(g) ==
  /\ In(g, "slots") /\ ~AtEnd(g) /\ cancelled
  /\ CurrentTag(g) \in DOMAIN SlotLimit
  /\ slots' = SlotsAfterRelease(g, at[g] - 1)
  /\ Goto(g, "leave")
  /\ UNCHANGED <<vars, at, tokens>>

SlotsTaken(g) ==
  /\ In(g, "slots") /\ AtEnd(g)
  /\ Goto(g, "tokens")
  /\ at' = [at EXCEPT ![g] = 1]
  /\ UNCHANGED <<vars, slots, tokens>>

\* tokenBucket.wait: take one token, or sleep until one should be there and
\* look again.
TakeToken(g) ==
  /\ In(g, "tokens") /\ ~AtEnd(g)
  /\ \/ /\ CurrentTag(g) \notin DOMAIN Rate
        /\ UNCHANGED tokens
     \/ /\ CurrentTag(g) \in DOMAIN Rate
        /\ tokens[CurrentTag(g)] >= Unit
        /\ tokens' = [tokens EXCEPT ![CurrentTag(g)] = @ - Unit]
  /\ at' = [at EXCEPT ![g] = @ + 1]
  /\ UNCHANGED <<vars, stage, slots>>

Sleep(g) ==
  /\ In(g, "tokens") /\ ~AtEnd(g)
  /\ CurrentTag(g) \in DOMAIN Rate /\ tokens[CurrentTag(g)] < Unit
  /\ Goto(g, "sleep")
  /\ UNCHANGED <<vars, at, slots, tokens>>

LookAgain(g) ==
  /\ In(g, "sleep")
  /\ Goto(g, "tokens")
  /\ UNCHANGED <<vars, at, slots, tokens>>

TokenCancelled(g) ==
  /\ In(g, "sleep") /\ cancelled
  /\ slots' = SlotsAfterRelease(g, Len(Tags[g]))
  /\ Goto(g, "leave")
  /\ UNCHANGED <<vars, at, tokens>>

Admitted(g) ==
  /\ In(g, "tokens") /\ AtEnd(g)
  /\ Goto(g, "run")
  /\ UNCHANGED <<vars, at, slots, tokens>>

\* Wrong variant: the tags are not released.
ReleaseTags_Forgotten(g) ==
  /\ In(g, "run")
  /\ Goto(g, "leave")
  /\ UNCHANGED <<vars, at, slots, tokens>>

\* The runner is over: resMgr.release comes before the global slot's.
ReleaseTags(g) ==
  /\ In(g, "run")
  /\ slots' = SlotsAfterRelease(g, Len(Tags[g]))
  /\ Goto(g, "leave")
  /\ UNCHANGED <<vars, at, tokens>>

\* refill, a fraction of a token at a time, up to the capacity.
Refill(t) ==
  /\ tokens[t] < Rate[t]
  /\ tokens' = [tokens EXCEPT ![t] = @ + 1]
  /\ UNCHANGED <<vars, stage, at, slots>>

ContextDone == Cancel /\ UNCHANGED tagVars

AdmissionStep(g) ==
  \/ Enter(g) \/ TakeSlot(g) \/ SlotCancelled(g) \/ SlotsTaken(g)
  \/ TakeToken(g) \/ Sleep(g) \/ LookAgain(g) \/ TokenCancelled(g)
  \/ Admitted(g) \/ ReleaseTags(g) \/ Exit(g)

AdmissionNext ==
  \/ ContextDone
  \/ \E t \in DOMAIN Rate : Refill(t)
  \/ \E g \in Goroutine : AdmissionStep(g)

\* Goroutines run, runners return, time passes; the channel of a semaphore
\* serves its senders in order, a poll finds a token sooner or later, and a
\* sleeper sees that the context is done.
Advance(g) == TakeSlot(g) \/ TakeToken(g) \/ TokenCancelled(g)

Fairness ==
  /\ \A t \in DOMAIN Rate : WF_admissionVars(Refill(t))
  /\ \A g \in Goroutine :
       WF_admissionVars(AdmissionStep(g)) /\ SF_admissionVars(Advance(g))

AdmissionSpec == AdmissionInit /\ [][AdmissionNext]_admissionVars /\ Fairness

-----------------------------------------------------------------------------
\* Properties

\* How many of its tags g holds.
TagsHeld(g) ==
  IF In(g, "slots") THEN at[g] - 1
  ELSE IF In(g, "tokens") \/ In(g, "sleep") \/ In(g, "run") THEN Len(Tags[g])
  ELSE 0

\* The slots of tag t in the hands of live goroutines.
HeldSlots(t) == UNION {{g} \X Positions(g, t, TagsHeld(g)) : g \in Goroutine}

\* Every semaphore counts exactly the slots in the hands of live goroutines,
\* on the cancelled, the rate-limited and the normal way out alike: no slot
\* leaks, a release never frees somebody else's, and the limit holds.  A slot of
\* the global limit is never given out twice, and lost only as SlotsAccounted
\* says: to a waiter that leaves a done context after the slot was sent to it.
SlotsExact ==
  /\ \A t \in DOMAIN SlotLimit :
       /\ slots[t] = Cardinality(HeldSlots(t))
       /\ slots[t] <= SlotLimit[t]
  /\ SlotsAccounted

\* Overlapping tags taken in sort order, under a held global slot whose limit
\* moves and while others sleep on a rate limit, never block everybody: each
\* node gets through, or learns that the context is done.
EveryNodeAdmitted == \A g \in Goroutine : <>(pc[g] \in {"done", "failed"})

\* Nobody waits for ever, and yet nobody gets in while more slots are in use
\* than a lowered limit allows.
NodesAdmitted == EveryNodeAdmitted /\ NoEntryOverLimit
=============================================================================
