-------------------------------- MODULE Hooks --------------------------------
(***************************************************************************)
(* hook.Manager with the hooks of this repository: SessionMetricsHook,     *)
(* which is called inside Dispatch, and the asynchronous SessionHook       *)
(* (hook 1, takes every event) and archivehook (hook 2, takes agent_end),  *)
(* each with a buffered channel and a consumer goroutine.  Dispatchers are *)
(* goroutines with one event each; Start and Stop run beside them; the     *)
(* store behind the session hook fails, and hosts create and delete the    *)
(* session.                                                                *)
(***************************************************************************)
EXTENDS Integers, Sequences, FiniteSets, SequencesExt

CONSTANTS
  Event,        \* events; each is dispatched once, by a goroutine of its own
  Buffer,       \* capacity of a channel
  MaxFaults     \* failures of stores, embedder and hook starts, and deletions, in all

AsyncHook == 1..2
EventType == {"llm_call_end", "agent_end", "other"}

VARIABLES
  etype,        \* type of each event, chosen at the start
  dispatch,     \* per event: "new", "async" (next hook to send to), "returned", "panicked"
  nextHook,     \* per event: the next asynchronous hook
  registered,   \* number of asynchronous hooks registered
  seen,         \* per event: how many there were when Dispatch copied the list
  chan,         \* per hook: the buffer of its channel
  closed,       \* hooks whose channel is closed
  consumers,    \* per hook: goroutines in its consume loop (started minus ended)
  working,      \* per hook: the event being handled, or nothing
  hookStep,         \* of the session hook: "append", "create" or "again"
  hookStarts,       \* per hook: how often Start was called
  stopping,     \* Stop of the manager: 0, or the hook it is at
  stopDone,     \* hooks whose Stop returned after the consumer had ended
  sessionThere, \* the session exists in the store
  log,          \* its events
  documents,    \* archived events
  tokenCount,       \* SessionMetrics: PromptTokens + CompletionTokens
  activeSeconds,       \* SessionMetrics: ActiveSeconds
  \* history
  accepted,     \* per hook: events its channel took, in that order
  faults,       \* failures so far
  missed,       \* events that a failure, a deletion or a missing session touched
  counted       \* events the metrics hook counted

hookVars == <<etype, dispatch, nextHook, registered, seen, chan, closed, consumers, working,
              hookStep, hookStarts, stopping, stopDone, sessionThere, log, documents, tokenCount,
              activeSeconds, accepted, faults, missed, counted>>
manager == <<registered, hookStarts, stopping, stopDone, closed>>
hookStore == <<sessionThere, log, documents>>
metricVars == <<tokenCount, activeSeconds, counted>>

Nobody == <<>>   \* no event

HooksInit ==
  /\ etype \in [Event -> EventType]
  /\ dispatch = [e \in Event |-> "new"] /\ nextHook = [e \in Event |-> 1]
  /\ registered = 1 /\ seen = [e \in Event |-> 0]
  /\ chan = [h \in AsyncHook |-> <<>>] /\ closed = {}
  /\ consumers = [h \in AsyncHook |-> 0] /\ working = [h \in AsyncHook |-> Nobody]
  /\ hookStep = "append" /\ hookStarts = [h \in AsyncHook |-> 0]
  /\ stopping = 0 /\ stopDone = {}
  /\ sessionThere \in BOOLEAN /\ log = <<>> /\ documents = {} /\ tokenCount = 0 /\ activeSeconds = 0
  /\ accepted = [h \in AsyncHook |-> <<>>] /\ faults = 0 /\ missed = {} /\ counted = {}

Fault == faults < MaxFaults /\ faults' = faults + 1

-----------------------------------------------------------------------------
\* Manager.Dispatch

\* An empty filter takes every event.
Matches(h, e) == h = 1 \/ etype[e] = "agent_end"

\* The hook lists are copied, then SessionMetricsHook.OnEvent runs in place; an
\* error of its store is logged.  A context that has ended returns at once.
DispatchSync(e) ==
  /\ dispatch[e] = "new"
  /\ seen' = [seen EXCEPT ![e] = registered]
  /\ \/ /\ dispatch' = [dispatch EXCEPT ![e] = "async"]
        /\ IF etype[e] = "other" THEN UNCHANGED <<tokenCount, activeSeconds, counted, faults>>
           ELSE \/ /\ tokenCount' = tokenCount + (IF etype[e] = "llm_call_end" THEN 1 ELSE 0)
                   /\ activeSeconds' = activeSeconds + (IF etype[e] = "agent_end" THEN 1 ELSE 0)
                   /\ counted' = counted \cup {e} /\ UNCHANGED faults
                \/ Fault /\ UNCHANGED metricVars
     \/ /\ dispatch' = [dispatch EXCEPT ![e] = "returned"]
        /\ UNCHANGED <<metricVars, faults>>
  /\ UNCHANGED <<etype, nextHook, manager, chan, consumers, working, hookStep, hookStore,
                 accepted, missed>>

\* One turn of the loop over the asynchronous hooks: a full channel drops the
\* event, a closed one makes the send panic, even inside select.
DispatchAsync(e) ==
  /\ dispatch[e] = "async"
  /\ LET h == nextHook[e] IN
     IF h > seen[e]
     THEN /\ dispatch' = [dispatch EXCEPT ![e] = "returned"]
          /\ UNCHANGED <<nextHook, chan, accepted>>
     ELSE \/ /\ Matches(h, e) /\ h \in closed
             /\ dispatch' = [dispatch EXCEPT ![e] = "panicked"]
             /\ UNCHANGED <<nextHook, chan, accepted>>
          \/ /\ Matches(h, e) /\ h \notin closed /\ Len(chan[h]) < Buffer
             /\ chan' = [chan EXCEPT ![h] = Append(@, e)]
             /\ accepted' = [accepted EXCEPT ![h] = Append(@, e)]
             /\ nextHook' = [nextHook EXCEPT ![e] = h + 1] /\ UNCHANGED dispatch
          \/ /\ Matches(h, e) => h \notin closed /\ Len(chan[h]) = Buffer
             /\ nextHook' = [nextHook EXCEPT ![e] = h + 1]
             /\ UNCHANGED <<dispatch, chan, accepted>>
  /\ UNCHANGED <<etype, seen, manager, consumers, working, hookStep, hookStore, metricVars, faults, missed>>

DispatchCancelled(e) ==
  /\ dispatch[e] = "async" /\ nextHook[e] <= seen[e]
  /\ dispatch' = [dispatch EXCEPT ![e] = "returned"]
  /\ UNCHANGED <<etype, nextHook, seen, manager, chan, consumers, working, hookStep, hookStore, metricVars,
                 accepted, faults, missed>>

-----------------------------------------------------------------------------
\* Lifecycle

\* RegisterAsync, at any time.
RegisterAsync ==
  /\ registered < Cardinality(AsyncHook) /\ stopping = 0
  /\ registered' = registered + 1
  /\ UNCHANGED <<etype, dispatch, nextHook, seen, chan, closed, consumers, working, hookStep, hookStarts,
                 stopping, stopDone, hookStore, metricVars, accepted, faults, missed>>

\* Manager.Start starts the hooks in order.  When one fails those before it are
\* stopped, that is, their channels are closed.
StartManager ==
  /\ stopping = 0 /\ \A h \in AsyncHook : hookStarts[h] = 0
  /\ \/ /\ hookStarts' = [h \in AsyncHook |-> IF h <= registered THEN 1 ELSE 0]
        /\ consumers' = hookStarts' /\ UNCHANGED <<closed, faults>>
     \/ \E bad \in 1..registered :
          /\ Fault
          /\ hookStarts' = [h \in AsyncHook |-> IF h < bad THEN 1 ELSE 0]
          /\ consumers' = hookStarts' /\ closed' = {h \in AsyncHook : h < bad}
  /\ UNCHANGED <<etype, dispatch, nextHook, registered, seen, chan, working, hookStep, stopping,
                 stopDone, hookStore, metricVars, accepted, missed>>

\* SessionHook.Stop and Hook.Stop close the channel ...
CloseChannel ==
  /\ \/ stopping = 0 /\ stopping' = 1
     \/ /\ stopping \in AsyncHook /\ stopping < registered
        /\ stopping \in closed   \* the one before it has drained, or ctx ended
        /\ stopping' = stopping + 1
  /\ closed' = closed \cup {stopping'}
  /\ UNCHANGED <<etype, dispatch, nextHook, registered, seen, chan, consumers, working, hookStep,
                 hookStarts, stopDone, hookStore, metricVars, accepted, faults, missed>>

\* Wrong variant: Stop does not wait for the consumer.
WaitDrained_Not(h) ==
  /\ stopping = h /\ h \in closed /\ h \notin stopDone
  /\ stopDone' = stopDone \cup {h}
  /\ UNCHANGED <<etype, dispatch, nextHook, registered, seen, chan, closed, consumers, working,
                 hookStep, hookStarts, stopping, hookStore, metricVars, accepted, faults, missed>>

\* ... and wait for the consumer.
WaitDrained(h) ==
  /\ stopping = h /\ h \in closed /\ h \notin stopDone
  /\ consumers[h] = 0
  /\ stopDone' = stopDone \cup {h}
  /\ UNCHANGED <<etype, dispatch, nextHook, registered, seen, chan, closed, consumers, working,
                 hookStep, hookStarts, stopping, hookStore, metricVars, accepted, faults, missed>>

-----------------------------------------------------------------------------
\* Consumers

Take(h) ==
  /\ consumers[h] > 0 /\ working[h] = Nobody /\ chan[h] # <<>>
  /\ working' = [working EXCEPT ![h] = <<Head(chan[h])>>]
  /\ chan' = [chan EXCEPT ![h] = Tail(@)]
  /\ UNCHANGED <<etype, dispatch, nextHook, seen, manager, consumers, hookStep, hookStore, metricVars,
                 accepted, faults, missed>>

\* The loop over a closed channel ends when it is empty.
EndConsumer(h) ==
  /\ consumers[h] > 0 /\ working[h] = Nobody /\ chan[h] = <<>> /\ h \in closed
  /\ consumers' = [consumers EXCEPT ![h] = @ - 1]
  /\ UNCHANGED <<etype, dispatch, nextHook, seen, manager, chan, working, hookStep, hookStore, metricVars,
                 accepted, faults, missed>>

Idle == working' = [working EXCEPT ![1] = Nobody] /\ hookStep' = "append"
Consuming == UNCHANGED <<etype, dispatch, nextHook, seen, manager, chan, consumers, metricVars,
                         accepted, documents>>

\* Wrong variant: no second attempt after the session was created.
HandleAppend_Once ==
  /\ working[1] # Nobody /\ hookStep # "create" /\ Consuming
  /\ LET e == working[1][1] IN
     \/ /\ sessionThere /\ hookStep = "append"
        /\ log' = Append(log, e) /\ Idle /\ UNCHANGED <<sessionThere, faults, missed>>
     \/ /\ ~sessionThere /\ hookStep = "append"
        /\ hookStep' = "create" /\ UNCHANGED <<working, hookStore, faults, missed>>
     \/ hookStep = "again" /\ Idle /\ UNCHANGED <<hookStore, faults, missed>>

\* SessionHook.handle: AppendEvent; without a session Create, then once more.
\* Errors and panics end the handling of this event.
HandleAppend ==
  /\ working[1] # Nobody /\ hookStep # "create" /\ Consuming
  /\ LET e == working[1][1] IN
     \/ /\ sessionThere
        /\ log' = Append(log, e) /\ Idle /\ UNCHANGED <<sessionThere, faults, missed>>
     \/ /\ ~sessionThere /\ hookStep = "append"
        /\ hookStep' = "create" /\ UNCHANGED <<working, sessionThere, log, faults, missed>>
     \/ /\ ~sessionThere /\ hookStep = "again"
        /\ missed' = missed \cup {e} /\ Idle /\ UNCHANGED <<sessionThere, log, faults>>
     \/ /\ Fault /\ missed' = missed \cup {e} /\ Idle /\ UNCHANGED <<sessionThere, log>>

\* A session that exists by now is as good as one created.
HandleCreate ==
  /\ working[1] # Nobody /\ hookStep = "create" /\ Consuming
  /\ \/ /\ sessionThere' = TRUE /\ hookStep' = "again"
        /\ UNCHANGED <<working, log, faults, missed>>
     \/ /\ Fault /\ missed' = missed \cup {working[1][1]} /\ Idle
        /\ UNCHANGED <<sessionThere, log>>

\* archivehook: embed and add one document per event, or log the error.
HandleArchive ==
  /\ working[2] # Nobody
  /\ working' = [working EXCEPT ![2] = Nobody]
  /\ \/ documents' = documents \cup {working[2][1]} /\ UNCHANGED <<faults, missed>>
     \/ Fault /\ missed' = missed \cup {working[2][1]} /\ UNCHANGED documents
  /\ UNCHANGED <<etype, dispatch, nextHook, seen, manager, chan, consumers, hookStep, sessionThere,
                 log, metricVars, accepted>>

\* A host deletes the session, with its events.
HostDeletes ==
  /\ sessionThere /\ Fault
  /\ sessionThere' = FALSE /\ log' = <<>>
  /\ missed' = missed \cup Range(log)
  /\ UNCHANGED <<etype, dispatch, nextHook, seen, manager, chan, consumers, working, hookStep,
                 documents, metricVars, accepted>>

HooksStep ==
  \/ \E e \in Event : DispatchSync(e) \/ DispatchAsync(e) \/ DispatchCancelled(e)
  \/ RegisterAsync \/ StartManager \/ CloseChannel
  \/ \E h \in AsyncHook : WaitDrained(h) \/ Take(h) \/ EndConsumer(h)
  \/ HandleAppend \/ HandleCreate \/ HandleArchive \/ HostDeletes

HooksSpec == HooksInit /\ [][HooksStep]_hookVars

-----------------------------------------------------------------------------
\* Properties

CountedOf(t) == Cardinality({e \in counted : etype[e] = t})

\* What a hook accepted reaches its store once, in the order of acceptance, and
\* nothing else does: of what came before a logged event, all is logged before
\* it.  An event is missing only if a failure or a deletion
\* touched it; in particular it is not lost because the session did not exist
\* yet, nor because the manager was stopped: when Stop has returned after the
\* consumer's end, all that was accepted has been handled.
AcceptedHandled ==
  /\ IsInjective(log)
  /\ \A i \in 1..Len(log) : \E p \in 1..Len(accepted[1]) :
       /\ accepted[1][p] = log[i]
       /\ \A q \in 1..(p - 1) :
            accepted[1][q] \in missed \/ \E k \in 1..(i - 1) : log[k] = accepted[1][q]
  /\ documents \subseteq Range(accepted[2])
  /\ \A h \in stopDone : hookStarts[h] = 1 =>
       /\ chan[h] = <<>> /\ working[h] = Nobody
       /\ Range(accepted[h]) \ missed = (IF h = 1 THEN Range(log) ELSE documents) \ missed
  /\ tokenCount = CountedOf("llm_call_end") /\ activeSeconds = CountedOf("agent_end")
=============================================================================
