------------------------------ MODULE ReactLoop ------------------------------
(***************************************************************************)
(* taskagent's ReAct loop over one session: the entries Run, RunStream,    *)
(* Resume and ResumeInterrupt, the iteration skeleton they share           *)
(* (runReactLoop), its token budget, the iteration checkpoints, the        *)
(* suspension of a tool batch, and the terminal path that writes the       *)
(* request and the response to session memory under consecutive keys.      *)
(*                                                                         *)
(* Attempts run concurrently and may fail or crash at any step.  Tokens,   *)
(* messages and tool results are abstract: an assistant turn has a cost    *)
(* and either answers or calls tools.  Decisions, supersession and the     *)
(* lease protocol of a record are InterruptResume's subject: here a record *)
(* is ready, resuming under an owner, or completed.                        *)
(***************************************************************************)
EXTENDS Integers, Sequences, FiniteSets

CONSTANTS
  Attempt,     \* calls of an entry point
  None,        \* no message, no checkpoint, no attempt
  RunParams,   \* what the options of requests may resolve to: maxIter and
               \* budget (runTokenBudget, 0 for unlimited)
  AgentParams, \* what they resolve to without options
  Cost         \* tokens a turn may take

ASSUME ReactAssumption ==
  /\ None \notin Attempt /\ IsFiniteSet(Attempt)
  /\ RunParams \cup {AgentParams} \subseteq [maxIter : Nat \ {0}, budget : Nat]
  /\ Cost \subseteq Nat

VARIABLES
  pc,          \* where each attempt is
  rc,          \* its runContext
  messages,    \* its message list
  latest,      \* the checkpoint with the highest sequence, or None
  records,     \* interrupt records, in the order they were created
  memory       \* session memory: key -> message or None

vars == <<pc, rc, messages, latest, records, memory>>

Entry == {"run", "resume", "interrupt"}     \* "run" is Run or RunStream
Key == 0 .. 2 * Cardinality(Attempt)
StopReason == {"none", "complete", "budget", "max_iterations", "interrupted"}

\* One entry of a message list: the request, an assistant turn that answers
\* or calls tools, the results of a batch, or a direct return.  The messages of
\* earlier runs before the request matter only when they contain a tool call,
\* which then has no results there: entry "open".  As history variable, what
\* the turns of the list up to it cost.
Item == [kind : {"open", "user", "text", "calls", "results", "direct"}, spent : Nat]
It(kind, spent) == [kind |-> kind, spent |-> spent]
TokensSpent(s) == IF s = <<>> THEN 0 ELSE s[Len(s)].spent

Turns(s) == {i \in DOMAIN s : s[i].kind \in {"text", "calls"}}

RunContext ==
  [ entry     : Entry,
    run       : Attempt,                 \* the Run this attempt (re)starts
    params    : RunParams \cup {AgentParams},
    record    : Nat,                     \* ResumeInterrupt: the record, or 0
    iteration : Nat,
    consumed  : Nat,                     \* budgetTracker
    count     : Nat,                     \* sessionMsgCount
    lastMsg   : {"none", "text", "calls"},
    stop      : StopReason,
    restarted : BOOLEAN,                 \* history: went through Resume,
    before    : Nat ]                    \* the last time with so many turns

Checkpoint ==
  [run : Attempt, iteration : Nat, final : BOOLEAN, messages : Seq(Item),
   count : Nat, restarted : BOOLEAN]

Record ==
  [run : Attempt, params : RunParams \cup {AgentParams}, iteration : Nat, messages : Seq(Item), count : Nat, consumed : Nat,
   status : {"ready", "resuming", "completed"}, owner : Attempt \cup {None},
   restarted : BOOLEAN, before : Nat]

\* As history, why the loop had stopped that a tool call comes from.
Message == [run : Attempt, by : Attempt, what : {"user", "text", "calls"}, stop : StopReason]

ReactTypeOK ==
  /\ pc \in [Attempt -> {"idle", "loop", "turn", "gate", "suspend", "batch", "save",
                         "final", "complete", "ended"}]
  /\ rc \in [Attempt -> RunContext]
  /\ messages \in [Attempt -> Seq(Item)]
  /\ latest = None \/ latest \in Checkpoint
  /\ records \in Seq(Record)
  /\ memory \in [Key -> Message \cup {None}]

NewContext(entry, run, params, restarted) ==
  [entry |-> entry, run |-> run, params |-> params, record |-> 0, iteration |-> 0, consumed |-> 0,
   count |-> 0, lastMsg |-> "none", stop |-> "none", restarted |-> restarted, before |-> 0]

Init ==
  /\ pc = [a \in Attempt |-> "idle"]
  /\ rc = [a \in Attempt |-> NewContext("run", a, AgentParams, FALSE)]
  /\ messages = [a \in Attempt |-> <<>>]
  /\ latest = None
  /\ records = <<>>
  /\ memory = [k \in Key |-> None]

Goto(a, p) == pc' = [pc EXCEPT ![a] = p]

\* The call is over and its local state gone; what it was is remembered.
End(a) ==
  /\ Goto(a, "ended")
  /\ rc' = [rc EXCEPT ![a] = NewContext(rc[a].entry, rc[a].run, rc[a].params, rc[a].restarted)]
  /\ messages' = [messages EXCEPT ![a] = <<>>]

Append1(a, item) == messages' = [messages EXCEPT ![a] = Append(@, item)]

-----------------------------------------------------------------------------
\* Entries.

\* Wrong variant: a failed listing is reported as a count.
OriginalCount_Error(listed) ==
  IF listed THEN Cardinality({k \in Key : memory[k] # None}) ELSE -1

\* SessionMemorySource.Fetch: the number of messages stored so far, or 0 when
\* listing them fails, which does not fail the run.
OriginalCount(listed) ==
  IF listed THEN Cardinality({k \in Key : memory[k] # None}) ELSE 0

\* The session's messages that go before those of a request, as far as the
\* compressor keeps them.
History(listed) ==
  {<<>>} \cup IF listed /\ \E k \in Key : memory[k] # None /\ memory[k].what = "calls"
              THEN {<<It("open", 0)>>} ELSE {}

\* Run and RunStream, up to the first iteration.
Begin(a, params, listed) ==
  /\ pc[a] = "idle"
  /\ rc' = [rc EXCEPT ![a].params = params, ![a].count = OriginalCount(listed)]
  /\ \E history \in History(listed) :
       messages' = [messages EXCEPT ![a] = Append(history, It("user", 0))]
  /\ Goto(a, "loop")
  /\ UNCHANGED <<latest, records, memory>>

\* Wrong variant: the checkpointed iteration is run again.
Resume_SameIteration(a) ==
  /\ pc[a] = "idle"
  /\ latest # None /\ ~latest.final
  /\ rc' = [rc EXCEPT ![a].entry = "resume", ![a].run = latest.run, ![a].params = AgentParams,
                      ![a].iteration = latest.iteration,
                      ![a].count = latest.count, ![a].restarted = TRUE,
                      ![a].before = Cardinality(Turns(latest.messages))]
  /\ messages' = [messages EXCEPT ![a] = latest.messages]
  /\ Goto(a, "loop")
  /\ UNCHANGED <<latest, records, memory>>

\* Resume continues after the latest checkpoint, with the agent's own limits
\* and a new budget tracker, whatever the request had asked for, and without
\* the request messages.
Resume(a) ==
  /\ pc[a] = "idle"
  /\ latest # None /\ ~latest.final
  /\ rc' = [rc EXCEPT ![a].entry = "resume", ![a].run = latest.run, ![a].params = AgentParams,
                      ![a].iteration = latest.iteration + 1,
                      ![a].count = latest.count, ![a].restarted = TRUE,
                      ![a].before = Cardinality(Turns(latest.messages))]
  /\ messages' = [messages EXCEPT ![a] = latest.messages]
  /\ Goto(a, "loop")
  /\ UNCHANGED <<latest, records, memory>>

\* Wrong variant: the tracker starts again at zero.
ResumeInterrupt_FreshTracker(a, i) ==
  /\ pc[a] = "idle"
  /\ records[i].status = "ready"
  /\ records' = [records EXCEPT ![i].status = "resuming", ![i].owner = a]
  /\ rc' = [rc EXCEPT ![a].entry = "interrupt", ![a].run = records[i].run,
                      ![a].params = records[i].params, ![a].record = i, ![a].iteration = records[i].iteration,
                      ![a].count = records[i].count,
                      ![a].restarted = records[i].restarted, ![a].before = records[i].before]
  /\ messages' = [messages EXCEPT ![a] = records[i].messages]
  /\ Goto(a, "batch")
  /\ UNCHANGED <<latest, memory>>

\* ResumeInterrupt on a decided record: under its lease, the suspended batch
\* is executed first.
ResumeInterrupt(a, i) ==
  /\ pc[a] = "idle"
  /\ records[i].status = "ready"
  /\ records' = [records EXCEPT ![i].status = "resuming", ![i].owner = a]
  /\ rc' = [rc EXCEPT ![a].entry = "interrupt", ![a].run = records[i].run,
                      ![a].params = records[i].params, ![a].record = i, ![a].iteration = records[i].iteration,
                      ![a].consumed = records[i].consumed,
                      ![a].count = records[i].count,
                      ![a].restarted = records[i].restarted, ![a].before = records[i].before]
  /\ messages' = [messages EXCEPT ![a] = records[i].messages]
  /\ Goto(a, "batch")
  /\ UNCHANGED <<latest, memory>>

\* An agent middleware answers in place of the loop.
ShortCircuit(a) ==
  /\ pc[a] = "loop" /\ rc[a].entry = "run" /\ messages[a][Len(messages[a])].kind = "user"
  /\ rc' = [rc EXCEPT ![a].lastMsg = "text", ![a].stop = "complete"]
  /\ Goto(a, "final")
  /\ UNCHANGED <<messages, latest, records, memory>>

-----------------------------------------------------------------------------
\* runReactLoop

Exhausted(ctx) == ctx.params.budget > 0 /\ ctx.consumed >= ctx.params.budget

\* The loop ends with a stop reason, by way of its final checkpoint.
Stop(a, ctx, reason) ==
  /\ rc' = [rc EXCEPT ![a] = [ctx EXCEPT !.stop = reason]]
  /\ Goto(a, "save")

\* The loop condition and the budget check before the call.
Iterate(a) ==
  /\ pc[a] = "loop"
  /\ IF rc[a].iteration >= rc[a].params.maxIter
     THEN Stop(a, [rc[a] EXCEPT !.iteration = rc[a].params.maxIter - 1], "max_iterations")
     ELSE IF Exhausted(rc[a])
     THEN Stop(a, rc[a], "budget")
     ELSE Goto(a, "turn") /\ UNCHANGED rc
  /\ UNCHANGED <<messages, latest, records, memory>>

\* executeTurn and what follows from the assistant message: an answer ends
\* the run, and so does a budget used up before the batch.
Turn(a, kind, cost) ==
  /\ pc[a] = "turn"
  /\ Append1(a, It(kind, TokensSpent(messages[a]) + cost))
  /\ LET ctx == [rc[a] EXCEPT !.consumed = @ + cost, !.lastMsg = kind] IN
       IF kind = "text" THEN Stop(a, ctx, "complete")
       ELSE IF Exhausted(ctx) THEN Stop(a, ctx, "budget")
       ELSE rc' = [rc EXCEPT ![a] = ctx] /\ Goto(a, "gate")
  /\ UNCHANGED <<latest, records, memory>>

\* The interrupt policy lets the batch pass or flags one of its calls.
Gate(a, flagged) ==
  /\ pc[a] = "gate"
  /\ Goto(a, IF flagged THEN "suspend" ELSE "batch")
  /\ UNCHANGED <<rc, messages, latest, records, memory>>

\* Number of request messages of this attempt.
ReqMsgs(a) == IF rc[a].entry = "run" THEN 1 ELSE 0

\* Wrong variants: the keys of the request messages are not reserved; the
\* open call is left out of the continuation.
Suspend_NoReserve(a) ==
  /\ pc[a] = "suspend"
  /\ records' = Append(records,
       [run |-> rc[a].run, params |-> rc[a].params, iteration |-> rc[a].iteration, messages |-> messages[a],
        count |-> rc[a].count, consumed |-> rc[a].consumed,
        status |-> "ready", owner |-> None,
        restarted |-> rc[a].restarted, before |-> rc[a].before])
  /\ rc' = [rc EXCEPT ![a].stop = "interrupted"]
  /\ Goto(a, "final")
  /\ UNCHANGED <<messages, latest, memory>>

Suspend_DropCall(a) ==
  /\ pc[a] = "suspend"
  /\ records' = Append(records,
       [run |-> rc[a].run, params |-> rc[a].params, iteration |-> rc[a].iteration,
        messages |-> SubSeq(messages[a], 1, Len(messages[a]) - 1),
        count |-> rc[a].count + ReqMsgs(a), consumed |-> rc[a].consumed,
        status |-> "ready", owner |-> None,
        restarted |-> rc[a].restarted, before |-> rc[a].before])
  /\ rc' = [rc EXCEPT ![a].stop = "interrupted"]
  /\ Goto(a, "final")
  /\ UNCHANGED <<messages, latest, memory>>

\* maybeInterrupt persists the suspended batch; no checkpoint is written.
Suspend(a) ==
  /\ pc[a] = "suspend"
  /\ records' = Append(records,
       [run |-> rc[a].run, params |-> rc[a].params, iteration |-> rc[a].iteration, messages |-> messages[a],
        count |-> rc[a].count + ReqMsgs(a), consumed |-> rc[a].consumed,
        status |-> "ready", owner |-> None,
        restarted |-> rc[a].restarted, before |-> rc[a].before])
  /\ rc' = [rc EXCEPT ![a].stop = "interrupted"]
  /\ Goto(a, "final")
  /\ UNCHANGED <<messages, latest, memory>>

\* A ResumeInterrupt that has not come to a turn of its own yet.
Reconciling(a) == rc[a].entry = "interrupt" /\ rc[a].lastMsg = "none"

\* executeToolBatch, or the reconciliation of a suspended one; a successful
\* ReturnDirect tool makes its result the answer.  The reconciled batch
\* writes no checkpoint, final or not.
Batch(a, direct) ==
  /\ pc[a] = "batch"
  /\ IF direct
     THEN /\ messages' = [messages EXCEPT ![a] =
                            Append(Append(@, It("results", TokensSpent(@))), It("direct", TokensSpent(@)))]
          /\ rc' = [rc EXCEPT ![a].lastMsg = "text", ![a].stop = "complete"]
          /\ Goto(a, IF Reconciling(a) THEN "final" ELSE "save")
     ELSE /\ Append1(a, It("results", TokensSpent(messages[a])))
          /\ IF Reconciling(a)
             THEN rc' = [rc EXCEPT ![a].iteration = @ + 1] /\ Goto(a, "loop")
             ELSE Goto(a, "save") /\ UNCHANGED rc
  /\ UNCHANGED <<latest, records, memory>>

\* saveIterationCheckpoint, best effort, after an iteration or at the end.
Save(a, ok) ==
  /\ pc[a] = "save"
  /\ latest' =
       IF ok THEN [run |-> rc[a].run, iteration |-> rc[a].iteration,
                   final |-> rc[a].stop # "none", messages |-> messages[a],
                   count |-> rc[a].count, restarted |-> rc[a].restarted]
       ELSE latest
  /\ IF rc[a].stop = "none"
     THEN rc' = [rc EXCEPT ![a].iteration = @ + 1] /\ Goto(a, "loop")
     ELSE Goto(a, "final") /\ UNCHANGED rc
  /\ UNCHANGED <<messages, records, memory>>

-----------------------------------------------------------------------------
\* The terminal path.

\* The response messages that are stored: the last assistant message, none
\* after a suspension or when a resume had no turn left.
RespMsgs(a) ==
  IF rc[a].stop = "interrupted" \/ rc[a].lastMsg = "none" THEN <<>> ELSE <<rc[a].lastMsg>>

\* What storeAndPromoteMessages writes: request then response messages from
\* key count on.
ToStore(a) == (IF ReqMsgs(a) = 1 THEN <<"user">> ELSE <<>>) \o RespMsgs(a)

\* PromoteToSession goes through the messages in map order and stops at the
\* first write that fails, so that any part of them may be stored.
PromoteToSession(a, stored) ==
  memory' = [k \in Key |->
               IF k + 1 - rc[a].count \in stored
               THEN LET what == ToStore(a)[k + 1 - rc[a].count] IN
                    [run |-> rc[a].run, by |-> a, what |-> what,
                     stop |-> IF what = "calls" THEN rc[a].stop ELSE "none"]
               ELSE memory[k]]

\* finalizeRun and finalizeStream.
Finalize(a, stored) ==
  /\ pc[a] = "final"
  /\ stored \subseteq DOMAIN ToStore(a)
  /\ PromoteToSession(a, stored)
  /\ IF rc[a].entry = "interrupt"
     THEN Goto(a, "complete") /\ UNCHANGED <<rc, messages>>
     ELSE End(a)
  /\ UNCHANGED <<latest, records>>

Owns(a) ==
  /\ rc[a].entry = "interrupt"
  /\ records[rc[a].record].status = "resuming"
  /\ records[rc[a].record].owner = a

\* The record of a finished resume is completed, if it is still owned.
CompleteRecord(a) ==
  /\ pc[a] = "complete"
  /\ records' = IF Owns(a)
                THEN [records EXCEPT ![rc[a].record].status = "completed",
                                     ![rc[a].record].owner = None]
                ELSE records
  /\ End(a)
  /\ UNCHANGED <<latest, memory>>

\* The attempt returns an error: from the model, the stream, a refused record
\* or, for Run and RunStream, a middleware or output guard after the loop.
\* ResumeInterrupt gives its lease back.
Fail(a) ==
  /\ \/ pc[a] \in {"turn", "gate", "suspend", "batch"}
     \/ pc[a] = "final" /\ rc[a].entry = "run"
  /\ records' = IF Owns(a)
                THEN [records EXCEPT ![rc[a].record].status = "ready",
                                     ![rc[a].record].owner = None]
                ELSE records
  /\ End(a)
  /\ UNCHANGED <<latest, memory>>

Crash(a) ==
  /\ pc[a] \notin {"idle", "ended"}
  /\ End(a)
  /\ UNCHANGED <<latest, records, memory>>

\* The lease of a record runs out, whether or not its owner is still there.
LeaseExpires(i) ==
  /\ records[i].status = "resuming"
  /\ records' = [records EXCEPT ![i].status = "ready", ![i].owner = None]
  /\ UNCHANGED <<pc, rc, messages, latest, memory>>

Next ==
  \/ \E a \in Attempt :
       \/ \E params \in RunParams, listed \in BOOLEAN : Begin(a, params, listed)
       \/ Resume(a) \/ ShortCircuit(a)
       \/ \E i \in DOMAIN records : ResumeInterrupt(a, i)
       \/ Iterate(a) \/ Suspend(a) \/ CompleteRecord(a) \/ Fail(a) \/ Crash(a)
       \/ \E kind \in {"text", "calls"}, cost \in Cost : Turn(a, kind, cost)
       \/ \E b \in BOOLEAN : Gate(a, b) \/ Batch(a, b) \/ Save(a, b)
       \/ \E stored \in SUBSET {1, 2} : Finalize(a, stored)
  \/ \E i \in DOMAIN records : LeaseExpires(i)

Spec == Init /\ [][Next]_vars

-----------------------------------------------------------------------------
\* Properties

\* A request to the model answers every tool call of its own run, in place,
\* whatever checkpoints, suspensions, crashes and resumes the list went through
\* (TaskAgent hands the list to the protocol as it is).  Only in the history
\* before the run a call may be left without results: the session memory holds
\* such calls, but none of a run that was suspended or came to an answer, only
\* of one that a budget or the iteration limit stopped.
TurnsPaired ==
  /\ \A a \in Attempt : pc[a] = "turn" =>
       LET s == messages[a] IN
         /\ \A i \in DOMAIN s : s[i].kind = "calls" => i < Len(s) /\ s[i + 1].kind = "results"
         /\ \A i \in DOMAIN s : s[i].kind = "results" => i > 1 /\ s[i - 1].kind = "calls"
         /\ \A i \in DOMAIN s : s[i].kind = "open" => i = 1
  /\ \A k \in Key : memory[k] # None /\ memory[k].what = "calls" =>
       memory[k].stop \in {"budget", "max_iterations"}

\* No way of continuing a run but Resume gifts it a model turn: suspensions
\* included, a conversation has at most the turns that its request, or the
\* agent without options, allows, and nothing follows the turn that used up the
\* budget.  After a Resume the agent's own limit counts, not the request's: it
\* may be higher, and a list that is beyond it gets no turn more.
NoGiftedTurns ==
  \A a \in Attempt :
    LET s == messages[a]  r == rc[a]  n == Cardinality(Turns(s))  asked == rc[r.run].params IN
    IF r.restarted THEN n <= AgentParams.maxIter \/ n <= r.before
    ELSE /\ n <= asked.maxIter
         /\ asked.budget > 0 => \A i \in Turns(s) : i < Len(s) => s[i].spent < asked.budget

\* The message a step puts in the place of another one.
Overwrites(k) == memory[k] # None /\ memory'[k] # memory[k]

\* The two halves of a suspended run write different keys: its resume never
\* overwrites the request that the first half stored.
HalvesDisjoint ==
  [][\A k \in Key :
       (/\ Overwrites(k)
        /\ rc[memory'[k].by].entry = "interrupt" /\ ~rc[memory'[k].by].restarted
        /\ memory'[k].run = memory[k].run)
         => memory[k].what # "user"]_vars

-----------------------------------------------------------------------------
\* What the documents say that the code does not ensure.

\* "resume's final write continues from that offset -- no key collision": a
\* resume never overwrites a message of another run of the session.
NoKeyCollision ==
  [][\A k \in Key :
       (Overwrites(k) /\ rc[memory'[k].by].entry = "interrupt")
         => memory'[k].run = memory[k].run]_vars
=============================================================================
