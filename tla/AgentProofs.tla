----------------------------- MODULE AgentProofs ----------------------------
(***************************************************************************)
(* Proofs about an agent at work: its loop, for every number of attempts,  *)
(* iteration limit, token budget and turn costs; the tools and limits its  *)
(* runs are given; the memory tiers it shares with other agents; the       *)
(* guards its texts pass through.                                          *)
(*                                                                         *)
(* A message list passes from an attempt to a checkpoint or a record and   *)
(* on to another attempt.  What has to hold of it depends on the place the *)
(* attempt is at (LoopOK) and has to survive in what was saved (RecordOK,  *)
(* CheckpointOK).                                                          *)
(***************************************************************************)
EXTENDS ReactLoop, ToolScope, MemoryTiers, Guards, FiniteSetTheorems, SequenceTheorems, TLAPS

\* Every call of a list, but the one at position n, is answered in place.
AnsweredBut(s, n) ==
  /\ \A i \in DOMAIN s : (s[i].kind = "calls" /\ i # n) => i < Len(s) /\ s[i + 1].kind = "results"
  /\ \A i \in DOMAIN s : s[i].kind = "results" => i > 1 /\ s[i - 1].kind = "calls"
  /\ \A i \in DOMAIN s : s[i].kind = "open" => i = 1

Answered(s) == AnsweredBut(s, 0)
OpenCall(s) == s # <<>> /\ s[Len(s)].kind = "calls" /\ AnsweredBut(s, Len(s))

\* The budget is not used up by a turn of the list.
WithinBudget(s, budget) == \A i \in Turns(s) : s[i].spent < budget

NothingAfter(s, budget) == \A i \in Turns(s) : i < Len(s) => s[i].spent < budget

\* A list has no more turns than the limits r of its run allow, or no more than
\* it had when a Resume took it over under lower ones.
Limited(r, s) ==
  Cardinality(Turns(s)) <= r.params.maxIter \/ (r.restarted /\ Cardinality(Turns(s)) <= r.before)

\* An attempt at place p with context r still runs the loop on list s.
InLoop(p, r) ==
  p \in {"loop", "turn", "gate", "suspend", "batch"} \/ (p = "save" /\ r.stop = "none")

LoopOK(p, r, s) ==
  /\ p \in {"loop", "turn"} \/ (p = "save" /\ r.stop = "none") => Answered(s)
  /\ p \in {"gate", "suspend", "batch"} => OpenCall(s)
  /\ p \in {"save", "final"} /\ r.stop = "complete" => r.lastMsg = "text"
  /\ p = "final" => r.stop # "none"
  /\ InLoop(p, r) => r.stop = "none"
  /\ Limited(r, s)
  /\ p = "loop" => Cardinality(Turns(s)) <= r.iteration
  /\ p = "turn" => Cardinality(Turns(s)) <= r.iteration /\ r.iteration < r.params.maxIter
  /\ InLoop(p, r) => Cardinality(Turns(s)) <= r.iteration + 1
  /\ (r.params.budget > 0 /\ ~r.restarted) =>
       /\ NothingAfter(s, r.params.budget)
       /\ InLoop(p, r) => r.consumed = TokensSpent(s) /\ WithinBudget(s, r.params.budget)

RecordOK(d) ==
  /\ OpenCall(d.messages)
  /\ Limited(d, d.messages)
  /\ Cardinality(Turns(d.messages)) <= d.iteration + 1
  /\ (d.params.budget > 0 /\ ~d.restarted) =>
       d.consumed = TokensSpent(d.messages) /\ WithinBudget(d.messages, d.params.budget)

CheckpointOK(c) ==
  (c # None /\ ~c.final) =>
    /\ Answered(c.messages)
    /\ Cardinality(Turns(c.messages)) <= c.iteration + 1

Lists ==
  /\ \A a \in Attempt : LoopOK(pc[a], rc[a], messages[a])
  /\ \A i \in DOMAIN records : RecordOK(records[i])
  /\ CheckpointOK(latest)

\* The attempts that have a context of their own.
AliveAttempt(a) == pc[a] \notin {"idle", "ended"}

\* A run is known by the attempt that began it; until then nobody has seen it.
Unseen(a) ==
  /\ \A b \in Attempt : b # a => rc[b].run # a
  /\ \A i \in DOMAIN records : records[i].run # a
  /\ latest # None => latest.run # a
  /\ \A k \in Key : memory[k] # None => memory[k].run # a

IdleFresh == \A a \in Attempt : pc[a] = "idle" => rc[a] = NewContext("run", a, AgentParams, FALSE)

EntryNamed ==
  \A a \in Attempt : /\ rc[a].entry = "run" => rc[a].run = a
                     /\ rc[a].entry = "resume" => rc[a].restarted

\* A context or a record has the limits its run was asked for; after a Resume,
\* the agent's.
Under(r, asked) == r.params = IF r.restarted THEN AgentParams ELSE asked

ParamsKept ==
  /\ \A a \in Attempt : Under(rc[a], rc[rc[a].run].params)
  /\ \A i \in DOMAIN records : Under(records[i], rc[records[i].run].params)

RunsNamed ==
  /\ IdleFresh
  /\ EntryNamed
  /\ ParamsKept
  /\ \A a \in Attempt : pc[a] = "idle" => Unseen(a)

\* The record an interrupted run is resumed from exists.
RecordsKnown ==
  \A a \in Attempt : AliveAttempt(a) /\ rc[a].entry = "interrupt" => rc[a].record \in DOMAIN records

\* Keys from k on belong to the second half of run r.
Reserved(r, k) ==
  /\ \A i \in DOMAIN records : records[i].run = r /\ ~records[i].restarted => records[i].count > k
  /\ \A b \in Attempt : AliveAttempt(b) /\ rc[b].entry = "interrupt" /\ rc[b].run = r /\ ~rc[b].restarted
       => rc[b].count > k

\* The first half stores its request last, below the keys of the second half.
Offsets ==
  /\ \A a \in Attempt : AliveAttempt(a) /\ rc[a].entry = "run" =>
       \A k \in Key : memory[k] # None /\ memory[k].what = "user" => memory[k].run # a
  /\ \A a \in Attempt : AliveAttempt(a) /\ rc[a].entry = "run" => Reserved(a, rc[a].count)
  /\ \A k \in Key : memory[k] # None /\ memory[k].what = "user" => Reserved(memory[k].run, k)

\* Only the calls of a run that a limit stopped are stored without results.
CallsStopped ==
  \A k \in Key : memory[k] # None /\ memory[k].what = "calls" =>
    memory[k].stop \in {"budget", "max_iterations"}

ReactIInv ==
  /\ ReactTypeOK
  /\ Lists
  /\ CallsStopped
  /\ RunsNamed
  /\ RecordsKnown
  /\ Offsets

-----------------------------------------------------------------------------
\* Message lists.

LEMMA TurnsFinite ==
  ASSUME NEW s \in Seq(Item)
  PROVE  IsFiniteSet(Turns(s)) /\ Cardinality(Turns(s)) \in Nat
<1>1. IsFiniteSet(1..Len(s)) /\ Turns(s) \subseteq 1..Len(s)
  <2>1. IsFiniteSet(1..Len(s))
    BY FS_Interval
  <2> QED BY <2>1 DEF Turns
<1> QED BY <1>1, FS_Subset, FS_CardinalityType

LEMMA Appended ==
  ASSUME NEW s \in Seq(Item), NEW x \in Item
  PROVE  /\ Append(s, x) \in Seq(Item) /\ Len(Append(s, x)) = Len(s) + 1 /\ Append(s, x) # <<>>
         /\ Append(s, x)[Len(s) + 1] = x
         /\ \A i \in DOMAIN s : Append(s, x)[i] = s[i] /\ i \in 1..Len(s)
         /\ DOMAIN Append(s, x) = DOMAIN s \cup {Len(s) + 1}
         /\ TokensSpent(Append(s, x)) = x.spent
BY DEF TokensSpent

LEMMA TurnAppended ==
  ASSUME NEW s \in Seq(Item), NEW x \in Item
  PROVE  /\ x.kind \in {"text", "calls"} => /\ Turns(Append(s, x)) = Turns(s) \cup {Len(s) + 1}
                                            /\ Cardinality(Turns(Append(s, x))) = Cardinality(Turns(s)) + 1
         /\ x.kind \notin {"text", "calls"} => Turns(Append(s, x)) = Turns(s)
<1>1. x.kind \in {"text", "calls"} => Turns(Append(s, x)) = Turns(s) \cup {Len(s) + 1}
  BY Appended DEF Turns
<1>2. x.kind \notin {"text", "calls"} => Turns(Append(s, x)) = Turns(s)
  BY Appended DEF Turns
<1>3. Len(s) + 1 \notin Turns(s)
  BY DEF Turns
<1> QED BY <1>1, <1>2, <1>3, TurnsFinite, FS_AddElement

\* A list whose calls are answered stays so, or gets an open call.
LEMMA AppendToAnswered ==
  ASSUME NEW s \in Seq(Item), NEW x \in Item, Answered(s), x.kind \notin {"results", "open"}
  PROVE  IF x.kind = "calls" THEN OpenCall(Append(s, x)) ELSE Answered(Append(s, x))
<1>1. \A i \in DOMAIN s : i \in 1..Len(s) /\ i # 0
  OBVIOUS
<1>2. \A i \in DOMAIN s : s[i].kind = "calls" => i + 1 \in DOMAIN s /\ s[i + 1].kind = "results"
  BY <1>1 DEF Answered, AnsweredBut
<1>3. \A i \in DOMAIN s : s[i].kind = "results" => i > 1 /\ i - 1 \in DOMAIN s /\ s[i - 1].kind = "calls"
  BY <1>1 DEF Answered, AnsweredBut
<1>4. \A i \in DOMAIN Append(s, x) : Append(s, x)[i].kind = "open" => i = 1
  BY Appended DEF Answered, AnsweredBut
<1> QED BY <1>1, <1>2, <1>3, <1>4, Appended DEF Answered, OpenCall, AnsweredBut

\* The results answer the open call.
LEMMA AppendResults ==
  ASSUME NEW s \in Seq(Item), NEW x \in Item, OpenCall(s), x.kind = "results"
  PROVE  Answered(Append(s, x))
<1>1. \A i \in DOMAIN s : i \in 1..Len(s) /\ i # 0
  OBVIOUS
<1>2. \A i \in DOMAIN s : s[i].kind = "calls" /\ i # Len(s) => i + 1 \in DOMAIN s /\ s[i + 1].kind = "results"
  BY <1>1 DEF OpenCall, AnsweredBut
<1>3. \A i \in DOMAIN s : s[i].kind = "results" => i > 1 /\ i - 1 \in DOMAIN s /\ s[i - 1].kind = "calls"
  BY <1>1 DEF OpenCall, AnsweredBut
<1>4. Len(s) \in DOMAIN s /\ s[Len(s)].kind = "calls" /\ Len(s) >= 1
  BY DEF OpenCall
<1>5. \A i \in DOMAIN Append(s, x) : Append(s, x)[i].kind = "open" => i = 1
  BY Appended DEF OpenCall, AnsweredBut
<1> QED BY <1>1, <1>2, <1>3, <1>4, <1>5, Appended DEF Answered, AnsweredBut

\* The budget and the lists: a turn counts by itself, other entries carry the
\* sum on.
LEMMA BudgetAppended ==
  ASSUME NEW s \in Seq(Item), NEW x \in Item, NEW budget \in Nat, WithinBudget(s, budget)
  PROVE  /\ NothingAfter(Append(s, x), budget)
         /\ x.kind \notin {"text", "calls"} \/ x.spent < budget => WithinBudget(Append(s, x), budget)
<1>1. \A i \in Turns(s) : i \in DOMAIN s
  BY DEF Turns
<1>2. \A i \in Turns(Append(s, x)) : i \in Turns(s) \/ (i = Len(s) + 1 /\ x.kind \in {"text", "calls"})
  BY TurnAppended
<1> QED BY <1>1, <1>2, Appended DEF WithinBudget, NothingAfter

\* The limits of a run.
LEMMA ParamTypes ==
  \A q \in RunParams \cup {AgentParams} : q.maxIter \in Nat \ {0} /\ q.budget \in Nat
BY ReactAssumption DEF ReactAssumption

LEMMA EmptyList ==
  ASSUME NEW p \in {"idle", "ended"}, NEW r \in RunContext
  PROVE  LoopOK(p, r, <<>>)
<1>1. Turns(<<>>) = {}
  BY DEF Turns
<1>2. Cardinality(Turns(<<>>)) = 0 /\ r.params.maxIter \in Nat
  BY <1>1, FS_EmptySet, ParamTypes DEF RunContext
<1> QED BY <1>1, <1>2 DEF LoopOK, InLoop, NothingAfter, Limited

-----------------------------------------------------------------------------
\* Types.

LEMMA Counting ==
  ASSUME NEW listed \in BOOLEAN
  PROVE  OriginalCount(listed) \in Nat
<1>1. Cardinality(Attempt) \in Nat
  BY FS_CardinalityType, ReactAssumption DEF ReactAssumption
<1>2. IsFiniteSet(Key)
  BY <1>1, FS_Interval DEF Key
<1>3. Cardinality({k \in Key : memory[k] # None}) \in Nat
  BY <1>2, FS_Subset, FS_CardinalityType
<1> QED BY <1>3 DEF OriginalCount

LEMMA RecordRuns ==
  ASSUME ReactTypeOK
  PROVE  \A j \in DOMAIN records : records[j].run \in Attempt
<1>1. \A j \in DOMAIN records : records[j] \in Record
  BY DEF ReactTypeOK
<1> QED BY <1>1 DEF Record

\* A record changes in place.
LEMMA RecordChanged ==
  ASSUME NEW i \in DOMAIN records, records \in Seq(Record), NEW st \in {"ready", "resuming", "completed"},
         NEW o \in Attempt \cup {None},
         records' = [records EXCEPT ![i].status = st, ![i].owner = o]
  PROVE  /\ records' \in Seq(Record) /\ Len(records') = Len(records) /\ DOMAIN records' = DOMAIN records
         /\ \A j \in DOMAIN records :
              /\ records'[j].run = records[j].run /\ records'[j].iteration = records[j].iteration
              /\ records'[j].messages = records[j].messages /\ records'[j].count = records[j].count
              /\ records'[j].consumed = records[j].consumed /\ records'[j].restarted = records[j].restarted
              /\ records'[j].params = records[j].params /\ records'[j].before = records[j].before
<1>1. records[i] \in Record
  OBVIOUS
<1>2. [records[i] EXCEPT !.status = st, !.owner = o] \in Record
  BY <1>1 DEF Record
<1>3. records' = [records EXCEPT ![i] = [records[i] EXCEPT !.status = st, !.owner = o]]
  BY <1>1
<1>4. records' \in Seq(Record) /\ Len(records') = Len(records) /\ DOMAIN records' = DOMAIN records
  <2>1. PICK v \in Record : records' = [records EXCEPT ![i] = v]
    BY <1>2, <1>3
  <2>2. i \in 1..Len(records)
    OBVIOUS
  <2>3. [records EXCEPT ![i] = v] \in Seq(Record) /\ Len([records EXCEPT ![i] = v]) = Len(records)
    BY <2>2, ExceptSeq
  <2> QED BY <2>1, <2>3
<1>5. \A j \in DOMAIN records : j # i => records'[j] = records[j]
  BY <1>3
<1>6. records'[i] = [records[i] EXCEPT !.status = st, !.owner = o]
  BY <1>3
<1> QED BY <1>1, <1>4, <1>5, <1>6 DEF Record

\* What a step may do to the records.
RecordsKept ==
  /\ records' \in Seq(Record) /\ DOMAIN records \subseteq DOMAIN records'
  /\ \A j \in DOMAIN records :
       /\ records'[j].run = records[j].run /\ records'[j].iteration = records[j].iteration
       /\ records'[j].messages = records[j].messages /\ records'[j].count = records[j].count
       /\ records'[j].consumed = records[j].consumed /\ records'[j].restarted = records[j].restarted
       /\ records'[j].params = records[j].params /\ records'[j].before = records[j].before

\* The end of an attempt: its context is reset, but for its name.
LEMMA Ended ==
  ASSUME ReactTypeOK, NEW a \in Attempt, End(a)
  PROVE  /\ pc' \in [Attempt -> {"idle", "loop", "turn", "gate", "suspend", "batch", "save", "final",
                                 "complete", "ended"}]
         /\ rc' \in [Attempt -> RunContext] /\ messages' \in [Attempt -> Seq(Item)]
         /\ pc'[a] = "ended" /\ messages'[a] = <<>>
         /\ rc'[a].run = rc[a].run /\ rc'[a].entry = rc[a].entry /\ rc'[a].restarted = rc[a].restarted
         /\ rc'[a].params = rc[a].params
         /\ \A b \in Attempt : b # a => pc'[b] = pc[b] /\ rc'[b] = rc[b] /\ messages'[b] = messages[b]
<1>1. NewContext(rc[a].entry, rc[a].run, rc[a].params, rc[a].restarted) \in RunContext
  BY DEF ReactTypeOK, NewContext, RunContext, StopReason
<1> QED BY <1>1 DEF ReactTypeOK, End, Goto, NewContext

LEMMA ResponseTypes ==
  ASSUME ReactTypeOK, NEW a \in Attempt
  PROVE  /\ ToStore(a) \in Seq({"user", "text", "calls"})
         /\ \A j \in DOMAIN ToStore(a) : ToStore(a)[j] = "user" => (rc[a].entry = "run" /\ j = 1)
         /\ \A j \in DOMAIN ToStore(a) :
              ToStore(a)[j] = "calls" => rc[a].lastMsg = "calls" /\ rc[a].stop # "interrupted"
<1>1. rc[a].lastMsg \in {"none", "text", "calls"}
  BY DEF ReactTypeOK, RunContext
<1>2. RespMsgs(a) = <<>> \/ (/\ RespMsgs(a) = <<rc[a].lastMsg>> /\ rc[a].lastMsg \in {"text", "calls"}
                               /\ rc[a].stop # "interrupted")
  BY <1>1 DEF RespMsgs
<1>3. ReqMsgs(a) = 1 <=> rc[a].entry = "run"
  BY DEF ReqMsgs
<1>4. CASE rc[a].entry = "run"
  <2>1. ToStore(a) = <<"user">> \o RespMsgs(a)
    BY <1>3, <1>4 DEF ToStore
  <2>2. CASE RespMsgs(a) = <<>>
    BY <1>4, <2>1, <2>2
  <2>3. CASE RespMsgs(a) = <<rc[a].lastMsg>> /\ rc[a].lastMsg \in {"text", "calls"} /\ rc[a].stop # "interrupted"
    BY <1>4, <2>1, <2>3
  <2> QED BY <1>2, <2>2, <2>3
<1>5. CASE rc[a].entry # "run"
  <2>1. ToStore(a) = <<>> \o RespMsgs(a)
    BY <1>3, <1>5 DEF ToStore
  <2>2. CASE RespMsgs(a) = <<>>
    BY <2>1, <2>2
  <2>3. CASE RespMsgs(a) = <<rc[a].lastMsg>> /\ rc[a].lastMsg \in {"text", "calls"} /\ rc[a].stop # "interrupted"
    BY <2>1, <2>3
  <2> QED BY <1>2, <2>2, <2>3
<1> QED BY <1>4, <1>5

-----------------------------------------------------------------------------
\* The steps that start an attempt.

LEMMA BeginStep ==
  ASSUME ReactIInv, NEW a \in Attempt, NEW params \in RunParams, NEW listed \in BOOLEAN,
         Begin(a, params, listed)
  PROVE  ReactIInv'
<1> USE DEF ReactIInv
<1>1. PICK c \in Nat : c = OriginalCount(listed)
  BY Counting
<1>2. rc[a] = NewContext("run", a, AgentParams, FALSE) /\ pc[a] = "idle"
  BY DEF Begin, RunsNamed, IdleFresh
<1>3. PICK history \in {<<>>, <<It("open", 0)>>} :
        messages' = [messages EXCEPT ![a] = Append(history, It("user", 0))]
  BY DEF Begin, History
<1>4. /\ rc' = [rc EXCEPT ![a].params = params, ![a].count = c]
      /\ pc' = [pc EXCEPT ![a] = "loop"] /\ UNCHANGED <<latest, records, memory>>
  BY <1>1 DEF Begin, Goto
<1> DEFINE s == Append(history, It("user", 0))
<1>5. /\ It("user", 0) \in Item /\ It("open", 0) \in Item /\ history \in Seq(Item) /\ s \in Seq(Item)
      /\ It("user", 0).kind = "user" /\ It("user", 0).spent = 0 /\ It("open", 0).kind = "open"
  <2>1. /\ It("user", 0) \in Item /\ It("open", 0) \in Item
        /\ It("user", 0).kind = "user" /\ It("user", 0).spent = 0 /\ It("open", 0).kind = "open"
    BY DEF It, Item
  <2> HIDE DEF It
  <2>2. history \in Seq(Item)
    <3>1. \A x \in Item : <<x>> \in Seq(Item)
      OBVIOUS
    <3>2. <<>> \in Seq(Item)
      OBVIOUS
    <3> QED BY <2>1, <3>1, <3>2
  <2> QED BY <2>1, <2>2
<1>6. Turns(s) = {} /\ Answered(s) /\ TokensSpent(s) = 0
  <2>1. Turns(history) = {} /\ Answered(history)
    BY <1>5 DEF Turns, Answered, AnsweredBut
  <2> QED BY <1>5, <2>1, Appended, TurnAppended, AppendToAnswered
<1> HIDE DEF s
<1>7. ReactTypeOK'
  <2>1. [rc[a] EXCEPT !.params = params, !.count = c] \in RunContext
    <3>1. rc[a] \in RunContext
      BY DEF ReactTypeOK
    <3> QED BY <3>1 DEF RunContext
  <2>2. rc' = [rc EXCEPT ![a] = [rc[a] EXCEPT !.params = params, !.count = c]]
    BY <1>4 DEF ReactTypeOK
  <2> QED BY <1>3, <1>4, <1>5, <2>1, <2>2 DEF ReactTypeOK, s
<1>8. \A b \in Attempt : b # a => pc'[b] = pc[b] /\ rc'[b] = rc[b] /\ messages'[b] = messages[b]
  BY <1>3, <1>4 DEF ReactTypeOK
<1>9. /\ pc'[a] = "loop" /\ rc'[a].run = a /\ rc'[a].entry = "run" /\ ~rc'[a].restarted /\ rc'[a].count = c
      /\ rc'[a].iteration = 0 /\ rc'[a].consumed = 0 /\ rc'[a].params = params /\ rc'[a].stop = "none"
      /\ messages'[a] = s
  BY <1>2, <1>3, <1>4 DEF ReactTypeOK, NewContext, s
<1>10. LoopOK(pc[a], rc[a], messages[a])'
  <2>1. Cardinality(Turns(s)) = 0 /\ params.maxIter \in Nat
    BY <1>6, FS_EmptySet, ParamTypes
  <2>2. NothingAfter(s, params.budget) /\ WithinBudget(s, params.budget)
    BY <1>6 DEF NothingAfter, WithinBudget
  <2>3. Limited(rc'[a], s)
    BY <1>9, <2>1 DEF Limited
  <2>4. PICK p, r : p = pc'[a] /\ r = rc'[a]
    OBVIOUS
  <2>5. LoopOK(p, r, s)
    BY <1>6, <1>9, <2>1, <2>2, <2>3, <2>4 DEF LoopOK, InLoop
  <2> QED BY <1>9, <2>4, <2>5 DEF LoopOK, InLoop
<1>11. Lists' /\ CallsStopped'
  BY <1>4, <1>8, <1>10 DEF Lists, CallsStopped
<1>12. Unseen(a)
  BY <1>2 DEF RunsNamed
<1>13. RunsNamed'
  <2>1. IdleFresh'
    BY <1>8, <1>9 DEF RunsNamed, IdleFresh
  <2>2. EntryNamed'
    BY <1>8, <1>9 DEF RunsNamed, EntryNamed
  <2>3. ASSUME NEW b \in Attempt, pc'[b] = "idle" PROVE Unseen(b)'
    <3>1. Unseen(b) /\ b # a
      BY <1>8, <1>9, <2>3 DEF RunsNamed
    <3> QED BY <1>4, <1>8, <1>9, <3>1 DEF Unseen
  <2>4. ParamsKept'
    <3>1. \A b \in Attempt : rc[b].run \in Attempt
      BY DEF ReactTypeOK, RunContext
    <3>2. \A i \in DOMAIN records : records[i].run \in Attempt
      BY RecordRuns
    <3>3. ASSUME NEW b \in Attempt PROVE Under(rc'[b], rc'[rc'[b].run].params)
      <4>1. CASE b = a
        BY <1>9, <4>1 DEF Under
      <4>2. CASE b # a
        BY <1>8, <1>12, <3>1, <4>2 DEF RunsNamed, ParamsKept, Unseen
      <4> QED BY <4>1, <4>2
    <3>4. ASSUME NEW i \in DOMAIN records PROVE Under(records[i], rc'[records[i].run].params)
      BY <1>8, <1>12, <3>2 DEF RunsNamed, ParamsKept, Unseen
    <3> QED BY <1>4, <3>3, <3>4 DEF ParamsKept
  <2> QED BY <2>1, <2>2, <2>3, <2>4 DEF RunsNamed
<1>14. RecordsKnown'
  BY <1>4, <1>8, <1>9 DEF RecordsKnown, AliveAttempt
<1>15. Offsets'
  <2>1. \A r, k : Reserved(r, k) => Reserved(r, k)'
    BY <1>4, <1>8, <1>9 DEF Reserved, AliveAttempt
  <2>2. Reserved(a, rc[a].count)'
    BY <1>4, <1>8, <1>9, <1>12 DEF Reserved, Unseen
  <2>3. \A k \in Key : memory[k] # None => memory[k].run # a
    BY <1>12 DEF Unseen
  <2>4. \A b \in Attempt : b # a => AliveAttempt(b)' = AliveAttempt(b)
    BY <1>8 DEF AliveAttempt
  <2> QED BY <1>4, <1>8, <2>1, <2>2, <2>3, <2>4 DEF Offsets
<1> QED BY <1>7, <1>11, <1>13, <1>14, <1>15

LEMMA ResumeStep ==
  ASSUME ReactIInv, NEW a \in Attempt, Resume(a)
  PROVE  ReactIInv'
<1> USE DEF ReactIInv
<1>1. latest # None /\ latest \in Checkpoint /\ ~latest.final /\ pc[a] = "idle"
  BY DEF Resume, ReactTypeOK
<1>2. rc[a] = NewContext("run", a, AgentParams, FALSE)
  BY <1>1 DEF RunsNamed, IdleFresh
<1>3. /\ messages' = [messages EXCEPT ![a] = latest.messages]
      /\ pc' = [pc EXCEPT ![a] = "loop"] /\ UNCHANGED <<latest, records, memory>>
  BY DEF Resume, Goto
<1>4. ReactTypeOK'
  <2>1. rc' \in [Attempt -> RunContext]
    <3> DEFINE v == [rc[a] EXCEPT !.entry = "resume", !.run = latest.run, !.params = AgentParams,
                                  !.iteration = latest.iteration + 1, !.count = latest.count,
                                  !.restarted = TRUE, !.before = Cardinality(Turns(latest.messages))]
    <3>1. /\ latest.run \in Attempt /\ latest.iteration + 1 \in Nat /\ latest.count \in Nat
          /\ rc[a] \in RunContext /\ Cardinality(Turns(latest.messages)) \in Nat
      BY <1>1, TurnsFinite DEF Checkpoint, ReactTypeOK
    <3>2. v \in RunContext
      BY <3>1 DEF RunContext, Entry
    <3>3. rc' = [rc EXCEPT ![a] = v]
      BY DEF Resume, ReactTypeOK
    <3> HIDE DEF v
    <3> QED BY <3>2, <3>3 DEF ReactTypeOK
  <2>2. latest.messages \in Seq(Item)
    BY <1>1 DEF Checkpoint
  <2> QED BY <1>3, <2>1, <2>2 DEF ReactTypeOK
<1>5. \A b \in Attempt : b # a => pc'[b] = pc[b] /\ rc'[b] = rc[b] /\ messages'[b] = messages[b]
  BY <1>3 DEF ReactTypeOK, Resume
<1>6. /\ pc'[a] = "loop" /\ rc'[a].run = latest.run /\ rc'[a].entry = "resume" /\ rc'[a].restarted = TRUE
      /\ rc'[a].iteration = latest.iteration + 1 /\ messages'[a] = latest.messages
      /\ rc'[a].params = AgentParams /\ rc'[a].before = Cardinality(Turns(latest.messages))
      /\ rc'[a].stop = "none"
  BY <1>2, <1>3 DEF Resume, ReactTypeOK, NewContext
<1>7. LoopOK(pc[a], rc[a], messages[a])'
  <2>1. latest.iteration \in Nat /\ Cardinality(Turns(latest.messages)) \in Nat
    BY <1>1, TurnsFinite DEF Checkpoint
  <2> QED BY <1>1, <1>6, <2>1 DEF LoopOK, InLoop, Lists, CheckpointOK, Limited
<1>8. Lists' /\ CallsStopped'
  BY <1>3, <1>5, <1>7 DEF Lists, CallsStopped
<1>9. RunsNamed'
  <2>1. IdleFresh'
    BY <1>5, <1>6 DEF RunsNamed, IdleFresh
  <2>2. EntryNamed'
    BY <1>5, <1>6 DEF RunsNamed, EntryNamed
  <2>3. ASSUME NEW b \in Attempt, pc'[b] = "idle" PROVE Unseen(b)'
    <3>1. Unseen(b) /\ b # a
      BY <1>5, <1>6, <2>3 DEF RunsNamed
    <3> QED BY <1>1, <1>3, <1>5, <1>6, <3>1 DEF Unseen
  <2>4. ParamsKept'
    <3>1. Unseen(a)
      BY <1>1 DEF RunsNamed
    <3>2. \A b \in Attempt : rc[b].run \in Attempt
      BY DEF ReactTypeOK, RunContext
    <3>3. \A i \in DOMAIN records : records[i].run \in Attempt
      BY RecordRuns
    <3>4. ASSUME NEW b \in Attempt PROVE Under(rc'[b], rc'[rc'[b].run].params)
      <4>1. CASE b = a
        BY <1>6, <4>1 DEF Under
      <4>2. CASE b # a
        BY <1>5, <3>1, <3>2, <4>2 DEF RunsNamed, ParamsKept, Unseen
      <4> QED BY <4>1, <4>2
    <3>5. ASSUME NEW i \in DOMAIN records PROVE Under(records[i], rc'[records[i].run].params)
      BY <1>5, <3>1, <3>3 DEF RunsNamed, ParamsKept, Unseen
    <3> QED BY <1>3, <3>4, <3>5 DEF ParamsKept
  <2> QED BY <2>1, <2>2, <2>3, <2>4 DEF RunsNamed
<1>10. RecordsKnown'
  BY <1>3, <1>5, <1>6 DEF RecordsKnown, AliveAttempt
<1>11. Offsets'
  <2>1. \A r, k : Reserved(r, k) => Reserved(r, k)'
    BY <1>3, <1>5, <1>6 DEF Reserved, AliveAttempt
  <2>2. \A b \in Attempt : b # a => AliveAttempt(b)' = AliveAttempt(b)
    BY <1>5 DEF AliveAttempt
  <2> QED BY <1>3, <1>5, <1>6, <2>1, <2>2 DEF Offsets
<1> QED BY <1>4, <1>8, <1>9, <1>10, <1>11

LEMMA ResumeInterruptStep ==
  ASSUME ReactIInv, NEW a \in Attempt, NEW i \in DOMAIN records, ResumeInterrupt(a, i)
  PROVE  ReactIInv'
<1> USE DEF ReactIInv
<1>1. records[i] \in Record /\ pc[a] = "idle" /\ i \in Nat
  BY DEF ResumeInterrupt, ReactTypeOK
<1>2. rc[a] = NewContext("run", a, AgentParams, FALSE)
  BY <1>1 DEF RunsNamed, IdleFresh
<1>3. /\ messages' = [messages EXCEPT ![a] = records[i].messages]
      /\ pc' = [pc EXCEPT ![a] = "batch"] /\ UNCHANGED <<latest, memory>>
      /\ records' = [records EXCEPT ![i].status = "resuming", ![i].owner = a]
  BY DEF ResumeInterrupt, Goto
<1>4. RecordsKept /\ DOMAIN records' = DOMAIN records
  BY <1>3, RecordChanged DEF ReactTypeOK, RecordsKept
<1>5. ReactTypeOK'
  <2>1. rc' \in [Attempt -> RunContext]
    <3> DEFINE v == [rc[a] EXCEPT !.entry = "interrupt", !.run = records[i].run,
                                  !.params = records[i].params, !.record = i,
                                  !.iteration = records[i].iteration, !.consumed = records[i].consumed,
                                  !.count = records[i].count, !.restarted = records[i].restarted,
                                  !.before = records[i].before]
    <3>1. /\ records[i].params \in RunParams \cup {AgentParams} /\ records[i].before \in Nat
          /\ records[i].run \in Attempt /\ records[i].iteration \in Nat /\ records[i].count \in Nat
          /\ records[i].consumed \in Nat /\ records[i].restarted \in BOOLEAN /\ rc[a] \in RunContext
      BY <1>1 DEF Record, ReactTypeOK
    <3>2. v \in RunContext
      BY <1>1, <3>1 DEF RunContext, Entry
    <3>3. rc' = [rc EXCEPT ![a] = v]
      BY DEF ResumeInterrupt, ReactTypeOK
    <3> HIDE DEF v
    <3> QED BY <3>2, <3>3 DEF ReactTypeOK
  <2>2. records[i].messages \in Seq(Item)
    BY <1>1 DEF Record
  <2> QED BY <1>3, <1>4, <2>1, <2>2 DEF ReactTypeOK, RecordsKept
<1>6. \A b \in Attempt : b # a => pc'[b] = pc[b] /\ rc'[b] = rc[b] /\ messages'[b] = messages[b]
  BY <1>3 DEF ReactTypeOK, ResumeInterrupt
<1>7. /\ pc'[a] = "batch" /\ rc'[a].run = records[i].run /\ rc'[a].entry = "interrupt" /\ rc'[a].record = i
      /\ rc'[a].restarted = records[i].restarted /\ rc'[a].iteration = records[i].iteration
      /\ rc'[a].consumed = records[i].consumed /\ rc'[a].count = records[i].count
      /\ rc'[a].params = records[i].params /\ rc'[a].before = records[i].before
      /\ rc'[a].stop = "none"
      /\ messages'[a] = records[i].messages
  <2>1. pc'[a] = "batch" /\ messages'[a] = records[i].messages
    BY <1>3 DEF ReactTypeOK
  <2>2. rc' = [rc EXCEPT ![a] =
                [rc[a] EXCEPT !.entry = "interrupt", !.run = records[i].run, !.params = records[i].params,
                              !.record = i, !.iteration = records[i].iteration, !.consumed = records[i].consumed,
                              !.count = records[i].count, !.restarted = records[i].restarted,
                              !.before = records[i].before]]
    BY DEF ResumeInterrupt, ReactTypeOK
  <2>3. rc'[a] =
          [rc[a] EXCEPT !.entry = "interrupt", !.run = records[i].run, !.params = records[i].params,
                        !.record = i, !.iteration = records[i].iteration, !.consumed = records[i].consumed,
                        !.count = records[i].count, !.restarted = records[i].restarted,
                        !.before = records[i].before]
    BY <2>2 DEF ReactTypeOK
  <2> QED BY <1>2, <2>1, <2>3 DEF NewContext
<1>8. LoopOK(pc[a], rc[a], messages[a])'
  <2>1. RecordOK(records[i])
    BY DEF Lists
  <2> QED BY <1>7, <2>1 DEF LoopOK, InLoop, RecordOK, WithinBudget, NothingAfter, Limited
<1>9. Lists' /\ CallsStopped'
  <2>1. \A j \in DOMAIN records' : RecordOK(records'[j])
    BY <1>4 DEF Lists, RecordOK, RecordsKept, Limited
  <2> QED BY <1>3, <1>6, <1>8, <2>1 DEF Lists, CallsStopped
<1>10. RunsNamed'
  <2>1. IdleFresh'
    BY <1>6, <1>7 DEF RunsNamed, IdleFresh
  <2>2. EntryNamed'
    BY <1>6, <1>7 DEF RunsNamed, EntryNamed
  <2>3. ASSUME NEW b \in Attempt, pc'[b] = "idle" PROVE Unseen(b)'
    <3>1. Unseen(b) /\ b # a
      BY <1>6, <1>7, <2>3 DEF RunsNamed
    <3> QED BY SMTT(40), <1>3, <1>4, <1>6, <1>7, <3>1 DEF Unseen, RecordsKept
  <2>4. ParamsKept'
    <3>1. Unseen(a)
      BY <1>1 DEF RunsNamed
    <3>2. \A b \in Attempt : rc[b].run \in Attempt
      BY DEF ReactTypeOK, RunContext
    <3>3. \A j \in DOMAIN records : records[j].run \in Attempt
      BY RecordRuns
    <3>4. ASSUME NEW j \in DOMAIN records PROVE Under(records[j], rc'[records[j].run].params)
      BY <1>6, <3>1, <3>3 DEF RunsNamed, ParamsKept, Unseen
    <3>5. ASSUME NEW b \in Attempt PROVE Under(rc'[b], rc'[rc'[b].run].params)
      <4>1. CASE b = a
        BY <1>7, <3>4, <4>1 DEF Under
      <4>2. CASE b # a
        BY <1>6, <3>1, <3>2, <4>2 DEF RunsNamed, ParamsKept, Unseen
      <4> QED BY <4>1, <4>2
    <3>6. ASSUME NEW j \in DOMAIN records PROVE Under(records'[j], rc'[records'[j].run].params)
      BY <1>4, <3>4 DEF RecordsKept, Under
    <3> QED BY <1>4, <3>5, <3>6 DEF ParamsKept
  <2> QED BY <2>1, <2>2, <2>3, <2>4 DEF RunsNamed
<1>11. RecordsKnown'
  BY <1>4, <1>6, <1>7 DEF RecordsKnown, AliveAttempt
<1>12. Offsets'
  <2>1. \A r, k : Reserved(r, k) => Reserved(r, k)'
    BY <1>4, <1>6, <1>7 DEF Reserved, AliveAttempt, RecordsKept
  <2>2. \A b \in Attempt : b # a => AliveAttempt(b)' = AliveAttempt(b)
    BY <1>6 DEF AliveAttempt
  <2> QED BY <1>3, <1>6, <1>7, <2>1, <2>2 DEF Offsets
<1> QED BY <1>5, <1>9, <1>10, <1>11, <1>12

-----------------------------------------------------------------------------
\* Steps of a live attempt keep every name and offset.

\* The other attempts do nothing.
OthersStay(a) ==
  \A b \in Attempt : b # a => pc'[b] = pc[b] /\ rc'[b] = rc[b] /\ messages'[b] = messages[b]

\* Attempt a keeps its name, and its offset while it is live.
NameKept(a) ==
  /\ rc'[a].run = rc[a].run /\ rc'[a].entry = rc[a].entry /\ rc'[a].restarted = rc[a].restarted
  /\ rc'[a].params = rc[a].params /\ pc'[a] # "idle"
  /\ pc'[a] # "ended" => rc'[a].count = rc[a].count /\ rc'[a].record = rc[a].record

\* Records are only added, by a and for its run.
RecordsAdded(a) ==
  \A j \in DOMAIN records' \ DOMAIN records :
    /\ records'[j].run = rc[a].run /\ records'[j].restarted = rc[a].restarted
    /\ records'[j].count = rc[a].count + ReqMsgs(a) /\ records'[j].params = rc[a].params

LEMMA ParamsStay ==
  ASSUME ReactTypeOK, RunsNamed, NEW a \in Attempt, OthersStay(a), NameKept(a), RecordsKept, RecordsAdded(a)
  PROVE  ParamsKept'
<1>1. \A r \in Attempt : /\ rc'[r].params = rc[r].params /\ rc'[r].run = rc[r].run
                         /\ rc'[r].restarted = rc[r].restarted /\ rc[r].run \in Attempt
  BY DEF OthersStay, NameKept, ReactTypeOK, RunContext
<1>2. \A j \in DOMAIN records : records[j].run \in Attempt
  BY RecordRuns
<1>3. ASSUME NEW b \in Attempt PROVE Under(rc'[b], rc'[rc'[b].run].params)
  BY <1>1 DEF RunsNamed, ParamsKept, Under
<1>4. ASSUME NEW j \in DOMAIN records' PROVE Under(records'[j], rc'[records'[j].run].params)
  <2>1. CASE j \in DOMAIN records
    BY <1>1, <1>2, <2>1 DEF RunsNamed, ParamsKept, RecordsKept, Under
  <2>2. CASE j \notin DOMAIN records
    BY <1>1, <2>2 DEF RunsNamed, ParamsKept, RecordsAdded, Under
  <2> QED BY <2>1, <2>2
<1> QED BY <1>3, <1>4 DEF ParamsKept

LEMMA NamesStep ==
  ASSUME ReactTypeOK, RunsNamed, RecordsKnown, Offsets, NEW a \in Attempt, AliveAttempt(a),
         OthersStay(a), NameKept(a), RecordsKept, RecordsAdded(a),
         UNCHANGED latest \/ latest'.run = rc[a].run,
         UNCHANGED memory
  PROVE  RunsNamed' /\ RecordsKnown' /\ Offsets'
<1>1. pc[a] # "idle" /\ \A b \in Attempt : pc'[b] = "idle" => pc[b] = "idle" /\ b # a
  BY DEF AliveAttempt, OthersStay, NameKept
<1>2. RunsNamed'
  <2>1. IdleFresh'
    BY <1>1 DEF RunsNamed, IdleFresh, OthersStay
  <2>2. EntryNamed'
    BY DEF RunsNamed, EntryNamed, OthersStay, NameKept
  <2>3. ASSUME NEW b \in Attempt, pc'[b] = "idle" PROVE Unseen(b)'
    <3>1. Unseen(b) /\ b # a
      BY <1>1, <2>3 DEF RunsNamed
    <3>2. rc[a].run # b
      BY <3>1 DEF Unseen
    <3> QED BY <3>1, <3>2 DEF Unseen, OthersStay, NameKept, RecordsKept, RecordsAdded
  <2>4. ParamsKept'
    BY ParamsStay
  <2> QED BY <2>1, <2>2, <2>3, <2>4 DEF RunsNamed
<1>3. RecordsKnown'
  BY DEF RecordsKnown, AliveAttempt, OthersStay, NameKept, RecordsKept
<1>4. \A b \in Attempt : AliveAttempt(b)' => /\ AliveAttempt(b) /\ rc'[b].entry = rc[b].entry /\ rc'[b].run = rc[b].run
                                     /\ rc'[b].restarted = rc[b].restarted /\ rc'[b].count = rc[b].count
  BY DEF AliveAttempt, OthersStay, NameKept
<1>5. ASSUME NEW r \in Attempt, NEW k \in Nat, Reserved(r, k),
             (r = rc[a].run /\ ~rc[a].restarted) => rc[a].count + ReqMsgs(a) > k
      PROVE  Reserved(r, k)'
  BY <1>4, <1>5 DEF Reserved, RecordsKept, RecordsAdded
<1>6. rc[a].count \in Nat /\ rc[a].run \in Attempt /\ rc[a].entry \in {"run", "resume", "interrupt"}
  BY DEF ReactTypeOK, RunContext, Entry
<1>7. ASSUME NEW b \in Attempt, AliveAttempt(b)', AliveAttempt(b), rc[b].entry = "run" PROVE Reserved(b, rc[b].count)'
  <2>1. Reserved(b, rc[b].count) /\ rc[b].run = b /\ rc[b].count \in Nat
    BY <1>7 DEF Offsets, RunsNamed, EntryNamed, ReactTypeOK, RunContext
  <2>2. (b = rc[a].run /\ ~rc[a].restarted) => rc[a].count + ReqMsgs(a) > rc[b].count
    <3> SUFFICES ASSUME b = rc[a].run, ~rc[a].restarted PROVE rc[a].count + ReqMsgs(a) > rc[b].count
      OBVIOUS
    <3>1. CASE rc[a].entry = "run"
      <4>1. a = b
        BY <3>1 DEF RunsNamed, EntryNamed
      <4> QED BY <1>6, <3>1, <4>1 DEF ReqMsgs
    <3>2. CASE rc[a].entry = "interrupt"
      BY <1>6, <2>1, <3>2 DEF Reserved, ReqMsgs
    <3>3. CASE rc[a].entry = "resume"
      BY <3>3 DEF RunsNamed, EntryNamed
    <3> QED BY <1>6, <3>1, <3>2, <3>3
  <2>3. PICK k \in Nat : k = rc[b].count
    BY <2>1
  <2>4. Reserved(b, k)'
    BY <1>5, <2>1, <2>2, <2>3
  <2>5. rc'[b].count = k
    BY <1>4, <1>7, <2>3
  <2> QED BY <2>4, <2>5 DEF Reserved
<1>8. ASSUME NEW k \in Key, memory[k] # None, memory[k].what = "user" PROVE Reserved(memory[k].run, k)'
  <2>1. Reserved(memory[k].run, k) /\ memory[k].run \in Attempt
    BY <1>8 DEF Offsets, ReactTypeOK, Message
  <2>2. k \in Nat
    BY DEF Key
  <2>3. (memory[k].run = rc[a].run /\ ~rc[a].restarted) => rc[a].count + ReqMsgs(a) > k
    <3> SUFFICES ASSUME memory[k].run = rc[a].run, ~rc[a].restarted PROVE rc[a].count + ReqMsgs(a) > k
      OBVIOUS
    <3>1. CASE rc[a].entry = "run"
      BY <1>8, <3>1 DEF Offsets, RunsNamed, EntryNamed
    <3>2. CASE rc[a].entry = "interrupt"
      BY <1>6, <2>1, <2>2, <3>2 DEF Reserved, ReqMsgs
    <3>3. CASE rc[a].entry = "resume"
      BY <3>3 DEF RunsNamed, EntryNamed
    <3> QED BY <1>6, <3>1, <3>2, <3>3
  <2>4. PICK r \in Attempt : r = memory[k].run
    BY <2>1
  <2> QED BY <1>5, <2>1, <2>2, <2>3, <2>4
<1>9. Offsets'
  <2>1. ASSUME NEW b \in Attempt, AliveAttempt(b)', rc'[b].entry = "run" PROVE Reserved(b, rc[b].count)'
    BY <1>4, <1>7, <2>1
  <2>2. ASSUME NEW k \in Key, memory'[k] # None, memory'[k].what = "user" PROVE Reserved(memory[k].run, k)'
    BY <1>8, <2>2
  <2>3. ASSUME NEW b \in Attempt, AliveAttempt(b)', rc'[b].entry = "run", NEW k \in Key, memory'[k] # None, memory'[k].what = "user"
        PROVE memory'[k].run # b
    BY <1>4, <2>3 DEF Offsets
  <2> QED BY <2>1, <2>2, <2>3 DEF Offsets
<1> QED BY <1>2, <1>3, <1>9

\* Records that are kept, and what is added, stay sound.
LEMMA RecordsStay ==
  ASSUME Lists, RecordsKept, DOMAIN records' = DOMAIN records
  PROVE  \A i \in DOMAIN records' : RecordOK(records'[i])
BY DEF Lists, RecordsKept, RecordOK, Limited

LEMMA NoRecordAdded ==
  ASSUME ReactTypeOK, NEW a \in Attempt, UNCHANGED records
  PROVE  RecordsKept /\ RecordsAdded(a) /\ DOMAIN records' = DOMAIN records
BY DEF ReactTypeOK, RecordsKept, RecordsAdded

-----------------------------------------------------------------------------
\* Inside the loop.

\* The moves that change only the attempt's own state.
LocalMove(a) ==
  /\ AliveAttempt(a) /\ AliveAttempt(a)'
  /\ OthersStay(a) /\ NameKept(a)
  /\ UNCHANGED <<latest, records, memory>>

LEMMA LocalStep ==
  ASSUME ReactIInv, ReactTypeOK', NEW a \in Attempt, LocalMove(a), LoopOK(pc[a], rc[a], messages[a])'
  PROVE  ReactIInv'
<1> USE DEF ReactIInv, LocalMove
<1>1. RecordsKept /\ RecordsAdded(a)
  BY NoRecordAdded
<1>2. RunsNamed' /\ RecordsKnown' /\ Offsets'
  BY <1>1, NamesStep
<1>3. Lists' /\ CallsStopped'
  BY DEF Lists, OthersStay, CallsStopped
<1> QED BY <1>2, <1>3

LEMMA ShortCircuitStep ==
  ASSUME ReactIInv, NEW a \in Attempt, ShortCircuit(a)
  PROVE  ReactIInv'
<1> USE DEF ReactIInv
<1>1. ReactTypeOK'
  <2>1. rc[a] \in RunContext
    BY DEF ReactTypeOK
  <2>2. [rc[a] EXCEPT !.lastMsg = "text", !.stop = "complete"] \in RunContext
    BY <2>1 DEF RunContext, StopReason
  <2>3. rc' = [rc EXCEPT ![a] = [rc[a] EXCEPT !.lastMsg = "text", !.stop = "complete"]]
    BY <2>1 DEF ShortCircuit, ReactTypeOK
  <2>4. rc' \in [Attempt -> RunContext]
    BY <2>2, <2>3 DEF ReactTypeOK
  <2> QED BY <2>4 DEF ReactTypeOK, ShortCircuit, Goto
<1>2. /\ pc'[a] = "final" /\ pc[a] = "loop" /\ messages'[a] = messages[a]
      /\ rc'[a].restarted = rc[a].restarted /\ rc'[a].params = rc[a].params
      /\ rc'[a].before = rc[a].before /\ rc'[a].lastMsg = "text" /\ rc'[a].stop = "complete" /\ LocalMove(a)
  BY DEF ReactTypeOK, ShortCircuit, Goto, RunContext, LocalMove, AliveAttempt, OthersStay, NameKept
<1>3. LoopOK(pc[a], rc[a], messages[a])'
  BY <1>2 DEF Lists, LoopOK, InLoop, Limited
<1> QED BY <1>1, <1>2, <1>3, LocalStep

LEMMA IterateStep ==
  ASSUME ReactIInv, NEW a \in Attempt, Iterate(a)
  PROVE  ReactIInv'
<1> USE DEF ReactIInv
<1> DEFINE limit == rc[a].params.maxIter
<1>0. limit \in Nat \ {0} /\ rc[a] \in RunContext /\ rc[a].iteration \in Nat /\ rc[a].consumed \in Nat
  BY ParamTypes DEF ReactTypeOK, RunContext
<1>1. CASE rc[a].iteration >= limit
  <2>1. rc' = [rc EXCEPT ![a] = [[rc[a] EXCEPT !.iteration = limit - 1] EXCEPT !.stop = "max_iterations"]]
        /\ pc' = [pc EXCEPT ![a] = "save"] /\ UNCHANGED <<messages, latest, records, memory>> /\ pc[a] = "loop"
    BY <1>1 DEF Iterate, Stop, Goto
  <2>2. [[rc[a] EXCEPT !.iteration = limit - 1] EXCEPT !.stop = "max_iterations"] \in RunContext
    <3>1. limit - 1 \in Nat
      BY <1>0
    <3>2. [rc[a] EXCEPT !.iteration = limit - 1] \in RunContext
      BY <1>0, <3>1 DEF RunContext
    <3> QED BY <3>2 DEF RunContext, StopReason
  <2>3. ReactTypeOK'
    BY <2>1, <2>2 DEF ReactTypeOK
  <2>4. /\ pc'[a] = "save" /\ messages'[a] = messages[a] /\ rc'[a].stop = "max_iterations"
        /\ rc'[a].restarted = rc[a].restarted /\ rc'[a].params = rc[a].params
        /\ rc'[a].before = rc[a].before /\ LocalMove(a)
    BY <1>0, <2>1 DEF ReactTypeOK, RunContext, LocalMove, AliveAttempt, OthersStay, NameKept
  <2>5. LoopOK(pc[a], rc[a], messages[a])'
    BY <2>1, <2>4 DEF Lists, LoopOK, InLoop, Limited
  <2> QED BY <2>3, <2>4, <2>5, LocalStep
<1>2. CASE ~(rc[a].iteration >= limit) /\ Exhausted(rc[a])
  <2>1. rc' = [rc EXCEPT ![a] = [rc[a] EXCEPT !.stop = "budget"]]
        /\ pc' = [pc EXCEPT ![a] = "save"] /\ UNCHANGED <<messages, latest, records, memory>> /\ pc[a] = "loop"
    BY <1>2 DEF Iterate, Stop, Goto
  <2>2. [rc[a] EXCEPT !.stop = "budget"] \in RunContext
    BY <1>0 DEF RunContext, StopReason
  <2>3. ReactTypeOK'
    BY <2>1, <2>2 DEF ReactTypeOK
  <2>4. /\ pc'[a] = "save" /\ messages'[a] = messages[a] /\ rc'[a].stop = "budget"
        /\ rc'[a].restarted = rc[a].restarted /\ rc'[a].params = rc[a].params
        /\ rc'[a].before = rc[a].before /\ LocalMove(a)
    BY <1>0, <2>1 DEF ReactTypeOK, RunContext, LocalMove, AliveAttempt, OthersStay, NameKept
  <2>5. LoopOK(pc[a], rc[a], messages[a])'
    BY <2>1, <2>4 DEF Lists, LoopOK, InLoop, Limited
  <2> QED BY <2>3, <2>4, <2>5, LocalStep
<1>3. CASE ~(rc[a].iteration >= limit) /\ ~Exhausted(rc[a])
  <2>1. pc' = [pc EXCEPT ![a] = "turn"] /\ UNCHANGED <<rc, messages, latest, records, memory>> /\ pc[a] = "loop"
    BY <1>3 DEF Iterate, Goto
  <2>2. ReactTypeOK'
    BY <2>1 DEF ReactTypeOK
  <2>3. /\ pc'[a] = "turn" /\ messages'[a] = messages[a] /\ rc'[a] = rc[a] /\ LocalMove(a)
    BY <2>1 DEF ReactTypeOK, LocalMove, AliveAttempt, OthersStay, NameKept
  <2>4. LoopOK(pc[a], rc[a], messages[a])'
    BY <1>0, <1>3, <2>1, <2>3 DEF Lists, LoopOK, InLoop, Limited
  <2> QED BY <2>2, <2>3, <2>4, LocalStep
<1> QED BY <1>1, <1>2, <1>3

LEMMA GateStep ==
  ASSUME ReactIInv, NEW a \in Attempt, NEW flagged \in BOOLEAN, Gate(a, flagged)
  PROVE  ReactIInv'
<1> USE DEF ReactIInv
<1>1. /\ pc[a] = "gate" /\ UNCHANGED <<rc, messages, latest, records, memory>>
      /\ pc' = [pc EXCEPT ![a] = "suspend"] \/ pc' = [pc EXCEPT ![a] = "batch"]
  BY DEF Gate, Goto
<1>2. ReactTypeOK'
  BY <1>1 DEF ReactTypeOK
<1>3. pc'[a] \in {"suspend", "batch"} /\ LocalMove(a)
  BY <1>1 DEF ReactTypeOK, LocalMove, AliveAttempt, OthersStay, NameKept
<1>4. LoopOK(pc[a], rc[a], messages[a])'
  BY <1>1, <1>3 DEF Lists, LoopOK, InLoop
<1> QED BY <1>2, <1>3, <1>4, LocalStep

LEMMA TurnStep ==
  ASSUME ReactIInv, NEW a \in Attempt, NEW kind \in {"text", "calls"}, NEW cost \in Cost, Turn(a, kind, cost)
  PROVE  ReactIInv'
<1> USE DEF ReactIInv
<1> DEFINE s == messages[a]
<1> DEFINE budget == rc[a].params.budget
<1> DEFINE limit == rc[a].params.maxIter
<1> DEFINE x == It(kind, TokensSpent(s) + cost)
<1> DEFINE t == Append(s, x)
<1> DEFINE ctx == [rc[a] EXCEPT !.consumed = @ + cost, !.lastMsg = kind]
<1>0. /\ s \in Seq(Item) /\ rc[a] \in RunContext /\ cost \in Nat /\ rc[a].consumed \in Nat
      /\ rc[a].iteration \in Nat /\ pc[a] = "turn" /\ budget \in Nat /\ limit \in Nat
  BY ParamTypes, ReactAssumption DEF ReactAssumption, ReactTypeOK, RunContext, Turn
<1>1. TokensSpent(s) \in Nat /\ x \in Item /\ x.kind = kind /\ x.spent = TokensSpent(s) + cost
  <2>1. TokensSpent(s) \in Nat
    <3>1. s # <<>> => s[Len(s)] \in Item
      BY <1>0
    <3> QED BY <3>1 DEF TokensSpent, Item
  <2> QED BY <1>0, <2>1 DEF It, Item
<1>2. ctx \in RunContext /\ ctx.consumed = rc[a].consumed + cost /\ ctx.iteration = rc[a].iteration
      /\ ctx.restarted = rc[a].restarted /\ ctx.run = rc[a].run /\ ctx.entry = rc[a].entry
      /\ ctx.count = rc[a].count /\ ctx.record = rc[a].record /\ ctx.stop = rc[a].stop
      /\ ctx.params = rc[a].params /\ ctx.before = rc[a].before /\ ctx.lastMsg = kind
  <2>1. PICK c \in Nat : c = rc[a].consumed + cost
    BY <1>0
  <2>2. [rc[a] EXCEPT !.consumed = c] \in RunContext
    BY <1>0 DEF RunContext
  <2>3. ctx = [[rc[a] EXCEPT !.consumed = c] EXCEPT !.lastMsg = kind]
    BY <1>0, <2>1 DEF RunContext
  <2>4. ctx \in RunContext
    BY <2>2, <2>3 DEF RunContext
  <2> QED BY <1>0, <2>1, <2>3, <2>4 DEF RunContext
<1>3. LoopOK("turn", rc[a], s)
  BY <1>0 DEF Lists
<1>4. /\ Answered(s) /\ Cardinality(Turns(s)) <= rc[a].iteration /\ rc[a].iteration < limit
      /\ Cardinality(Turns(s)) \in Nat /\ rc[a].stop = "none"
      /\ (budget > 0 /\ ~rc[a].restarted) => rc[a].consumed = TokensSpent(s) /\ WithinBudget(s, budget)
  BY <1>0, <1>3, TurnsFinite DEF LoopOK, InLoop
<1>5. messages' = [messages EXCEPT ![a] = t] /\ UNCHANGED <<latest, records, memory>>
  BY DEF Turn, Append1
<1> HIDE DEF ctx, x, s
<1>6. /\ t \in Seq(Item) /\ Cardinality(Turns(t)) = Cardinality(Turns(s)) + 1
      /\ TokensSpent(t) = TokensSpent(s) + cost
      /\ kind = "calls" => OpenCall(t)
      /\ (budget > 0 /\ ~rc[a].restarted) =>
           NothingAfter(t, budget) /\ (TokensSpent(s) + cost < budget => WithinBudget(t, budget))
  BY <1>0, <1>1, <1>4, Appended, TurnAppended, AppendToAnswered, BudgetAppended
<1> HIDE DEF t
<1>7. \/ \E reason \in {"complete", "budget"} :
           /\ reason = "complete" => kind = "text"
           /\ rc' = [rc EXCEPT ![a] = [ctx EXCEPT !.stop = reason]] /\ pc' = [pc EXCEPT ![a] = "save"]
      \/ kind = "calls" /\ ~Exhausted(ctx) /\ rc' = [rc EXCEPT ![a] = ctx] /\ pc' = [pc EXCEPT ![a] = "gate"]
  BY DEF Turn, Stop, Goto, ctx
<1>8. ASSUME NEW reason \in {"complete", "budget"}, reason = "complete" => kind = "text",
             rc' = [rc EXCEPT ![a] = [ctx EXCEPT !.stop = reason]], pc' = [pc EXCEPT ![a] = "save"]
      PROVE  ReactIInv'
  <2>1. [ctx EXCEPT !.stop = reason] \in RunContext
    BY <1>2, <1>8 DEF RunContext, StopReason
  <2>2. ReactTypeOK'
    BY <1>5, <1>6, <1>8, <2>1 DEF ReactTypeOK
  <2>3. /\ pc'[a] = "save" /\ messages'[a] = t /\ rc'[a].stop = reason
        /\ rc'[a].restarted = rc[a].restarted /\ rc'[a].params = rc[a].params
        /\ rc'[a].before = rc[a].before /\ rc'[a].lastMsg = kind /\ LocalMove(a)
    BY <1>0, <1>2, <1>5, <1>8 DEF ReactTypeOK, RunContext, LocalMove, AliveAttempt, OthersStay, NameKept
  <2>4. LoopOK(pc[a], rc[a], messages[a])'
    BY <1>0, <1>4, <1>6, <1>8, <2>3 DEF LoopOK, InLoop, Limited
  <2> QED BY <2>2, <2>3, <2>4, LocalStep
<1>9. CASE kind = "calls" /\ ~Exhausted(ctx) /\ rc' = [rc EXCEPT ![a] = ctx] /\ pc' = [pc EXCEPT ![a] = "gate"]
  <2>1. ReactTypeOK'
    BY <1>2, <1>5, <1>6, <1>9 DEF ReactTypeOK
  <2>2. pc'[a] = "gate" /\ messages'[a] = t /\ rc'[a] = ctx /\ LocalMove(a)
    BY <1>0, <1>2, <1>5, <1>9 DEF ReactTypeOK, LocalMove, AliveAttempt, OthersStay, NameKept
  <2>3. LoopOK("gate", ctx, t)
    BY SMTT(40), <1>0, <1>1, <1>2, <1>4, <1>6, <1>9 DEF LoopOK, InLoop, Exhausted, Limited
  <2> QED BY <2>1, <2>2, <2>3, LocalStep
<1> QED BY <1>7, <1>8, <1>9

\* The results of a batch, and the direct return after it.
LEMMA BatchStep ==
  ASSUME ReactIInv, NEW a \in Attempt, NEW direct \in BOOLEAN, Batch(a, direct)
  PROVE  ReactIInv'
<1> USE DEF ReactIInv
<1> DEFINE s == messages[a]
<1> DEFINE budget == rc[a].params.budget
<1> DEFINE x == It("results", TokensSpent(s))
<1> DEFINE y == It("direct", TokensSpent(s))
<1> DEFINE t == Append(s, x)
<1> DEFINE u == Append(t, y)
<1>0. s \in Seq(Item) /\ rc[a] \in RunContext /\ rc[a].iteration \in Nat /\ pc[a] = "batch" /\ budget \in Nat
  BY ParamTypes DEF ReactTypeOK, RunContext, Batch
<1>1. TokensSpent(s) \in Nat /\ x \in Item /\ y \in Item /\ x.kind = "results" /\ y.kind = "direct"
      /\ x.spent = TokensSpent(s) /\ y.spent = TokensSpent(s)
  <2>1. TokensSpent(s) \in Nat
    <3>1. s # <<>> => s[Len(s)] \in Item
      BY <1>0
    <3> QED BY <3>1 DEF TokensSpent, Item
  <2> QED BY <2>1 DEF It, Item
<1>2. LoopOK("batch", rc[a], s)
  BY <1>0 DEF Lists
<1>3. /\ OpenCall(s) /\ Cardinality(Turns(s)) <= rc[a].iteration + 1 /\ Limited(rc[a], s)
      /\ Cardinality(Turns(s)) \in Nat /\ rc[a].stop = "none"
      /\ (budget > 0 /\ ~rc[a].restarted) => rc[a].consumed = TokensSpent(s) /\ WithinBudget(s, budget)
  BY <1>0, <1>2, TurnsFinite DEF LoopOK, InLoop
<1>4. UNCHANGED <<latest, records, memory>>
  BY DEF Batch
<1>5. \/ /\ messages' = [messages EXCEPT ![a] = u]
         /\ rc' = [rc EXCEPT ![a].lastMsg = "text", ![a].stop = "complete"]
         /\ pc' = [pc EXCEPT ![a] = "final"] \/ pc' = [pc EXCEPT ![a] = "save"]
      \/ /\ messages' = [messages EXCEPT ![a] = t]
         /\ rc' = [rc EXCEPT ![a].iteration = @ + 1] /\ pc' = [pc EXCEPT ![a] = "loop"]
      \/ /\ messages' = [messages EXCEPT ![a] = t]
         /\ rc' = rc /\ pc' = [pc EXCEPT ![a] = "save"]
  BY <1>0 DEF Batch, Append1, Goto, ReactTypeOK
<1> HIDE DEF x, y, s
<1>6. /\ t \in Seq(Item) /\ Turns(t) = Turns(s) /\ TokensSpent(t) = TokensSpent(s) /\ Answered(t)
      /\ (budget > 0 /\ ~rc[a].restarted) => NothingAfter(t, budget) /\ WithinBudget(t, budget)
  BY <1>0, <1>1, <1>3, Appended, TurnAppended, AppendResults, BudgetAppended
<1> HIDE DEF t
<1>7. /\ u \in Seq(Item) /\ Turns(u) = Turns(s)
      /\ (budget > 0 /\ ~rc[a].restarted) => NothingAfter(u, budget)
  BY <1>0, <1>1, <1>6, Appended, TurnAppended, BudgetAppended
<1> HIDE DEF u
<1>8. CASE /\ messages' = [messages EXCEPT ![a] = u]
           /\ rc' = [rc EXCEPT ![a].lastMsg = "text", ![a].stop = "complete"]
           /\ pc' = [pc EXCEPT ![a] = "final"] \/ pc' = [pc EXCEPT ![a] = "save"]
  <2>1. [rc[a] EXCEPT !.lastMsg = "text", !.stop = "complete"] \in RunContext
    BY <1>0 DEF RunContext, StopReason
  <2>2. rc' = [rc EXCEPT ![a] = [rc[a] EXCEPT !.lastMsg = "text", !.stop = "complete"]]
    BY <1>8 DEF ReactTypeOK
  <2>3. ReactTypeOK'
    BY ZenonT(60), <1>4, <1>7, <1>8, <2>1, <2>2 DEF ReactTypeOK
  <2>4. /\ pc'[a] \in {"final", "save"} /\ messages'[a] = u /\ rc'[a].stop = "complete"
        /\ rc'[a].restarted = rc[a].restarted /\ rc'[a].params = rc[a].params
        /\ rc'[a].before = rc[a].before /\ rc'[a].lastMsg = "text" /\ LocalMove(a)
    BY <1>0, <1>4, <1>8 DEF ReactTypeOK, RunContext, LocalMove, AliveAttempt, OthersStay, NameKept
  <2>5. LoopOK(pc[a], rc[a], messages[a])'
    BY <1>3, <1>7, <2>4 DEF LoopOK, InLoop, Limited
  <2> QED BY <2>3, <2>4, <2>5, LocalStep
<1>9. CASE /\ messages' = [messages EXCEPT ![a] = t]
           /\ rc' = [rc EXCEPT ![a].iteration = @ + 1] /\ pc' = [pc EXCEPT ![a] = "loop"]
  <2>1. [rc[a] EXCEPT !.iteration = @ + 1] \in RunContext
    BY <1>0 DEF RunContext
  <2>2. rc' = [rc EXCEPT ![a] = [rc[a] EXCEPT !.iteration = @ + 1]]
    BY <1>9 DEF ReactTypeOK
  <2>3. ReactTypeOK'
    BY <1>4, <1>6, <1>9, <2>1, <2>2 DEF ReactTypeOK
  <2>4. /\ pc'[a] = "loop" /\ messages'[a] = t /\ rc'[a].iteration = rc[a].iteration + 1
        /\ rc'[a].consumed = rc[a].consumed /\ rc'[a].restarted = rc[a].restarted
        /\ rc'[a].params = rc[a].params /\ rc'[a].before = rc[a].before /\ rc'[a].stop = rc[a].stop
        /\ LocalMove(a)
    BY <1>0, <1>4, <1>9 DEF ReactTypeOK, RunContext, LocalMove, AliveAttempt, OthersStay, NameKept
  <2>5. LoopOK(pc[a], rc[a], messages[a])'
    BY <1>0, <1>3, <1>6, <2>4 DEF LoopOK, InLoop, Limited
  <2> QED BY <2>3, <2>4, <2>5, LocalStep
<1>10. CASE /\ messages' = [messages EXCEPT ![a] = t] /\ rc' = rc /\ pc' = [pc EXCEPT ![a] = "save"]
  <2>1. ReactTypeOK'
    BY <1>4, <1>6, <1>10 DEF ReactTypeOK
  <2>2. pc'[a] = "save" /\ messages'[a] = t /\ rc'[a] = rc[a] /\ LocalMove(a)
    BY <1>0, <1>4, <1>10 DEF ReactTypeOK, LocalMove, AliveAttempt, OthersStay, NameKept
  <2>3. LoopOK(pc[a], rc[a], messages[a])'
    BY <1>3, <1>6, <2>2 DEF LoopOK, InLoop, Limited
  <2> QED BY <2>1, <2>2, <2>3, LocalStep
<1> QED BY <1>5, <1>8, <1>9, <1>10

\* The checkpoint is what the attempt has; the loop goes on after it.
LEMMA SaveStep ==
  ASSUME ReactIInv, NEW a \in Attempt, NEW ok \in BOOLEAN, Save(a, ok)
  PROVE  ReactIInv'
<1> USE DEF ReactIInv
<1> DEFINE c == [run |-> rc[a].run, iteration |-> rc[a].iteration, final |-> rc[a].stop # "none",
                 messages |-> messages[a], count |-> rc[a].count, restarted |-> rc[a].restarted]
<1>0. /\ rc[a] \in RunContext /\ rc[a].iteration \in Nat /\ pc[a] = "save" /\ messages[a] \in Seq(Item)
      /\ rc[a].run \in Attempt /\ rc[a].count \in Nat /\ rc[a].restarted \in BOOLEAN
      /\ UNCHANGED <<messages, records, memory>>
  BY DEF ReactTypeOK, RunContext, Save
<1>1. LoopOK("save", rc[a], messages[a]) /\ Cardinality(Turns(messages[a])) \in Nat
  BY <1>0, TurnsFinite DEF Lists
<1>2. /\ c \in Checkpoint /\ c.run = rc[a].run /\ c.iteration = rc[a].iteration
      /\ c.messages = messages[a] /\ (~c.final => rc[a].stop = "none")
  BY <1>0 DEF Checkpoint
<1>3. latest' = c \/ UNCHANGED latest
  BY DEF Save
<1> HIDE DEF c
<1>4. CheckpointOK(c)
  BY <1>1, <1>2 DEF CheckpointOK, LoopOK, InLoop
<1>5. (latest' = None \/ latest' \in Checkpoint) /\ CheckpointOK(latest')
      /\ (UNCHANGED latest \/ latest'.run = rc[a].run)
  BY <1>2, <1>3, <1>4 DEF ReactTypeOK, Lists
<1>6. CASE rc[a].stop = "none"
  <2>1. rc' = [rc EXCEPT ![a].iteration = @ + 1] /\ pc' = [pc EXCEPT ![a] = "loop"]
    BY <1>6 DEF Save, Goto
  <2>2. [rc[a] EXCEPT !.iteration = @ + 1] \in RunContext
    BY <1>0 DEF RunContext
  <2>3. rc' = [rc EXCEPT ![a] = [rc[a] EXCEPT !.iteration = @ + 1]]
    BY <2>1 DEF ReactTypeOK
  <2>4. ReactTypeOK'
    BY <1>0, <1>5, <2>1, <2>2, <2>3 DEF ReactTypeOK
  <2>5. /\ pc'[a] = "loop" /\ rc'[a].iteration = rc[a].iteration + 1 /\ rc'[a].consumed = rc[a].consumed
        /\ OthersStay(a) /\ NameKept(a) /\ AliveAttempt(a) /\ rc'[a].restarted = rc[a].restarted
        /\ rc'[a].params = rc[a].params /\ rc'[a].before = rc[a].before /\ rc'[a].stop = "none"
    BY <1>0, <1>6, <2>1 DEF ReactTypeOK, RunContext, OthersStay, NameKept, AliveAttempt
  <2>6. LoopOK(pc[a], rc[a], messages[a])'
    BY <1>0, <1>1, <1>6, <2>5 DEF LoopOK, InLoop, Limited
  <2>7. RunsNamed' /\ RecordsKnown' /\ Offsets'
    BY <1>0, <1>5, <2>5, NamesStep, NoRecordAdded
  <2>8. Lists' /\ CallsStopped'
    BY <1>0, <1>5, <2>5, <2>6 DEF Lists, OthersStay, CallsStopped
  <2> QED BY <2>4, <2>7, <2>8
<1>7. CASE rc[a].stop # "none"
  <2>1. rc' = rc /\ pc' = [pc EXCEPT ![a] = "final"]
    BY <1>7 DEF Save, Goto
  <2>2. ReactTypeOK'
    BY <1>0, <1>5, <2>1 DEF ReactTypeOK
  <2>3. pc'[a] = "final" /\ OthersStay(a) /\ NameKept(a) /\ AliveAttempt(a)
    BY <1>0, <2>1 DEF ReactTypeOK, OthersStay, NameKept, AliveAttempt
  <2>4. LoopOK(pc[a], rc[a], messages[a])'
    BY <1>0, <1>1, <1>7, <2>1, <2>3 DEF LoopOK, InLoop, Limited
  <2>5. RunsNamed' /\ RecordsKnown' /\ Offsets'
    BY <1>0, <1>5, <2>3, NamesStep, NoRecordAdded
  <2>6. Lists' /\ CallsStopped'
    BY <1>0, <1>5, <2>3, <2>4 DEF Lists, OthersStay, CallsStopped
  <2> QED BY <2>2, <2>5, <2>6
<1> QED BY <1>6, <1>7

\* A suspended batch becomes a record that continues the same list.
LEMMA SuspendStep ==
  ASSUME ReactIInv, NEW a \in Attempt, Suspend(a)
  PROVE  ReactIInv'
<1> USE DEF ReactIInv
<1> DEFINE d == [run |-> rc[a].run, params |-> rc[a].params, iteration |-> rc[a].iteration, messages |-> messages[a],
                 count |-> rc[a].count + ReqMsgs(a), consumed |-> rc[a].consumed,
                 status |-> "ready", owner |-> None,
                 restarted |-> rc[a].restarted, before |-> rc[a].before]
<1>0. /\ rc[a] \in RunContext /\ rc[a].iteration \in Nat /\ pc[a] = "suspend" /\ messages[a] \in Seq(Item)
      /\ rc[a].run \in Attempt /\ rc[a].count \in Nat /\ rc[a].restarted \in BOOLEAN
      /\ rc[a].params \in RunParams \cup {AgentParams} /\ rc[a].before \in Nat
      /\ rc[a].consumed \in Nat /\ UNCHANGED <<messages, latest, memory>> /\ records \in Seq(Record)
  BY DEF ReactTypeOK, RunContext, Suspend
<1>1. rc[a].count + ReqMsgs(a) \in Nat
  BY <1>0 DEF ReqMsgs
<1>2. /\ d \in Record /\ d.run = rc[a].run /\ d.iteration = rc[a].iteration /\ d.messages = messages[a]
      /\ d.count = rc[a].count + ReqMsgs(a) /\ d.consumed = rc[a].consumed /\ d.restarted = rc[a].restarted
      /\ d.params = rc[a].params /\ d.before = rc[a].before
  BY <1>0, <1>1 DEF Record
<1>3. records' = Append(records, d)
  BY DEF Suspend
<1> HIDE DEF d
<1>4. /\ records' \in Seq(Record) /\ DOMAIN records' = DOMAIN records \cup {Len(records) + 1}
      /\ records'[Len(records) + 1] = d /\ \A j \in DOMAIN records : records'[j] = records[j]
  BY <1>0, <1>2, <1>3
<1>5. RecordsKept
  BY <1>4 DEF RecordsKept
<1>6. RecordsAdded(a)
  BY <1>2, <1>4 DEF RecordsAdded
<1>7. LoopOK("suspend", rc[a], messages[a])
  BY <1>0 DEF Lists
<1>8. RecordOK(d)
  BY <1>2, <1>7 DEF RecordOK, LoopOK, InLoop, Limited
<1>9. rc' = [rc EXCEPT ![a].stop = "interrupted"] /\ pc' = [pc EXCEPT ![a] = "final"]
  BY DEF Suspend, Goto
<1>10. ReactTypeOK'
  <2>1. [rc[a] EXCEPT !.stop = "interrupted"] \in RunContext
    BY <1>0 DEF RunContext, StopReason
  <2>2. rc' = [rc EXCEPT ![a] = [rc[a] EXCEPT !.stop = "interrupted"]]
    BY <1>9 DEF ReactTypeOK
  <2> QED BY <1>0, <1>4, <1>9, <2>1, <2>2 DEF ReactTypeOK
<1>11. /\ pc'[a] = "final" /\ OthersStay(a) /\ NameKept(a) /\ AliveAttempt(a) /\ rc'[a].restarted = rc[a].restarted
       /\ rc'[a].params = rc[a].params /\ rc'[a].before = rc[a].before /\ rc'[a].stop = "interrupted"
  BY <1>0, <1>9 DEF ReactTypeOK, RunContext, OthersStay, NameKept, AliveAttempt
<1>12. RunsNamed' /\ RecordsKnown' /\ Offsets'
  BY <1>0, <1>5, <1>6, <1>11, NamesStep
<1>13. Lists' /\ CallsStopped'
  <2>1. LoopOK(pc[a], rc[a], messages[a])'
    BY <1>0, <1>7, <1>11 DEF LoopOK, InLoop, Limited
  <2>2. \A j \in DOMAIN records' : RecordOK(records'[j])
    BY <1>4, <1>8 DEF Lists
  <2> QED BY <1>0, <1>11, <2>1, <2>2 DEF Lists, OthersStay, CallsStopped
<1> QED BY <1>10, <1>12, <1>13

-----------------------------------------------------------------------------
\* The end of an attempt.

LEMMA EndStep ==
  ASSUME ReactIInv, NEW a \in Attempt, AliveAttempt(a), End(a), RecordsKept, DOMAIN records' = DOMAIN records,
         UNCHANGED <<latest, memory>>
  PROVE  ReactIInv'
<1> USE DEF ReactIInv
<1>1. OthersStay(a) /\ NameKept(a) /\ pc'[a] = "ended" /\ messages'[a] = <<>> /\ rc'[a] \in RunContext
  BY Ended DEF OthersStay, NameKept
<1>2. ReactTypeOK'
  BY Ended DEF ReactTypeOK, RecordsKept
<1>3. RecordsAdded(a)
  BY DEF RecordsAdded
<1>4. RunsNamed' /\ RecordsKnown' /\ Offsets'
  BY <1>1, <1>3, NamesStep
<1>5. LoopOK(pc[a], rc[a], messages[a])'
  BY <1>1, EmptyList
<1>6. Lists' /\ CallsStopped'
  BY <1>1, <1>5, RecordsStay DEF Lists, OthersStay, CallsStopped
<1> QED BY <1>2, <1>4, <1>6

\* The attempt gives its record back, or finds that it has lost it.
LEMMA OwnedRecord ==
  ASSUME ReactIInv, NEW a \in Attempt, AliveAttempt(a), NEW st \in {"ready", "completed"},
         records' = IF Owns(a) THEN [records EXCEPT ![rc[a].record].status = st, ![rc[a].record].owner = None]
                    ELSE records
  PROVE  RecordsKept /\ DOMAIN records' = DOMAIN records
<1>1. CASE Owns(a)
  <2>1. rc[a].record \in DOMAIN records
    BY <1>1 DEF ReactIInv, RecordsKnown, Owns
  <2> QED BY <1>1, <2>1, RecordChanged DEF ReactIInv, ReactTypeOK, RecordsKept
<1>2. CASE ~Owns(a)
  BY <1>2 DEF ReactIInv, ReactTypeOK, RecordsKept
<1> QED BY <1>1, <1>2

LEMMA EndSteps ==
  ASSUME ReactIInv, NEW a \in Attempt, CompleteRecord(a) \/ Fail(a) \/ Crash(a)
  PROVE  ReactIInv'
<1>1. CASE CompleteRecord(a)
  <2>1. AliveAttempt(a)
    BY <1>1 DEF CompleteRecord, AliveAttempt
  <2>2. RecordsKept /\ DOMAIN records' = DOMAIN records
    BY <1>1, <2>1, OwnedRecord DEF CompleteRecord
  <2> QED BY <1>1, <2>1, <2>2, EndStep DEF CompleteRecord
<1>2. CASE Fail(a)
  <2>1. AliveAttempt(a)
    BY <1>2 DEF Fail, AliveAttempt
  <2>2. RecordsKept /\ DOMAIN records' = DOMAIN records
    BY <1>2, <2>1, OwnedRecord DEF Fail
  <2> QED BY <1>2, <2>1, <2>2, EndStep DEF Fail
<1>3. CASE Crash(a)
  <2>1. AliveAttempt(a)
    BY <1>3 DEF Crash, AliveAttempt
  <2>2. RecordsKept /\ DOMAIN records' = DOMAIN records
    BY <1>3, NoRecordAdded DEF Crash, ReactIInv
  <2> QED BY <1>3, <2>1, <2>2, EndStep DEF Crash
<1> QED BY <1>1, <1>2, <1>3

\* What the terminal path puts into session memory.
LEMMA Stored ==
  ASSUME ReactTypeOK, NEW a \in Attempt, NEW stored, stored \subseteq DOMAIN ToStore(a),
         PromoteToSession(a, stored)
  PROVE  /\ memory' \in [Key -> Message \cup {None}]
         /\ \A k \in Key : \/ memory'[k] = memory[k]
                           \/ /\ memory'[k].run = rc[a].run /\ memory'[k].by = a /\ k >= rc[a].count
                              /\ memory'[k].what = "user" => rc[a].entry = "run" /\ k = rc[a].count
                              /\ memory'[k].what = "calls" =>
                                   memory'[k].stop = rc[a].stop /\ rc[a].lastMsg = "calls" /\ rc[a].stop # "interrupted"
<1>0. Cardinality(Attempt) \in Nat
  BY FS_CardinalityType, ReactAssumption DEF ReactAssumption
<1>1. \A k \in Key : k \in Nat
  BY <1>0 DEF Key
<1>2. rc[a].count \in Nat /\ rc[a].run \in Attempt /\ rc[a].stop \in StopReason /\ "none" \in StopReason
  BY DEF ReactTypeOK, RunContext, StopReason
<1>3. /\ ToStore(a) \in Seq({"user", "text", "calls"})
      /\ \A j \in DOMAIN ToStore(a) : ToStore(a)[j] = "user" => (rc[a].entry = "run" /\ j = 1)
      /\ \A j \in DOMAIN ToStore(a) :
           ToStore(a)[j] = "calls" => rc[a].lastMsg = "calls" /\ rc[a].stop # "interrupted"
  BY ResponseTypes
<1>4. \A j \in stored : j \in Nat \ {0} /\ ToStore(a)[j] \in {"user", "text", "calls"}
  BY <1>3
<1>5. ASSUME NEW k \in Key, k + 1 - rc[a].count \in stored
      PROVE  /\ memory'[k] \in Message /\ memory'[k].run = rc[a].run /\ memory'[k].by = a
             /\ memory'[k].what = ToStore(a)[k + 1 - rc[a].count] /\ k >= rc[a].count
             /\ memory'[k].what = "calls" => memory'[k].stop = rc[a].stop
  <2>1. memory'[k] = [run |-> rc[a].run, by |-> a, what |-> ToStore(a)[k + 1 - rc[a].count],
                      stop |-> IF ToStore(a)[k + 1 - rc[a].count] = "calls" THEN rc[a].stop ELSE "none"]
    BY <1>5 DEF PromoteToSession
  <2>2. ToStore(a)[k + 1 - rc[a].count] \in {"user", "text", "calls"} /\ k + 1 - rc[a].count >= 1
    BY <1>4, <1>5
  <2>3. k >= rc[a].count
    BY <1>1, <1>2, <2>2
  <2> QED BY <1>2, <2>1, <2>2, <2>3 DEF Message
<1>6. \A k \in Key : k + 1 - rc[a].count \notin stored => memory'[k] = memory[k]
  BY DEF PromoteToSession
<1>7. \A k \in Key : memory'[k] \in Message \cup {None}
  BY <1>5, <1>6 DEF ReactTypeOK
<1>8. memory' = [k \in Key |-> memory'[k]]
  BY DEF PromoteToSession
<1>9. ASSUME NEW k \in Key, k + 1 - rc[a].count \in stored, memory'[k].what = "user"
      PROVE  rc[a].entry = "run" /\ k = rc[a].count
  <2>1. k + 1 - rc[a].count = 1 /\ rc[a].entry = "run"
    BY <1>3, <1>5, <1>9
  <2> QED BY <1>1, <1>2, <2>1
<1>10. ASSUME NEW k \in Key, k + 1 - rc[a].count \in stored, memory'[k].what = "calls"
       PROVE  rc[a].lastMsg = "calls" /\ rc[a].stop # "interrupted"
  BY <1>3, <1>5, <1>10
<1> QED BY <1>5, <1>6, <1>7, <1>8, <1>9, <1>10

LEMMA FinalizeStep ==
  ASSUME ReactIInv, NEW a \in Attempt, NEW stored \in SUBSET {1, 2}, Finalize(a, stored)
  PROVE  ReactIInv'
<1> USE DEF ReactIInv
<1>0. pc[a] = "final" /\ rc[a].entry \in Entry /\ UNCHANGED <<latest, records>> /\ AliveAttempt(a)
  BY DEF Finalize, ReactTypeOK, RunContext, AliveAttempt
<1>1. memory' \in [Key -> Message \cup {None}]
  BY Stored DEF Finalize
<1>2. \A k \in Key : \/ memory'[k] = memory[k]
                     \/ /\ memory'[k].run = rc[a].run
                        /\ memory'[k].what = "user" => rc[a].entry = "run" /\ k = rc[a].count
                        /\ memory'[k].what = "calls" =>
                             memory'[k].stop = rc[a].stop /\ rc[a].lastMsg = "calls" /\ rc[a].stop # "interrupted"
  BY Stored DEF Finalize
<1>3. OthersStay(a) /\ NameKept(a) /\ LoopOK(pc[a], rc[a], messages[a])' /\ ReactTypeOK'
      /\ (rc[a].entry = "run" => pc'[a] = "ended")
  <2>1. CASE rc[a].entry = "interrupt"
    <3>1. pc' = [pc EXCEPT ![a] = "complete"] /\ UNCHANGED <<rc, messages>>
      BY <2>1 DEF Finalize, Goto
    <3>2. OthersStay(a) /\ NameKept(a) /\ pc'[a] = "complete"
      BY <1>0, <3>1 DEF ReactTypeOK, OthersStay, NameKept
    <3>3. LoopOK(pc[a], rc[a], messages[a])'
      BY <1>0, <3>1, <3>2 DEF Lists, LoopOK, InLoop, Limited
    <3>4. ReactTypeOK'
      BY <1>0, <1>1, <3>1 DEF ReactTypeOK
    <3> QED BY <2>1, <3>2, <3>3, <3>4
  <2>2. CASE rc[a].entry # "interrupt"
    <3>1. End(a)
      BY <2>2 DEF Finalize
    <3>2. OthersStay(a) /\ NameKept(a) /\ pc'[a] = "ended" /\ messages'[a] = <<>> /\ rc'[a] \in RunContext
      BY <3>1, Ended DEF OthersStay, NameKept
    <3>3. LoopOK(pc[a], rc[a], messages[a])'
      BY <3>2, EmptyList
    <3>4. ReactTypeOK'
      BY <1>0, <1>1, <3>1, Ended DEF ReactTypeOK
    <3> QED BY <3>2, <3>3, <3>4
  <2> QED BY <2>1, <2>2
<1>4. Lists' /\ CallsStopped'
  <2>1. Lists'
    BY <1>0, <1>3 DEF Lists, OthersStay
  <2>2. rc[a].lastMsg = "calls" /\ rc[a].stop # "interrupted" => rc[a].stop \in {"budget", "max_iterations"}
    BY <1>0 DEF Lists, LoopOK, ReactTypeOK, RunContext, StopReason
  <2>3. CallsStopped'
    BY <1>2, <2>2 DEF CallsStopped
  <2> QED BY <2>1, <2>3
<1>5. \A b \in Attempt : pc'[b] = "idle" => pc[b] = "idle" /\ b # a
  BY <1>3 DEF OthersStay, NameKept
<1>6. RunsNamed'
  <2>1. IdleFresh'
    BY <1>3, <1>5 DEF RunsNamed, IdleFresh, OthersStay
  <2>2. EntryNamed'
    BY <1>3 DEF RunsNamed, EntryNamed, OthersStay, NameKept
  <2>3. ASSUME NEW b \in Attempt, pc'[b] = "idle" PROVE Unseen(b)'
    <3>1. Unseen(b) /\ b # a
      BY <1>5, <2>3 DEF RunsNamed
    <3>2. rc[a].run # b
      BY <3>1 DEF Unseen
    <3>3. \A k \in Key : memory'[k] # None => memory'[k].run # b
      BY <1>2, <3>1, <3>2 DEF Unseen
    <3> QED BY <1>0, <1>3, <3>1, <3>2, <3>3 DEF Unseen, OthersStay, NameKept
  <2>4. ParamsKept'
    BY <1>0, <1>3, NoRecordAdded, ParamsStay
  <2> QED BY <2>1, <2>2, <2>3, <2>4 DEF RunsNamed
<1>7. RecordsKnown'
  BY <1>0, <1>3 DEF RecordsKnown, AliveAttempt, OthersStay, NameKept
<1>8. \A b \in Attempt : AliveAttempt(b)' => /\ AliveAttempt(b) /\ rc'[b].entry = rc[b].entry /\ rc'[b].run = rc[b].run
                                     /\ rc'[b].restarted = rc[b].restarted /\ rc'[b].count = rc[b].count
  BY <1>0, <1>3 DEF AliveAttempt, OthersStay, NameKept
<1>9. ASSUME NEW r, NEW k, Reserved(r, k) PROVE Reserved(r, k)'
  BY <1>0, <1>8, <1>9 DEF Reserved
<1>10. Offsets'
  <2>1. ASSUME NEW b \in Attempt, AliveAttempt(b)', rc'[b].entry = "run", NEW k \in Key, memory'[k] # None, memory'[k].what = "user"
        PROVE memory'[k].run # b
    <3>1. AliveAttempt(b) /\ rc[b].entry = "run" /\ b # a
      BY <1>3, <1>8, <2>1 DEF AliveAttempt
    <3>2. rc[a].entry = "run" => rc[a].run = a
      BY DEF RunsNamed, EntryNamed
    <3> QED BY <1>2, <2>1, <3>1, <3>2 DEF Offsets
  <2>2. ASSUME NEW b \in Attempt, AliveAttempt(b)', rc'[b].entry = "run" PROVE Reserved(b, rc[b].count)'
    <3>1. PICK k : k = rc[b].count
      OBVIOUS
    <3>2. Reserved(b, k)'
      BY <1>8, <1>9, <2>2, <3>1 DEF Offsets
    <3>3. rc'[b].count = k
      BY <1>8, <2>2, <3>1
    <3> QED BY <3>2, <3>3 DEF Reserved
  <2>3. ASSUME NEW k \in Key, memory'[k] # None, memory'[k].what = "user" PROVE Reserved(memory[k].run, k)'
    <3>1. PICK r : r = memory'[k].run
      OBVIOUS
    <3>2. Reserved(r, k)
      <4>1. CASE memory'[k] = memory[k]
        BY <2>3, <3>1, <4>1 DEF Offsets
      <4>2. CASE memory'[k].run = rc[a].run /\ rc[a].entry = "run" /\ k = rc[a].count
        BY <1>0, <3>1, <4>2 DEF Offsets, RunsNamed, EntryNamed
      <4> QED BY <1>2, <2>3, <4>1, <4>2
    <3>3. Reserved(r, k)'
      BY <1>9, <3>2
    <3> QED BY <3>1, <3>3 DEF Reserved
  <2> QED BY <2>1, <2>2, <2>3 DEF Offsets
<1> QED BY <1>3, <1>4, <1>6, <1>7, <1>10

LEMMA LeaseExpiresStep ==
  ASSUME ReactIInv, NEW i \in DOMAIN records, LeaseExpires(i)
  PROVE  ReactIInv'
<1> USE DEF ReactIInv
<1>1. UNCHANGED <<pc, rc, messages, latest, memory>>
  BY DEF LeaseExpires
<1>2. RecordsKept /\ DOMAIN records' = DOMAIN records
  BY RecordChanged DEF LeaseExpires, ReactTypeOK, RecordsKept
<1>3. ReactTypeOK'
  BY <1>1, <1>2 DEF ReactTypeOK, RecordsKept
<1>4. Lists' /\ CallsStopped'
  BY <1>1, <1>2, RecordsStay DEF Lists, CallsStopped
<1>5. RunsNamed'
  <2>1. IdleFresh' /\ EntryNamed'
    BY <1>1 DEF RunsNamed, IdleFresh, EntryNamed
  <2>2. ASSUME NEW b \in Attempt, pc'[b] = "idle" PROVE Unseen(b)'
    <3>1. Unseen(b)
      BY <1>1, <2>2 DEF RunsNamed
    <3> QED BY <1>1, <1>2, <3>1 DEF Unseen, RecordsKept
  <2>3. ParamsKept'
    BY <1>1, <1>2 DEF RunsNamed, ParamsKept, Under, RecordsKept
  <2> QED BY <2>1, <2>2, <2>3 DEF RunsNamed
<1>6. RecordsKnown'
  BY <1>1, <1>2 DEF RecordsKnown, AliveAttempt
<1>7. Offsets'
  BY <1>1, <1>2 DEF Offsets, Reserved, AliveAttempt, RecordsKept
<1> QED BY <1>3, <1>4, <1>5, <1>6, <1>7

-----------------------------------------------------------------------------
\* The invariant of the specification.

LEMMA InitReactIInv == Init => ReactIInv
<1> SUFFICES ASSUME Init PROVE ReactIInv
  OBVIOUS
<1>1. \A a \in Attempt : NewContext("run", a, AgentParams, FALSE) \in RunContext
  BY DEF NewContext, RunContext, Entry, StopReason
<1>2. ReactTypeOK
  <2>1. <<>> \in Seq(Item) /\ <<>> \in Seq(Record)
    OBVIOUS
  <2>2. rc \in [Attempt -> RunContext]
    BY <1>1 DEF Init
  <2>3. messages \in [Attempt -> Seq(Item)]
    BY <2>1 DEF Init
  <2> QED BY <2>1, <2>2, <2>3 DEF Init, ReactTypeOK
<1>3. Lists
  <2>1. \A a \in Attempt : LoopOK(pc[a], rc[a], messages[a])
    BY <1>1, EmptyList DEF Init
  <2>2. DOMAIN records = {}
    BY DEF Init
  <2> QED BY <2>1, <2>2 DEF Init, Lists, CheckpointOK
<1>4. RunsNamed
  BY DEF Init, RunsNamed, IdleFresh, EntryNamed, Unseen, NewContext, ParamsKept, Under
<1>5. RecordsKnown /\ Offsets /\ CallsStopped
  BY DEF Init, RecordsKnown, Offsets, AliveAttempt, CallsStopped
<1> QED BY <1>2, <1>3, <1>4, <1>5 DEF ReactIInv

LEMMA NextReactIInv == ReactIInv /\ [Next]_vars => ReactIInv'
<1> SUFFICES ASSUME ReactIInv, [Next]_vars PROVE ReactIInv'
  OBVIOUS
<1>1. ASSUME NEW a \in Attempt, NEW params \in RunParams, NEW listed \in BOOLEAN, Begin(a, params, listed)
      PROVE ReactIInv'
  BY <1>1, BeginStep
<1>2. ASSUME NEW a \in Attempt, Resume(a) \/ ShortCircuit(a) PROVE ReactIInv'
  BY <1>2, ResumeStep, ShortCircuitStep
<1>3. ASSUME NEW a \in Attempt, NEW i \in DOMAIN records, ResumeInterrupt(a, i) PROVE ReactIInv'
  BY <1>3, ResumeInterruptStep
<1>4. ASSUME NEW a \in Attempt, Iterate(a) \/ Suspend(a) \/ CompleteRecord(a) \/ Fail(a) \/ Crash(a)
      PROVE ReactIInv'
  BY <1>4, IterateStep, SuspendStep, EndSteps
<1>5. ASSUME NEW a \in Attempt, NEW kind \in {"text", "calls"}, NEW cost \in Cost, Turn(a, kind, cost)
      PROVE ReactIInv'
  BY <1>5, TurnStep
<1>6. ASSUME NEW a \in Attempt, NEW b \in BOOLEAN, Gate(a, b) \/ Batch(a, b) \/ Save(a, b) PROVE ReactIInv'
  BY <1>6, GateStep, BatchStep, SaveStep
<1>7. ASSUME NEW a \in Attempt, NEW stored \in SUBSET {1, 2}, Finalize(a, stored) PROVE ReactIInv'
  BY <1>7, FinalizeStep
<1>8. ASSUME NEW i \in DOMAIN records, LeaseExpires(i) PROVE ReactIInv'
  BY <1>8, LeaseExpiresStep
<1>9. CASE UNCHANGED vars
  BY <1>9 DEF vars, ReactIInv, ReactTypeOK, Lists, RunsNamed, IdleFresh, EntryNamed, ParamsKept, Under, Unseen,
             RecordsKnown, Offsets, Reserved, AliveAttempt, CallsStopped
<1> QED BY <1>1, <1>2, <1>3, <1>4, <1>5, <1>6, <1>7, <1>8, <1>9 DEF Next

\* The invariant, types included, holds in every state.
THEOREM ReactIInvHolds == Spec => []ReactIInv
BY InitReactIInv, NextReactIInv, PTL DEF Spec

\* Every request to the model answers each tool call of its own run in place,
\* through any number of checkpoints, suspensions, crashes and resumes; a call
\* left without results is one of the history, of a run that a limit stopped.
THEOREM CallsAnswered == Spec => []TurnsPaired
<1>1. ReactIInv => TurnsPaired
  <2>1. ASSUME ReactIInv, NEW a \in Attempt, pc[a] = "turn"
        PROVE  LET s == messages[a] IN
                 /\ \A i \in DOMAIN s : s[i].kind = "calls" => i < Len(s) /\ s[i + 1].kind = "results"
                 /\ \A i \in DOMAIN s : s[i].kind = "results" => i > 1 /\ s[i - 1].kind = "calls"
                 /\ \A i \in DOMAIN s : s[i].kind = "open" => i = 1
    <3>1. messages[a] \in Seq(Item) /\ Answered(messages[a])
      BY <2>1 DEF ReactIInv, ReactTypeOK, Lists, LoopOK
    <3>2. \A i \in DOMAIN messages[a] : i # 0
      BY <3>1
    <3> QED BY <3>1, <3>2 DEF Answered, AnsweredBut
  <2> QED BY <2>1 DEF TurnsPaired, ReactIInv, CallsStopped
<1> QED BY <1>1, ReactIInvHolds, PTL

\* No way of continuing a run but Resume gives it a model turn beyond the
\* iteration limit or the token budget of its request; after a Resume it has no
\* turn beyond the agent's iteration limit, or none at all.
THEOREM TurnsBounded == Spec => []NoGiftedTurns
<1>1. ASSUME ReactIInv, NEW a \in Attempt
      PROVE  LET s == messages[a]  r == rc[a]  n == Cardinality(Turns(s))  asked == rc[r.run].params IN
             IF r.restarted THEN n <= AgentParams.maxIter \/ n <= r.before
             ELSE /\ n <= asked.maxIter
                  /\ asked.budget > 0 => \A i \in Turns(s) : i < Len(s) => s[i].spent < asked.budget
  <2>1. LoopOK(pc[a], rc[a], messages[a]) /\ Under(rc[a], rc[rc[a].run].params)
    BY <1>1 DEF ReactIInv, Lists, RunsNamed, ParamsKept
  <2>2. rc[a].restarted \in BOOLEAN
    BY <1>1 DEF ReactIInv, ReactTypeOK, RunContext
  <2> QED BY <2>1, <2>2 DEF LoopOK, Limited, Under, NothingAfter
<1>2. ReactIInv => NoGiftedTurns
  BY <1>1 DEF NoGiftedTurns
<1> QED BY <1>2, ReactIInvHolds, PTL

\* The two halves of a suspended run write different keys of session memory.
THEOREM HalvesApart == Spec => HalvesDisjoint
<1> DEFINE Apart == \A k \in Key :
                      (/\ Overwrites(k)
                       /\ rc[memory'[k].by].entry = "interrupt" /\ ~rc[memory'[k].by].restarted
                       /\ memory'[k].run = memory[k].run)
                        => memory[k].what # "user"
<1>1. ReactIInv /\ [Next]_vars => Apart
  <2> SUFFICES ASSUME ReactIInv, [Next]_vars, NEW k \in Key, Overwrites(k),
                      rc[memory'[k].by].entry = "interrupt", ~rc[memory'[k].by].restarted,
                      memory'[k].run = memory[k].run, memory[k].what = "user"
               PROVE  FALSE
    OBVIOUS
  <2>1. memory[k] # None /\ memory' # memory
    BY DEF Overwrites
  <2>2. PICK a \in Attempt, stored \in SUBSET {1, 2} : Finalize(a, stored)
    <3>1. \A a \in Attempt : /\ \A params \in RunParams, listed \in BOOLEAN : ~Begin(a, params, listed)
                             /\ ~Resume(a) /\ ~ShortCircuit(a) /\ ~Iterate(a) /\ ~Suspend(a)
                             /\ ~CompleteRecord(a) /\ ~Fail(a) /\ ~Crash(a)
      BY <2>1 DEF Begin, Resume, ShortCircuit, Iterate, Suspend, CompleteRecord, Fail, Crash
    <3>2. \A a \in Attempt, i \in DOMAIN records : ~ResumeInterrupt(a, i)
      BY <2>1 DEF ResumeInterrupt
    <3>3. \A a \in Attempt, kind \in {"text", "calls"}, cost \in Cost : ~Turn(a, kind, cost)
      BY <2>1 DEF Turn
    <3>4. \A a \in Attempt, b \in BOOLEAN : ~Gate(a, b) /\ ~Batch(a, b) /\ ~Save(a, b)
      BY <2>1 DEF Gate, Batch, Save
    <3>5. \A i \in DOMAIN records : ~LeaseExpires(i)
      BY <2>1 DEF LeaseExpires
    <3>6. Next
      BY <2>1 DEF vars
    <3> QED BY <3>1, <3>2, <3>3, <3>4, <3>5, <3>6 DEF Next
  <2>3. memory'[k].run = rc[a].run /\ memory'[k].by = a /\ k >= rc[a].count
    BY <2>2, Stored DEF Finalize, ReactIInv, Overwrites
  <2>4. Reserved(memory[k].run, k) /\ AliveAttempt(a)
    BY <2>1, <2>2 DEF ReactIInv, Offsets, Finalize, AliveAttempt
  <2>5. rc[a].count > k
    BY <2>3, <2>4 DEF Reserved
  <2>6. k \in Nat /\ rc[a].count \in Nat
    BY FS_CardinalityType, ReactAssumption DEF ReactAssumption, Key, ReactIInv, ReactTypeOK, RunContext
  <2> QED BY <2>3, <2>5, <2>6
<1>2. ReactIInv /\ [Next]_vars => [Apart]_vars
  BY <1>1
<1> QED BY <1>2, ReactIInvHolds, PTL DEF Spec, HalvesDisjoint

-----------------------------------------------------------------------------
\* Tools and limits of a run

\* What filters, activations and runs are.

Scope == {AllTools} \cup SUBSET ToolName
Activation == [skill : Skill, allowed : SUBSET ToolName]
Run == [at : {"new", "freeze", "names", "offer", "loop", "ended"},
        mode : {"default", "none", "allow", "all", "bogus"}, filter : SUBSET ToolName, iter : Int, budget : Int,
        enabled : Scope, asked : Scope, allowed : Scope, frozen : BOOLEAN,
        offered : SUBSET ToolName, called : {"none", "handler", "caller", "error"}]

ScopeTypeOK ==
  /\ srun \in Run
  /\ activations \in Seq(Activation)
  /\ skills \in [Skill -> (SUBSET ToolName) \cup {Unregistered}]
  /\ activating \in [Skill -> (SUBSET ToolName) \cup {NotActivating}]

\* Past the validation a run has its limits; past the freezing its filter is
\* within every layer, and a run that was not frozen has no filter.
RunScoped ==
  /\ srun.at \in {"freeze", "names", "offer", "loop"} => srun.iter > 0 /\ srun.budget >= 0
  /\ srun.at \in {"offer", "loop"} /\ srun.frozen =>
       /\ Within(srun.filter, srun.asked)
       /\ Within(srun.filter, srun.allowed)
       /\ srun.mode # "none" => Within(srun.filter, srun.enabled)
  /\ srun.at \in {"offer", "loop"} /\ ~srun.frozen => srun.filter = {}
  /\ srun.at = "loop" /\ srun.frozen => srun.offered \subseteq srun.filter

ScopeIInv == ScopeTypeOK /\ RunScoped

LEMMA ScopeInitial == ScopeInit => ScopeIInv
  BY DEF ScopeInit, ScopeIInv, ScopeTypeOK, RunScoped, NewRun, Run, Scope

\* Narrowing to a scope stays within it and within what it started from.
LEMMA NarrowWithin ==
  ASSUME NEW names, NEW scope
  PROVE  Narrow(names, scope) \subseteq names /\ Within(Narrow(names, scope), scope)
  BY DEF Narrow, Within

LEMMA WithinSubset ==
  ASSUME NEW scope, NEW names, NEW fewer, fewer \subseteq names, Within(names, scope)
  PROVE  Within(fewer, scope)
  BY DEF Within

\* What the active skills allow is a scope.
LEMMA SkillScope ==
  ASSUME ScopeTypeOK
  PROVE  SkillToolScope \in Scope
<1> DEFINE lists == {activations[i].allowed : i \in 1..Len(activations)}
<1>1. \A i \in 1..Len(activations) : activations[i] \in Activation
  BY DEF ScopeTypeOK
<1>2. \A l \in lists : l \subseteq ToolName
  BY <1>1 DEF Activation
<1>3. UNION lists \subseteq ToolName
  BY <1>2
<1>4. SkillToolScope = IF lists = {} \/ {} \in lists THEN AllTools ELSE UNION lists
  BY DEF SkillToolScope
<1> QED
  BY <1>3, <1>4 DEF Scope

LEMMA HostKeepsScope ==
  ASSUME ScopeIInv, HostStep
  PROVE  ScopeIInv'
<1> USE DEF ScopeIInv
<1>r. srun' = srun => RunScoped' /\ (srun \in Run)'
  BY DEF ScopeTypeOK, RunScoped, Within
<1>1. CASE \E t \in ToolName, ifAbsent \in BOOLEAN : RegisterTool(t, ifAbsent)
  BY <1>1, <1>r DEF RegisterTool, ScopeTypeOK
<1>2. CASE \E t \in ToolName : UnregisterTool(t)
  BY <1>2, <1>r DEF UnregisterTool, ScopeTypeOK
<1>3. CASE \E defs \in SUBSET ToolName : MergeTools(defs)
  BY <1>3, <1>r DEF MergeTools, ScopeTypeOK
<1>4. CASE SetExternalCaller
  BY <1>4, <1>r DEF SetExternalCaller, ScopeTypeOK
<1>5. CASE \E s \in Skill, allowed \in SUBSET ToolName : RegisterSkill(s, allowed)
  BY <1>5, <1>r DEF RegisterSkill, ScopeTypeOK
<1>6. ASSUME NEW s \in Skill, UnregisterSkill(s)
      PROVE  ScopeIInv'
  BY <1>6, <1>r DEF UnregisterSkill, ScopeTypeOK
<1>7. ASSUME NEW s \in Skill, ActivateRead(s)
      PROVE  ScopeIInv'
  BY <1>7, <1>r DEF ActivateRead, ScopeTypeOK
<1>8. ASSUME NEW s \in Skill, ActivateStore(s)
      PROVE  ScopeIInv'
  <2>1. [skill |-> s, allowed |-> activating[s]] \in Activation
    BY <1>8 DEF ActivateStore, ScopeTypeOK, Activation
  <2>2. activations' \in Seq(Activation)
    BY <1>8, <2>1 DEF ActivateStore, ScopeTypeOK
  <2> QED
    BY <1>8, <1>r, <2>2 DEF ActivateStore, ScopeTypeOK
<1>9. ASSUME NEW s \in Skill, Deactivate(s)
      PROVE  ScopeIInv'
  <2>1. PICK i \in 1..Len(activations) :
          activations' = SubSeq(activations, 1, i - 1) \o SubSeq(activations, i + 1, Len(activations))
    BY <1>9 DEF Deactivate
  <2>2. activations \in Seq(Activation)
    BY DEF ScopeTypeOK
  <2>3. SubSeq(activations, 1, i - 1) \in Seq(Activation)
    BY <2>2
  <2>4. SubSeq(activations, i + 1, Len(activations)) \in Seq(Activation)
    BY <2>2
  <2>5. activations' \in Seq(Activation)
    BY <2>1, <2>3, <2>4
  <2> QED
    BY <1>9, <1>r, <2>5 DEF Deactivate, ScopeTypeOK
<1>10. CASE ClearSession
  BY <1>10, <1>r DEF ClearSession, ScopeTypeOK
<1> QED
  BY <1>1, <1>2, <1>3, <1>4, <1>5, <1>6, <1>7, <1>8, <1>9, <1>10 DEF HostStep

LEMMA ResolveKeepsScope ==
  ASSUME ScopeIInv, NEW iterLimit \in Limit, NEW iterOld \in OldLimit,
         NEW budgetLimit \in Limit, NEW budgetOld \in OldLimit, NEW resolved \in BOOLEAN,
         ResolveParams(iterLimit, iterOld, budgetLimit, budgetOld, resolved)
  PROVE  ScopeIInv'
<1> USE DEF ScopeIInv
<1>1. PICK mode \in {"default", "none", "allow", "all", "bogus"}, filter \in SUBSET ToolName,
           enabled \in {AllTools} \cup SUBSET ToolName :
        LET merged == [srun EXCEPT !.mode = mode, !.filter = filter, !.enabled = enabled,
                         !.iter = LimitOf(DefaultIter, iterLimit, iterOld),
                         !.budget = LimitOf(DefaultBudget, budgetLimit, budgetOld)]
            p == IF resolved THEN [merged EXCEPT !.iter = iterOld, !.budget = budgetOld] ELSE merged IN
        srun' = IF MergeOK(iterLimit, iterOld, budgetLimit, budgetOld) \/ resolved
                   THEN IF ValidParams(p) THEN [p EXCEPT !.at = "freeze"] ELSE [srun EXCEPT !.at = "ended"]
                   ELSE [srun EXCEPT !.at = "ended"]
  BY DEF ResolveParams
<1>2. UNCHANGED <<activations, skills, activating>>
  BY DEF ResolveParams
<1>l. \A default \in Int, limit \in Limit, old \in OldLimit : LimitOf(default, limit, old) \in Int
  <2> SUFFICES ASSUME NEW default \in Int, NEW limit \in Limit, NEW old \in OldLimit
               PROVE  LimitOf(default, limit, old) \in Int
    OBVIOUS
  <2>1. old \in Int
    BY DEF OldLimit
  <2>2. CASE limit = {}
    BY <2>1, <2>2 DEF LimitOf
  <2>3. CASE limit # {}
    <3>1. PICK n \in Int : limit = {n}
      BY <2>3 DEF Limit
    <3>2. (CHOOSE m \in limit : TRUE) \in limit
      BY <2>3
    <3> QED
      BY <2>3, <3>1, <3>2 DEF LimitOf
  <2> QED
    BY <2>2, <2>3
<1>i. LimitOf(DefaultIter, iterLimit, iterOld) \in Int
  BY <1>l, ScopeAssumption
<1>b. LimitOf(DefaultBudget, budgetLimit, budgetOld) \in Int
  BY <1>l, ScopeAssumption
<1> DEFINE merged == [srun EXCEPT !.mode = mode, !.filter = filter, !.enabled = enabled,
                        !.iter = LimitOf(DefaultIter, iterLimit, iterOld),
                        !.budget = LimitOf(DefaultBudget, budgetLimit, budgetOld)]
<1> DEFINE p == IF resolved THEN [merged EXCEPT !.iter = iterOld, !.budget = budgetOld] ELSE merged
<1>3. merged \in Run
  BY <1>i, <1>b DEF ScopeTypeOK, Run, Scope
<1>4. p \in Run
  <2>1. iterOld \in Int /\ budgetOld \in Int
    BY DEF OldLimit
  <2> HIDE DEF merged
  <2> QED
    BY <1>3, <2>1 DEF Run
<1>5. srun \in Run
  BY DEF ScopeTypeOK
<1> HIDE DEF p, merged
<1>6. CASE ValidParams(p) /\ srun' = [p EXCEPT !.at = "freeze"]
  <2>1. srun' \in Run /\ srun'.at = "freeze" /\ srun'.iter = p.iter /\ srun'.budget = p.budget
    BY <1>4, <1>6 DEF Run
  <2>2. RunScoped'
    BY <2>1, <1>6 DEF RunScoped, ValidParams
  <2> QED
    BY <2>1, <2>2, <1>2 DEF ScopeTypeOK
<1>7. CASE srun' = [srun EXCEPT !.at = "ended"]
  <2>1. srun' \in Run /\ srun'.at = "ended"
    BY <1>5, <1>7 DEF Run
  <2>2. RunScoped'
    BY <2>1 DEF RunScoped
  <2> QED
    BY <2>1, <2>2, <1>2 DEF ScopeTypeOK
<1> QED
  BY <1>1, <1>6, <1>7 DEF p, merged

LEMMA FreezeKeepsScope ==
  ASSUME ScopeIInv, FreezeScope \/ FreezeNames
  PROVE  ScopeIInv'
<1> USE DEF ScopeIInv
<1>0. srun \in Run /\ UNCHANGED <<activations, skills, activating>>
  BY DEF ScopeTypeOK, FreezeScope, FreezeNames
<1>1. CASE FreezeScope /\ srun.mode = "none"
  <2>1. srun' = [srun EXCEPT !.at = "offer", !.frozen = TRUE, !.filter = {}, !.asked = {}]
    BY <1>1 DEF FreezeScope
  <2>2. srun' \in Run
    BY <1>0, <2>1 DEF Run, Scope
  <2>3. srun'.at = "offer" /\ srun'.filter = {} /\ srun'.iter = srun.iter /\ srun'.budget = srun.budget
        /\ srun'.frozen
    BY <1>0, <2>1 DEF Run
  <2>4. RunScoped'
    BY <2>3, <1>1 DEF RunScoped, FreezeScope, Within
  <2> QED
    BY <2>2, <2>4, <1>0 DEF ScopeTypeOK
<1>2. CASE FreezeScope /\ srun.mode # "none"
  <2>1. srun' = [srun EXCEPT !.at = "names", !.asked = AskedFor, !.allowed = SkillToolScope]
    BY <1>2 DEF FreezeScope
  <2>2. AskedFor \in Scope
    BY <1>0 DEF AskedFor, Scope, Run
  <2>3. SkillToolScope \in Scope
    BY SkillScope
  <2>4. srun' \in Run /\ srun'.at = "names" /\ srun'.iter = srun.iter /\ srun'.budget = srun.budget
    BY <1>0, <2>1, <2>2, <2>3 DEF Run
  <2>5. RunScoped'
    BY <2>4, <1>2 DEF RunScoped, FreezeScope
  <2> QED
    BY <2>4, <2>5, <1>0 DEF ScopeTypeOK
<1>3. CASE FreezeNames
  <2> DEFINE n1 == Narrow(Registered, srun.asked)
  <2> DEFINE n2 == Narrow(n1, srun.allowed)
  <2> DEFINE n3 == Narrow(n2, srun.enabled)
  <2>1. srun' = [srun EXCEPT !.at = "offer", !.frozen = TRUE, !.filter = n3]
    BY <1>3 DEF FreezeNames
  <2>2. n1 \subseteq Registered /\ Within(n1, srun.asked)
    BY NarrowWithin
  <2>3. n2 \subseteq n1 /\ Within(n2, srun.allowed)
    BY NarrowWithin
  <2>4. n3 \subseteq n2 /\ Within(n3, srun.enabled)
    BY NarrowWithin
  <2> HIDE DEF n1, n2, n3
  <2>5. Within(n3, srun.asked) /\ Within(n3, srun.allowed)
    BY <2>2, <2>3, <2>4 DEF Within
  <2>6. n3 \subseteq ToolName
    BY <2>2, <2>3, <2>4 DEF Registered
  <2>7. /\ srun' \in Run
        /\ srun'.at = "offer" /\ srun'.filter = n3 /\ srun'.frozen
        /\ srun'.iter = srun.iter /\ srun'.budget = srun.budget /\ srun'.mode = srun.mode
        /\ srun'.asked = srun.asked /\ srun'.allowed = srun.allowed /\ srun'.enabled = srun.enabled
    BY <1>0, <2>1, <2>6 DEF Run
  <2>8. RunScoped'
    BY <2>4, <2>5, <2>7, <1>3 DEF RunScoped, FreezeNames, Within
  <2> QED
    BY <2>7, <2>8, <1>0 DEF ScopeTypeOK
<1> QED
  BY <1>1, <1>2, <1>3

\* A frozen run is offered names of its filter only, whatever the registry has
\* become meanwhile.
LEMMA OfferedFromFilter ==
  ASSUME ScopeTypeOK
  PROVE  ToolsForRun \subseteq ToolName /\ (srun.frozen => ToolsForRun \subseteq srun.filter)
  BY DEF ToolsForRun, PrepareFrozen, FilterTools, Registered

LEMMA RunKeepsScope ==
  ASSUME ScopeIInv, OfferTools \/ SuspendAndResume \/ RestartAndResume \/ \E t \in ToolName : ModelCalls(t)
  PROVE  ScopeIInv'
<1> USE DEF ScopeIInv
<1>0. srun \in Run
  BY DEF ScopeTypeOK
<1>u. UNCHANGED <<activations, skills, activating>>
  BY DEF OfferTools, SuspendAndResume, RestartAndResume, ModelCalls
<1>1. CASE OfferTools
  <2>1. srun.at = "offer" /\ srun' = [srun EXCEPT !.at = "loop", !.offered = ToolsForRun]
    BY <1>1 DEF OfferTools
  <2>2. ToolsForRun \subseteq ToolName /\ (srun.frozen => ToolsForRun \subseteq srun.filter)
    BY OfferedFromFilter
  <2>3. /\ srun' \in Run
        /\ srun'.at = "loop" /\ srun'.offered = ToolsForRun
        /\ srun'.filter = srun.filter /\ srun'.frozen = srun.frozen
        /\ srun'.iter = srun.iter /\ srun'.budget = srun.budget /\ srun'.mode = srun.mode
        /\ srun'.asked = srun.asked /\ srun'.allowed = srun.allowed /\ srun'.enabled = srun.enabled
    BY <1>0, <2>1, <2>2 DEF Run
  <2>4. RunScoped'
    BY <2>1, <2>2, <2>3 DEF RunScoped, Within
  <2> QED
    BY <1>u, <2>3, <2>4 DEF ScopeTypeOK
<1>2. CASE SuspendAndResume
  <2>1. srun.at = "loop" /\ srun' = [srun EXCEPT !.at = "offer", !.frozen = TRUE, !.offered = {}]
    BY <1>2 DEF SuspendAndResume
  <2>2. /\ srun' \in Run
        /\ srun'.at = "offer"
        /\ srun'.filter = srun.filter /\ srun'.frozen
        /\ srun'.iter = srun.iter /\ srun'.budget = srun.budget /\ srun'.mode = srun.mode
        /\ srun'.asked = srun.asked /\ srun'.allowed = srun.allowed /\ srun'.enabled = srun.enabled
    BY <1>0, <2>1 DEF Run
  <2>3. RunScoped'
    BY <2>1, <2>2 DEF RunScoped, Within
  <2> QED
    BY <1>u, <2>2, <2>3 DEF ScopeTypeOK
<1>3. CASE RestartAndResume
  <2>1. srun' = [NewRun EXCEPT !.at = "offer", !.iter = DefaultIter, !.budget = DefaultBudget]
    BY <1>3 DEF RestartAndResume
  <2>2. /\ srun' \in Run
        /\ srun'.at = "offer" /\ srun'.filter = {} /\ ~srun'.frozen
        /\ srun'.iter = DefaultIter /\ srun'.budget = DefaultBudget
    <3>1. NewRun \in Run /\ NewRun.filter = {} /\ ~NewRun.frozen
      BY DEF NewRun, Run, Scope
    <3>2. PICK new : new = NewRun
      OBVIOUS
    <3>3. PICK n \in Int : n = DefaultIter
      BY ScopeAssumption
    <3>4. PICK b \in Int : b = DefaultBudget
      BY ScopeAssumption
    <3>5. srun' = [new EXCEPT !.at = "offer", !.iter = n, !.budget = b]
      BY <2>1, <3>2, <3>3, <3>4
    <3>6. new \in Run /\ new.filter = {} /\ ~new.frozen
      BY <3>1, <3>2
    <3> QED
      BY <3>3, <3>4, <3>5, <3>6 DEF Run
  <2>3. RunScoped'
    BY <2>2, ScopeAssumption DEF RunScoped
  <2> QED
    BY <1>u, <2>2, <2>3 DEF ScopeTypeOK
<1>4. ASSUME NEW t \in ToolName, ModelCalls(t)
      PROVE  ScopeIInv'
  <2>1. srun.at = "loop" /\ srun' = [srun EXCEPT !.called = Dispatch(t)]
    BY <1>4 DEF ModelCalls
  <2>2. Dispatch(t) \in {"none", "handler", "caller", "error"}
    BY DEF Dispatch
  <2>3. /\ srun' \in Run
        /\ srun'.at = "loop" /\ srun'.offered = srun.offered
        /\ srun'.filter = srun.filter /\ srun'.frozen = srun.frozen
        /\ srun'.iter = srun.iter /\ srun'.budget = srun.budget /\ srun'.mode = srun.mode
        /\ srun'.asked = srun.asked /\ srun'.allowed = srun.allowed /\ srun'.enabled = srun.enabled
    BY <1>0, <2>1, <2>2 DEF Run
  <2>4. RunScoped'
    BY <2>1, <2>3 DEF RunScoped, Within
  <2> QED
    BY <1>u, <2>3, <2>4 DEF ScopeTypeOK
<1> QED
  BY <1>1, <1>2, <1>3, <1>4

\* Past the freezing, ScopeKept follows from what the filter is.
LEMMA ScopedIsKept == ScopeIInv => ScopeKept
  BY WithinSubset DEF ScopeIInv, RunScoped, ScopeKept

\* Whatever a host registers, removes, activates or clears, and however often
\* a run is suspended or restarted, a frozen run is offered only tools that
\* its request, the skills active when it was frozen and the predicate let
\* through, and every run in its loop has limits that end it.
THEOREM FrozenScopeHolds == ScopeSpec => []ScopeKept
<1>1. ScopeInit => ScopeIInv
  BY ScopeInitial
<1>2. ScopeIInv /\ [ScopeStep]_scopeVars => ScopeIInv'
  <2> SUFFICES ASSUME ScopeIInv, [ScopeStep]_scopeVars
               PROVE  ScopeIInv'
    OBVIOUS
  <2>1. CASE HostStep
    BY <2>1, HostKeepsScope
  <2>2. CASE RunStep
    <3>1. ASSUME NEW limit \in Limit, NEW old \in OldLimit, NEW resolved \in BOOLEAN,
                 ResolveParams(limit, old, {}, 0, resolved) \/ ResolveParams({}, 2, limit, old, resolved)
          PROVE  ScopeIInv'
      BY SMTT(40), <3>1, ResolveKeepsScope DEF Limit, OldLimit
    <3> QED
      BY <2>2, <3>1, FreezeKeepsScope, RunKeepsScope DEF RunStep
  <2>3. CASE UNCHANGED scopeVars
    BY <2>3 DEF scopeVars, ScopeIInv, ScopeTypeOK, RunScoped, Within
  <2> QED
    BY <2>1, <2>2, <2>3 DEF ScopeStep
<1>3. ScopeIInv => ScopeKept
  BY ScopedIsKept
<1> QED
  BY <1>1, <1>2, <1>3, PTL DEF ScopeSpec

-----------------------------------------------------------------------------
\* Memory tiers

\* Characters, names, records and pending writes.

\* Characters, and the opaque ones that encode an identifier.
Symbol == STRING \cup {"mem", ":", "session", "store"} \cup {<<"b64", id>> : id \in Seq(STRING)}
Text == Seq(Symbol)
TierRecord == [val : Datum, ttl : BOOLEAN, expired : BOOLEAN]
Write == [key : Text, val : Datum, ttl : BOOLEAN]

MemTypeOK ==
  /\ tierEntries \in [DOMAIN tierEntries -> TierRecord]
  /\ DOMAIN tierEntries \subseteq Text
  /\ mover \in [View -> [op : {"none", "promote", "archive"}, left : SUBSET Write]]

LEMMA Characters ==
  /\ \A s \in Seq(STRING) : s \in Text
  /\ LogicalKey \subseteq Text
<1>1. PICK chars : chars = STRING
  OBVIOUS
<1>2. chars \subseteq Symbol
  BY <1>1 DEF Symbol
<1>3. \A s \in Seq(chars) : s \in Text
  BY <1>2 DEF Text
<1> QED
  BY <1>1, <1>3, MemoryAssumption

LEMMA Spelled ==
  {"mem", ":", "session", "store"} \subseteq Symbol
  BY DEF Symbol

\* One more symbol.
LEMMA Extended ==
  ASSUME NEW s \in Text, NEW c \in Symbol
  PROVE  /\ s \o <<c>> \in Text /\ Len(s \o <<c>>) = Len(s) + 1
         /\ \A i \in 1..Len(s) : (s \o <<c>>)[i] = s[i]
         /\ (s \o <<c>>)[Len(s) + 1] = c
  BY DEF Text

LEMMA Identity ==
  ASSUME NEW tier \in Tier
  PROVE  /\ tier = [scope |-> tier.scope, agent |-> tier.agent, session |-> tier.session]
         /\ tier.scope \in {"session", "store"}
         /\ tier.agent \in Seq(STRING) /\ tier.session \in Seq(STRING)
<1>1. CASE tier = StoreTier
  BY <1>1 DEF StoreTier
<1>2. ASSUME NEW v \in View, tier = ForSession(v)
      PROVE  /\ tier = [scope |-> tier.scope, agent |-> tier.agent, session |-> tier.session]
             /\ tier.scope \in {"session", "store"}
             /\ tier.agent \in Seq(STRING) /\ tier.session \in Seq(STRING)
  BY <1>2, MemoryAssumption DEF ForSession
<1> QED
  BY <1>1, <1>2 DEF Tier

\* A prefix has eight symbols, and spells the identity of its tier.
LEMMA PrefixSpells ==
  ASSUME NEW tier \in Tier
  PROVE  /\ KeyPrefix(tier) \in Text
         /\ Len(KeyPrefix(tier)) = 8
         /\ KeyPrefix(tier)[3] = tier.scope
         /\ KeyPrefix(tier)[5] = <<"b64", tier.agent>>
         /\ KeyPrefix(tier)[7] = <<"b64", tier.session>>
<1> DEFINE ag == <<"b64", tier.agent>>
<1> DEFINE se == <<"b64", tier.session>>
<1>1. PICK sc \in Symbol : sc = tier.scope
  BY Identity, Spelled
<1>2. PICK a \in Symbol : a = ag
  BY Identity DEF Symbol
<1>3. PICK b \in Symbol : b = se
  BY Identity DEF Symbol
<1>4. PICK c \in Symbol : c = Colon
  BY Spelled DEF Colon
<1>5. PICK m \in Symbol : m = "mem"
  BY Spelled
<1>6. KeyPrefix(tier) = <<m, c, sc, c>> \o <<a>> \o <<c>> \o <<b>> \o <<c>>
  BY <1>1, <1>2, <1>3, <1>4, <1>5 DEF KeyPrefix, EncodeScopeID
<1> HIDE DEF ag, se
<1>7. PICK p : p = <<m, c, sc, c>> \o <<a>>
  OBVIOUS
<1>8. p \in Text /\ Len(p) = 5 /\ p[3] = sc /\ p[5] = a
  BY <1>7 DEF Text
<1>9. PICK q : q = p \o <<c>>
  OBVIOUS
<1>10. q \in Text /\ Len(q) = 6 /\ q[3] = sc /\ q[5] = a
  <2>1. /\ q \in Text /\ Len(q) = Len(p) + 1
        /\ \A i \in 1..Len(p) : q[i] = p[i]
        /\ q[Len(p) + 1] = c
    BY <1>8, <1>9, Extended
  <2> QED
    BY <1>8, <2>1
<1>11. PICK r : r = q \o <<b>>
  OBVIOUS
<1>12. r \in Text /\ Len(r) = 7 /\ r[3] = sc /\ r[5] = a /\ r[7] = b
  <2>1. /\ r \in Text /\ Len(r) = Len(q) + 1
        /\ \A i \in 1..Len(q) : r[i] = q[i]
        /\ r[Len(q) + 1] = b
    BY <1>10, <1>11, Extended
  <2> QED
    BY <1>10, <2>1
<1>13. PICK t : t = r \o <<c>>
  OBVIOUS
<1>14. t \in Text /\ Len(t) = 8 /\ t[3] = sc /\ t[5] = a /\ t[7] = b
  <2>1. /\ t \in Text /\ Len(t) = Len(r) + 1
        /\ \A i \in 1..Len(r) : t[i] = r[i]
        /\ t[Len(r) + 1] = c
    BY ZenonT(60), <1>12, <1>13, Extended
  <2> QED
    BY <1>12, <2>1
<1>15. KeyPrefix(tier) = t
  BY <1>6, <1>7, <1>9, <1>11, <1>13
<1> QED
  BY <1>1, <1>2, <1>3, <1>14, <1>15 DEF ag, se

\* What has a prefix starts with its symbols.
LEMMA PrefixAgrees ==
  ASSUME NEW s \in Text, NEW p \in Text, IsPrefix(s, p), NEW i \in 1..Len(s)
  PROVE  s[i] = p[i]
<1>1. Len(s) <= Len(p) /\ SubSeq(s, 1, Len(s)) = SubSeq(p, 1, Len(s))
  BY DEF IsPrefix
<1>2. SubSeq(s, 1, Len(s))[i] = s[i] /\ SubSeq(p, 1, Len(s))[i] = p[i]
  BY <1>1 DEF Text
<1> QED
  BY <1>1, <1>2

\* No key is under the prefixes of two tiers.
LEMMA PrefixesApart ==
  ASSUME NEW t \in Tier, NEW u \in Tier, NEW p \in Text,
         IsPrefix(KeyPrefix(t), p), IsPrefix(KeyPrefix(u), p)
  PROVE  t = u
<1>1. t.scope = p[3] /\ u.scope = p[3]
  BY PrefixSpells, PrefixAgrees
<1>2. <<"b64", t.agent>> = p[5] /\ <<"b64", u.agent>> = p[5]
  BY PrefixSpells, PrefixAgrees
<1>3. <<"b64", t.session>> = p[7] /\ <<"b64", u.session>> = p[7]
  BY PrefixSpells, PrefixAgrees
<1>4. t.agent = u.agent /\ t.session = u.session
  BY <1>2, <1>3
<1> QED
  BY <1>1, <1>4, Identity

\* A physical key is under the prefix of its tier.
LEMMA KeyUnderPrefix ==
  ASSUME NEW tier \in Tier, NEW k \in Text
  PROVE  PhysicalKey(tier, k) \in Text /\ IsPrefix(KeyPrefix(tier), PhysicalKey(tier, k))
<1>1. PICK s \in Text : s = KeyPrefix(tier)
  BY PrefixSpells
<1>2. s \o k \in Text /\ Len(s \o k) = Len(s) + Len(k)
  BY DEF Text
<1>3. SubSeq(s \o k, 1, Len(s)) = SubSeq(s, 1, Len(s))
  <2> DEFINE x == SubSeq(s \o k, 1, Len(s))
  <2> DEFINE y == SubSeq(s, 1, Len(s))
  <2>1. x \in Text /\ y \in Text /\ Len(x) = Len(s) /\ Len(y) = Len(s)
    BY <1>2 DEF Text
  <2>2. \A i \in 1..Len(s) : x[i] = s[i] /\ y[i] = s[i]
    BY <1>2 DEF Text
  <2> HIDE DEF x, y
  <2> QED
    BY <2>1, <2>2 DEF Text
<1> QED
  BY <1>1, <1>2, <1>3 DEF PhysicalKey, IsPrefix, Text

LEMMA LogicalIsText ==
  ASSUME NEW tier \in Tier, NEW p \in Text
  PROVE  LogicalOf(tier, p) \in Text
<1>1. PICK s \in Text : s = KeyPrefix(tier) /\ Len(s) = 8
  BY PrefixSpells
<1>2. SubSeq(p, 9, Len(p)) \in Text
  BY DEF Text
<1> QED
  BY <1>1, <1>2 DEF LogicalOf

-----------------------------------------------------------------------------

\* A change that leaves every live entry outside the tier's prefix alone.
Confined(e, f, tier) ==
  \A p \in Text : ~IsPrefix(KeyPrefix(tier), p) =>
    /\ p \in Live(f) <=> p \in Live(e)
    /\ p \in Live(e) => f[p].val = e[p].val

\* It shows in no other tier.
LEMMA ConfinedShows ==
  ASSUME NEW e, NEW f, DOMAIN e \subseteq Text, DOMAIN f \subseteq Text,
         NEW u \in Tier, Confined(e, f, u), NEW t \in Tier, t # u
  PROVE  Shown(f, t) = Shown(e, t)
<1>1. ASSUME NEW p, IsPrefix(KeyPrefix(t), p)
      PROVE  /\ p \in Live(f) <=> p \in Live(e)
             /\ p \in Live(e) => f[p].val = e[p].val
  <2>1. CASE p \in Text
    BY <1>1, <2>1, PrefixesApart DEF Confined
  <2>2. CASE p \notin Text
    BY <2>2 DEF Live
  <2> QED
    BY <2>1, <2>2
<1>2. StoreList(f, KeyPrefix(t)) = StoreList(e, KeyPrefix(t))
  BY <1>1 DEF StoreList
<1>3. \A p \in StoreList(e, KeyPrefix(t)) : f[p].val = e[p].val
  BY <1>1 DEF StoreList
<1> QED
  BY <1>2, <1>3 DEF Shown

\* A write under a tier's key is confined to the tier.
LEMMA SetConfined ==
  ASSUME MemTypeOK, NEW tier \in Tier, NEW k \in Text, NEW d \in Datum, NEW ttl \in BOOLEAN
  PROVE  LET f == StoreSet(tierEntries, PhysicalKey(tier, k), d, ttl) IN
         /\ f \in [DOMAIN f -> TierRecord] /\ DOMAIN f \subseteq Text
         /\ Confined(tierEntries, f, tier)
<1> DEFINE f == StoreSet(tierEntries, PhysicalKey(tier, k), d, ttl)
<1>1. PICK q \in Text : q = PhysicalKey(tier, k) /\ IsPrefix(KeyPrefix(tier), q)
  BY KeyUnderPrefix
<1>2. f = [p \in DOMAIN tierEntries \cup {q} |->
             IF p = q THEN [val |-> d, ttl |-> ttl, expired |-> FALSE] ELSE tierEntries[p]]
  BY <1>1 DEF StoreSet
<1>3. [val |-> d, ttl |-> ttl, expired |-> FALSE] \in TierRecord
  BY DEF TierRecord
<1>4. f \in [DOMAIN f -> TierRecord] /\ DOMAIN f \subseteq Text
  BY <1>1, <1>2, <1>3 DEF MemTypeOK
<1>5. \A p : p # q => (p \in DOMAIN f <=> p \in DOMAIN tierEntries)
                      /\ (p \in DOMAIN tierEntries => f[p] = tierEntries[p])
  BY <1>2
<1> HIDE DEF f
<1>6. Confined(tierEntries, f, tier)
  BY <1>1, <1>5 DEF Confined, Live
<1> QED
  BY <1>4, <1>6 DEF f

\* So is the removal of entries under its prefix, and of dead ones anywhere.
LEMMA DropConfined ==
  ASSUME MemTypeOK, NEW tier \in Tier, NEW kept, NEW f,
         f = [p \in kept |-> tierEntries[p]],
         kept \subseteq DOMAIN tierEntries,
         \A p \in DOMAIN tierEntries \ kept : tierEntries[p].expired \/ IsPrefix(KeyPrefix(tier), p)
  PROVE  /\ f \in [DOMAIN f -> TierRecord] /\ DOMAIN f \subseteq Text
         /\ Confined(tierEntries, f, tier)
<1>1. f \in [DOMAIN f -> TierRecord] /\ DOMAIN f \subseteq Text
  BY DEF MemTypeOK
<1>2. Confined(tierEntries, f, tier)
  BY DEF Confined, Live
<1> QED
  BY <1>1, <1>2

\* One call on a tier.
LEMMA TierConfined ==
  ASSUME MemTypeOK, NEW tier \in Tier, TierStep(tier)
  PROVE  MemTypeOK' /\ caller' = tier /\ Confined(tierEntries, tierEntries', tier)
<1>0. caller' = tier /\ mover' = mover
  BY DEF TierStep, TierSet, TierBatchSet, TierGet, TierDelete, TierClear
<1>1. CASE TierSet(tier)
  <2>1. PICK k \in LogicalKey, d \in Datum, ttl \in BOOLEAN :
          tierEntries' = StoreSet(tierEntries, PhysicalKey(tier, k), d, ttl)
    BY <1>1 DEF TierSet
  <2>2. k \in Text
    BY Characters
  <2> QED
    BY <1>0, <2>1, <2>2, SetConfined DEF MemTypeOK
<1>2. CASE TierBatchSet(tier)
  <2> DEFINE ps == {PhysicalKey(tier, k) : k \in LogicalKey}
  <2>1. PICK d \in Datum :
          tierEntries' = [p \in DOMAIN tierEntries \cup ps |->
                            IF p \in ps THEN [val |-> d, ttl |-> FALSE, expired |-> FALSE]
                                        ELSE tierEntries[p]]
    BY <1>2 DEF TierBatchSet
  <2>2. \A p \in ps : p \in Text /\ IsPrefix(KeyPrefix(tier), p)
    BY Characters, KeyUnderPrefix
  <2>3. [val |-> d, ttl |-> FALSE, expired |-> FALSE] \in TierRecord
    BY DEF TierRecord
  <2> HIDE DEF ps
  <2>4. tierEntries' \in [DOMAIN tierEntries' -> TierRecord] /\ DOMAIN tierEntries' \subseteq Text
    BY <2>1, <2>2, <2>3 DEF MemTypeOK
  <2>5. \A p : p \notin ps => (p \in DOMAIN tierEntries' <=> p \in DOMAIN tierEntries)
                              /\ (p \in DOMAIN tierEntries => tierEntries'[p] = tierEntries[p])
    BY <2>1
  <2>6. Confined(tierEntries, tierEntries', tier)
    BY <2>2, <2>5 DEF Confined, Live
  <2> QED
    BY <1>0, <2>4, <2>6 DEF MemTypeOK
<1>3. CASE TierGet(tier)
  <2>1. PICK q : tierEntries[q].expired /\ tierEntries' = [p \in DOMAIN tierEntries \ {q} |-> tierEntries[p]]
    BY <1>3 DEF TierGet, Drop
  <2> QED
    BY <1>0, <2>1, DropConfined DEF MemTypeOK
<1>4. CASE TierDelete(tier)
  <2>1. PICK k \in LogicalKey :
          tierEntries' = [p \in DOMAIN tierEntries \ {PhysicalKey(tier, k)} |-> tierEntries[p]]
    BY <1>4 DEF TierDelete, Drop
  <2>2. IsPrefix(KeyPrefix(tier), PhysicalKey(tier, k))
    BY Characters, KeyUnderPrefix
  <2> QED
    BY <1>0, <2>1, <2>2, DropConfined DEF MemTypeOK
<1>5. CASE TierClear(tier)
  <2>1. PICK gone \in SUBSET StoreList(tierEntries, KeyPrefix(tier)) :
          tierEntries' = [p \in Live(tierEntries) \ gone |-> tierEntries[p]]
    BY <1>5 DEF TierClear
  <2>2. \A p \in gone : IsPrefix(KeyPrefix(tier), p)
    BY DEF StoreList
  <2> QED
    BY <1>0, <2>1, <2>2, DropConfined DEF MemTypeOK, Live
<1> QED
  BY <1>1, <1>2, <1>3, <1>4, <1>5 DEF TierStep

\* The steps of the bulk moves.
LEMMA MoveConfined ==
  ASSUME MemTypeOK, NEW v \in View, StartPromote(v) \/ StartArchive(v) \/ MoveOne(v)
  PROVE  MemTypeOK' /\ caller' \in Tier /\ Confined(tierEntries, tierEntries', caller')
<1> DEFINE session == ForSession(v)
<1>0. session \in Tier /\ StoreTier \in Tier
  BY DEF Tier
<1>t. tierEntries' = tierEntries => Confined(tierEntries, tierEntries', session)
  BY DEF Confined, Live
<1>1. CASE StartPromote(v)
  <2>1. PICK sel \in SUBSET LogicalKey, d \in Datum :
          mover' = [mover EXCEPT ![v] = [op |-> "promote",
                      left |-> {[key |-> k, val |-> d, ttl |-> FALSE] : k \in sel}]]
    BY <1>1 DEF StartPromote
  <2>2. {[key |-> k, val |-> d, ttl |-> FALSE] : k \in sel} \subseteq Write
    <3>1. \A k \in sel : k \in Text
      BY Characters
    <3>2. \A k \in sel : [key |-> k, val |-> d, ttl |-> FALSE] \in Write
      BY <3>1 DEF Write
    <3> QED
      BY <3>2
  <2>3. PICK moved \in SUBSET Write : moved = {[key |-> k, val |-> d, ttl |-> FALSE] : k \in sel}
    BY <2>2
  <2>4. mover' \in [View -> [op : {"none", "promote", "archive"}, left : SUBSET Write]]
    BY <2>1, <2>3 DEF MemTypeOK
  <2> QED
    BY <1>0, <1>1, <1>t, <2>4 DEF StartPromote, MemTypeOK
<1>2. CASE StartArchive(v)
  <2> DEFINE listed == {[key |-> LogicalOf(session, p), val |-> tierEntries[p].val,
                         ttl |-> tierEntries[p].ttl] : p \in StoreList(tierEntries, KeyPrefix(session))}
  <2>1. PICK sel \in SUBSET listed : mover' = [mover EXCEPT ![v] = [op |-> "archive", left |-> sel]]
    BY <1>2 DEF StartArchive
  <2>2. ASSUME NEW p \in StoreList(tierEntries, KeyPrefix(session))
        PROVE  [key |-> LogicalOf(session, p), val |-> tierEntries[p].val,
                ttl |-> tierEntries[p].ttl] \in Write
    <3>1. p \in Text /\ tierEntries[p] \in TierRecord
      BY DEF StoreList, Live, MemTypeOK
    <3>2. LogicalOf(session, p) \in Text
      BY <1>0, <3>1, LogicalIsText
    <3> QED
      BY <3>1, <3>2 DEF TierRecord, Write
  <2>3. sel \in SUBSET Write
    BY <2>2
  <2>4. mover' \in [View -> [op : {"none", "promote", "archive"}, left : SUBSET Write]]
    BY <2>1, <2>3 DEF MemTypeOK
  <2>5. caller' = session
        /\ tierEntries' = [p \in DOMAIN tierEntries \ (DOMAIN tierEntries \ Live(tierEntries)) |-> tierEntries[p]]
    BY <1>2 DEF StartArchive, Drop
  <2>6. tierEntries' \in [DOMAIN tierEntries' -> TierRecord] /\ DOMAIN tierEntries' \subseteq Text
        /\ Confined(tierEntries, tierEntries', session)
    BY <1>0, <2>5, DropConfined DEF Live
  <2> QED
    BY <1>0, <2>4, <2>5, <2>6 DEF MemTypeOK
<1>3. CASE MoveOne(v)
  <2> DEFINE tier == IF mover[v].op = "promote" THEN session ELSE StoreTier
  <2>1. PICK w \in mover[v].left :
          /\ tierEntries' = StoreSet(tierEntries, PhysicalKey(tier, w.key), w.val, w.ttl)
          /\ mover' = [mover EXCEPT ![v].left = @ \ {w}]
          /\ caller' = tier
    BY <1>3 DEF MoveOne
  <2>2. w \in Write
    BY DEF MemTypeOK
  <2>3. w.key \in Text /\ w.val \in Datum /\ w.ttl \in BOOLEAN
    BY <2>2 DEF Write
  <2>4. tier \in Tier
    BY <1>0
  <2>5. mover' \in [View -> [op : {"none", "promote", "archive"}, left : SUBSET Write]]
    BY <2>1 DEF MemTypeOK
  <2> HIDE DEF tier
  <2>6. tierEntries' \in [DOMAIN tierEntries' -> TierRecord] /\ DOMAIN tierEntries' \subseteq Text
        /\ Confined(tierEntries, tierEntries', tier)
    BY <2>1, <2>3, <2>4, SetConfined
  <2> QED
    BY <2>1, <2>4, <2>5, <2>6 DEF MemTypeOK
<1> QED
  BY <1>1, <1>2, <1>3

\* Time takes entries away, and the end of a move changes none.
LEMMA ExpireTakes ==
  ASSUME MemTypeOK, Expire
  PROVE  MemTypeOK' /\ \A t \in Tier : Shown(tierEntries', t) \subseteq Shown(tierEntries, t)
<1>1. PICK q \in DOMAIN tierEntries : tierEntries' = [tierEntries EXCEPT ![q].expired = TRUE]
  BY DEF Expire
<1>2. /\ tierEntries' \in [DOMAIN tierEntries' -> TierRecord]
      /\ DOMAIN tierEntries' = DOMAIN tierEntries
  BY <1>1 DEF MemTypeOK, TierRecord
<1>3. \A p \in DOMAIN tierEntries :
        tierEntries'[p].val = tierEntries[p].val /\ (tierEntries[p].expired => tierEntries'[p].expired)
  BY <1>1 DEF MemTypeOK, TierRecord
<1>4. \A t \in Tier : StoreList(tierEntries', KeyPrefix(t)) \subseteq StoreList(tierEntries, KeyPrefix(t))
  BY <1>2, <1>3 DEF StoreList, Live
<1>5. ASSUME NEW t \in Tier
      PROVE  Shown(tierEntries', t) \subseteq Shown(tierEntries, t)
  <2>1. \A p \in StoreList(tierEntries', KeyPrefix(t)) : tierEntries'[p].val = tierEntries[p].val
    BY <1>2, <1>3 DEF StoreList, Live
  <2> QED
    BY <1>4, <2>1 DEF Shown
<1>6. MemTypeOK'
  BY <1>2 DEF MemTypeOK, Expire
<1> QED
  BY <1>5, <1>6

\* No call on a tier or a session view, no promotion and no archival adds,
\* changes or removes an entry that another view shows, for every set of views,
\* keys and values: only the passing of time takes one away.
THEOREM TiersStayApart == MemSpec => SiblingsIntact
<1> DEFINE Kept == \A t \in Tier :
             \/ t = caller'
             \/ Shown(tierEntries', t) = Shown(tierEntries, t)
             \/ caller' = NoTier /\ Shown(tierEntries', t) \subseteq Shown(tierEntries, t)
<1>1. MemInit => MemTypeOK
  BY DEF MemInit, MemTypeOK
<1>2. ASSUME MemTypeOK, [MemStep]_memVars
      PROVE  MemTypeOK' /\ (MemStep => Kept)
  <2>1. ASSUME NEW u \in Tier, MemTypeOK', caller' = u, Confined(tierEntries, tierEntries', u)
        PROVE  Kept
    <3>1. DOMAIN tierEntries \subseteq Text /\ DOMAIN tierEntries' \subseteq Text
      BY <1>2, <2>1 DEF MemTypeOK
    <3> QED
      BY <2>1, <3>1, ConfinedShows
  <2>2. ASSUME NEW t \in Tier, TierStep(t)
        PROVE  MemTypeOK' /\ Kept
    BY <1>2, <2>1, <2>2, TierConfined
  <2>3. ASSUME NEW v \in View, StartPromote(v) \/ StartArchive(v) \/ MoveOne(v)
        PROVE  MemTypeOK' /\ Kept
    BY <1>2, <2>1, <2>3, MoveConfined
  <2>4. ASSUME NEW v \in View, EndMove(v)
        PROVE  MemTypeOK' /\ Kept
    BY <1>2, <2>4 DEF EndMove, MemTypeOK
  <2>5. CASE Expire
    BY <1>2, <2>5, ExpireTakes DEF Expire
  <2>6. CASE UNCHANGED memVars
    BY <1>2, <2>6 DEF memVars, MemTypeOK
  <2> QED
    BY <1>2, <2>2, <2>3, <2>4, <2>5, <2>6 DEF MemStep
<1>3. MemTypeOK /\ [MemStep]_memVars => [Kept]_memVars
  BY <1>2
<1> QED
  BY <1>1, <1>2, <1>3, PTL DEF MemSpec, SiblingsIntact
---------------------------------------------------------------------------
(* A chain of guards over one text (Guards) *)

\* The words a text of the chain may hold, and what a chain has run.
GuardedWord == GuardWord \cup {"redacted", "untrusted", "custom"}
Texts == {s \in Seq(GuardedWord) : s # <<>>}

RanOf(checked, kinds) == \E i \in 1..Len(checked) : checked[i].kind \in kinds
OwnOf(checked) == \E i \in 1..Len(checked) : checked[i].kind = "custom" /\ checked[i].action = "rewrite"

\* What every guard that has let the text pass ensures of what it has become.
CleanOf(pos, checked, text) ==
  /\ RanOf(checked, {"pii"}) => ~Has(text, "pii")
  /\ RanOf(checked, {"filter", "topic"}) => ~Has(text, "bad")
  /\ RanOf(checked, {"injection"}) /\ pos = "input" => ~Has(text, "low") /\ ~Has(text, "high")
  /\ pos = "tool" /\ ~OwnOf(checked) =>
       \A i \in 1..Len(checked) : checked[i].kind = "scan" =>
         text[1] # "high" /\ (checked[i].action # "log" => text[1] # "low")
  /\ OwnOf(checked) => text = <<"custom">>

Found == GuardedWord \cup {"truncated"}
Outcome == [action : {"none", "pass", "rewrite", "block", "error"}, text : Seq(GuardedWord \cup {"error"}),
            event : {"none", "log", "rewrite", "block", "error"}, hits : SUBSET Found]
Chain == [pos : Position, partial : BOOLEAN, shape : {"text", "skip"}, orig : Texts, content : Texts,
          rewritten : BOOLEAN, hits : SUBSET Found, checked : Seq(GuardKind), outcome : Outcome]

GuardsTypeOK == guarded \in Chain

\* While the chain runs the text is clean, and the original one unless a guard
\* has rewritten it.
ChainClean ==
  guarded.outcome = Open =>
    /\ CleanOf(guarded.pos, guarded.checked, guarded.content)
    /\ ~guarded.rewritten => guarded.content = guarded.orig
    /\ guarded.shape = "skip" => guarded.hits = {} /\ guarded.checked = <<>> /\ ~guarded.rewritten

GuardsIInv == GuardsTypeOK /\ ChainClean /\ GuardsHold

LEMMA TextAt ==
  ASSUME NEW s \in Texts
  PROVE  s \in Seq(GuardedWord) /\ Len(s) \in Nat /\ Len(s) >= 1
         /\ \A i \in 1..Len(s) : s[i] \in GuardedWord
<1>1. s \in Seq(GuardedWord) /\ s # <<>>
  BY DEF Texts
<1> QED
  BY <1>1

\* A rewritten text is one, and has no word that was not there but the marks.
LEMMA RedactedText ==
  ASSUME NEW s \in Texts
  PROVE  /\ Redact(s) \in Texts /\ ~Has(Redact(s), "pii")
         /\ \A w \in {"bad", "low", "high"} : Has(Redact(s), w) => Has(s, w)
         /\ \A w \in {"low", "high"} : Redact(s)[1] = w => s[1] = w
<1>1. PICK n \in Nat : n = Len(s) /\ n >= 1 /\ \A i \in 1..n : s[i] \in GuardedWord
  BY TextAt
<1>2. PICK t : t = [i \in 1..n |-> IF s[i] = "pii" THEN "redacted" ELSE s[i]]
  OBVIOUS
<1>3. t = Redact(s)
  BY <1>1, <1>2 DEF Redact
<1>4. \A i \in 1..n : t[i] \in GuardedWord /\ t[i] = (IF s[i] = "pii" THEN "redacted" ELSE s[i])
  BY <1>1, <1>2 DEF GuardedWord
<1>5. t \in [1..n -> GuardedWord]
  BY <1>2, <1>4
<1>6. t \in Seq(GuardedWord) /\ Len(t) = n
  BY <1>1, <1>5
<1>7. t \in Texts
  BY <1>1, <1>6 DEF Texts
<1>8. 1 \in 1..n
  BY <1>1
<1>9. ~Has(t, "pii") /\ \A w \in {"bad", "low", "high"} : Has(t, w) => Has(s, w)
  BY <1>1, <1>4, <1>6 DEF Has
<1>10. \A w \in {"low", "high"} : t[1] = w => s[1] = w
  BY <1>4, <1>8
<1> QED
  BY <1>3, <1>7, <1>9, <1>10

LEMMA QuarantinedText ==
  ASSUME NEW s \in Texts
  PROVE  /\ Quarantine(s) \in Texts /\ Quarantine(s)[1] = "untrusted"
         /\ \A w \in GuardWord : Has(Quarantine(s), w) => Has(s, w)
<1>1. PICK n \in Nat : n = Len(s) /\ n >= 1 /\ \A i \in 1..n : s[i] \in GuardedWord
  BY TextAt
<1>2. PICK t : t = <<"untrusted">> \o s
  OBVIOUS
<1>3. s \in Seq(GuardedWord) /\ <<"untrusted">> \in Seq(GuardedWord)
  BY DEF Texts, GuardedWord
<1>4. t \in Seq(GuardedWord) /\ Len(t) = n + 1 /\ t[1] = "untrusted"
  BY <1>1, <1>2, <1>3
<1>5. \A i \in 2..n + 1 : t[i] = s[i - 1] /\ i - 1 \in 1..n
  BY <1>1, <1>2, <1>3
<1>6. t \in Texts
  BY <1>1, <1>4 DEF Texts
<1>7. ASSUME NEW w \in GuardWord, Has(t, w)
      PROVE  Has(s, w)
  <2>1. PICK i \in 1..n + 1 : t[i] = w
    BY <1>4, <1>7 DEF Has
  <2>2. i # 1
    BY <1>4, <2>1 DEF GuardWord
  <2>3. i \in 2..n + 1
    BY <2>2
  <2> QED
    BY <1>1, <1>5, <2>1, <2>3 DEF Has
<1> QED
  BY <1>2, <1>4, <1>6, <1>7 DEF Quarantine

\* A guard that lets a text pass, as it is or rewritten, has seen to its own
\* part, and brings nothing back that others have seen to.
Sees(pos, g, new) ==
  /\ g.kind = "pii" => ~Has(new, "pii")
  /\ g.kind \in {"filter", "topic"} => ~Has(new, "bad")
  /\ g.kind = "injection" /\ pos = "input" => ~Has(new, "low") /\ ~Has(new, "high")
  /\ g.kind = "scan" /\ pos = "tool" => new[1] # "high" /\ (g.action # "log" => new[1] # "low")

NothingBack(text, new) ==
  /\ new \in Texts
  /\ \A w \in {"pii", "bad", "low", "high"} : Has(new, w) => Has(text, w)
  /\ \A w \in {"low", "high"} : new[1] = w => text[1] = w
  /\ text = <<"custom">> => new = text

IsOwn(g) == g.kind = "custom" /\ g.action = "rewrite"

LEMMA ChainExtends ==
  ASSUME NEW pos \in Position, NEW g \in GuardKind, NEW checked \in Seq(GuardKind), NEW text \in Texts,
         NEW new \in Texts, CleanOf(pos, checked, text), (NothingBack(text, new) /\ ~IsOwn(g)) \/ new = <<"custom">>,
         IsOwn(g) => new = <<"custom">>, Sees(pos, g, new)
  PROVE  CleanOf(pos, Append(checked, g), new)
<1>0. PICK more : more = Append(checked, g)
  OBVIOUS
<1>1. PICK n \in Nat :
        /\ n = Len(checked) /\ more = Append(checked, g) /\ Len(more) = n + 1 /\ more[n + 1] = g
        /\ \A i \in 1..n : more[i] = checked[i]
  <2>1. PICK m \in Nat : m = Len(checked)
    OBVIOUS
  <2>2. Len(more) = m + 1 /\ more[m + 1] = g /\ \A i \in 1..m : more[i] = checked[i]
    BY <1>0, <2>1
  <2> QED
    BY <1>0, <2>1, <2>2
<1>2. \A i \in 1..n + 1 : i \in 1..n \/ i = n + 1
  OBVIOUS
<1>3. \A kinds : RanOf(more, kinds) => RanOf(checked, kinds) \/ g.kind \in kinds
  BY <1>1, <1>2 DEF RanOf
<1>4. OwnOf(more) <=> OwnOf(checked) \/ IsOwn(g)
  <2>1. OwnOf(checked) => OwnOf(more)
    BY <1>1 DEF OwnOf
  <2>2. IsOwn(g) => OwnOf(more)
    <3>1. n + 1 \in 1..n + 1
      BY <1>1
    <3> QED
      BY <1>1, <3>1 DEF OwnOf, IsOwn
  <2>3. OwnOf(more) => OwnOf(checked) \/ IsOwn(g)
    BY <1>1, <1>2 DEF OwnOf, IsOwn
  <2> QED
    BY <2>1, <2>2, <2>3
<1>5. CASE new = <<"custom">>
  <2>1. \A w \in GuardWord : ~Has(new, w) /\ new[1] # w
    BY <1>5 DEF Has, GuardWord
  <2>2. CleanOf(pos, more, new)
    BY <1>5, <2>1 DEF CleanOf, GuardWord
  <2> QED
    BY <1>1, <2>2
<1>6. CASE NothingBack(text, new) /\ ~IsOwn(g)
  <2>1. /\ RanOf(more, {"pii"}) => ~Has(new, "pii")
        /\ RanOf(more, {"filter", "topic"}) => ~Has(new, "bad")
        /\ RanOf(more, {"injection"}) /\ pos = "input" => ~Has(new, "low") /\ ~Has(new, "high")
    BY <1>3, <1>6 DEF CleanOf, NothingBack, Sees
  <2>2. OwnOf(more) => new = <<"custom">>
    BY <1>4, <1>6 DEF CleanOf, NothingBack
  <2>3. ASSUME pos = "tool", ~OwnOf(more), NEW i \in 1..Len(more), more[i].kind = "scan"
        PROVE  new[1] # "high" /\ (more[i].action # "log" => new[1] # "low")
    <3>1. CASE i \in 1..n
      <4>1. text[1] # "high" /\ (checked[i].action # "log" => text[1] # "low")
        BY <1>1, <1>4, <2>3, <3>1 DEF CleanOf
      <4> QED
        BY <1>1, <1>6, <3>1, <4>1 DEF NothingBack
    <3>2. CASE i = n + 1
      BY <1>1, <2>3, <3>2 DEF Sees
    <3> QED
      BY <1>1, <1>2, <2>3, <3>1, <3>2
  <2>4. CleanOf(pos, more, new)
    BY <2>1, <2>2, <2>3 DEF CleanOf
  <2> QED
    BY <1>1, <2>4
<1> QED
  BY <1>5, <1>6

LEMMA SameText ==
  ASSUME NEW text \in Texts
  PROVE  NothingBack(text, text)
  BY DEF NothingBack

LEMMA GuardChecks ==
  ASSUME NEW pos \in Position, NEW g \in GuardKind, NEW text \in Texts, NEW r, r = Check(g, pos, text),
         r.action \notin {"error", "block"}, NEW new, new = IF r.action = "rewrite" THEN r.content ELSE text
  PROVE  /\ r.action \in {"pass", "rewrite"} /\ r.hits \subseteq Found
         /\ new \in Texts /\ Sees(pos, g, new) /\ (IsOwn(g) => new = <<"custom">>)
         /\ (NothingBack(text, new) /\ ~IsOwn(g)) \/ new = <<"custom">>
<1>1. g.kind \in {"length", "pii", "filter", "topic", "injection", "scan", "custom"} /\ Pass.action = "pass"
      /\ Pass.hits = {}
  BY DEF GuardKind, Pass
<1>2. NothingBack(text, text)
  BY SameText
<1>3. CASE g.kind = "length"
  <2>1. r = Pass
    BY <1>3 DEF Check, LengthCheck, Block
  <2>2. new = text
    BY <1>1, <2>1
  <2> QED
    BY <1>1, <1>2, <1>3, <2>1, <2>2 DEF Sees, IsOwn
<1>4. CASE g.kind = "pii"
  <2>1. CASE Redact(text) # text
    <3>1. r = Rewrite(Redact(text), {"pii"})
      BY <1>4, <2>1 DEF Check, PIICheck
    <3>2. r.action = "rewrite" /\ r.content = Redact(text) /\ r.hits = {"pii"}
      BY <3>1 DEF Rewrite
    <3>3. new = Redact(text)
      BY <3>2
    <3>4. text # <<"custom">>
      <4> SUFFICES ASSUME text = <<"custom">>
                   PROVE  FALSE
        OBVIOUS
      <4>1. Len(text) = 1 /\ text[1] = "custom" /\ text = [i \in 1..1 |-> text[i]]
        OBVIOUS
      <4>2. Redact(text) = [i \in 1..1 |-> text[i]]
        BY <4>1 DEF Redact
      <4> QED
        BY <2>1, <4>1, <4>2
    <3>5. NothingBack(text, new)
      BY <3>3, <3>4, RedactedText DEF NothingBack
    <3> QED
      BY <1>4, <3>2, <3>3, <3>5, RedactedText DEF Sees, IsOwn, Found, GuardedWord, GuardWord
  <2>2. CASE Redact(text) = text
    <3>1. r = Pass
      BY <1>4, <2>2 DEF Check, PIICheck
    <3>2. new = text /\ ~Has(text, "pii")
      BY <1>1, <2>2, <3>1, RedactedText
    <3> QED
      BY <1>1, <1>2, <1>4, <3>1, <3>2 DEF Sees, IsOwn
  <2> QED
    BY <2>1, <2>2
<1>5. CASE g.kind \in {"filter", "topic"}
  <2>1. r = Pass /\ ~Has(text, "bad")
    BY <1>5 DEF Check, ContentFilterCheck, TopicCheck, Block
  <2>2. new = text
    BY <1>1, <2>1
  <2> QED
    BY <1>1, <1>2, <1>5, <2>1, <2>2 DEF Sees, IsOwn
<1>6. CASE g.kind = "injection"
  <2>1. r = Pass /\ (pos = "input" => ~Has(text, "low") /\ ~Has(text, "high"))
    BY <1>6 DEF Check, InjectionCheck, Block
  <2>2. new = text
    BY <1>1, <2>1
  <2> QED
    BY <1>1, <1>2, <1>6, <2>1, <2>2 DEF Sees, IsOwn
<1>7. CASE g.kind = "scan"
  <2> DEFINE hits == {w \in {"low", "high"} : \E i \in 1..Len(text) : i <= ScanLimit /\ text[i] = w}
  <2>1. PICK marker : marker = IF Len(text) > ScanLimit THEN {"truncated"} ELSE {}
    OBVIOUS
  <2>2. r = IF pos # "tool" THEN Pass
            ELSE IF hits = {} THEN Observed(marker)
            ELSE IF \E w \in hits : Severity(w) >= g.blockOn THEN Block(hits \cup marker)
            ELSE CASE g.action = "block" -> Block(hits \cup marker)
                   [] g.action = "rewrite" -> Rewrite(Quarantine(text), hits \cup marker)
                   [] OTHER -> Observed(hits \cup marker)
    BY <1>7, <2>1 DEF Check, ScanCheck
  <2>3. \A s : Observed(s).action = "pass" /\ Observed(s).hits = s /\ Block(s).action = "block"
    BY DEF Observed, Block, Pass
  <2>4. 1 <= ScanLimit /\ 1 \in 1..Len(text)
    BY TextAt, GuardsAssumption
  <2>5. \A w \in {"low", "high"} : text[1] = w => w \in hits
    BY <2>4
  <2>6. marker \subseteq Found /\ hits \subseteq Found
    BY <2>1 DEF Found, GuardedWord, GuardWord
  <2>7. ~IsOwn(g)
    BY <1>7 DEF IsOwn
  <2>8. g.action \in {"log", "rewrite", "block"} /\ g.blockOn \in {1, 3}
    BY <1>7 DEF GuardKind, ScanAction
  <2> HIDE DEF hits
  <2>9. CASE pos # "tool"
    <3>1. r = Pass /\ new = text
      BY <1>1, <2>2, <2>9
    <3> QED
      BY <1>1, <1>2, <1>7, <2>7, <2>9, <3>1 DEF Sees
  <2>10. CASE pos = "tool" /\ hits = {}
    <3>1. r = Observed(marker) /\ new = text
      BY <2>2, <2>3, <2>10
    <3> QED
      BY <1>2, <1>7, <2>3, <2>5, <2>6, <2>7, <2>10, <3>1 DEF Sees
  <2>11. CASE pos = "tool" /\ hits # {}
    <3>1. ~\E w \in hits : Severity(w) >= g.blockOn
      BY <2>2, <2>3, <2>11
    <3>2. text[1] # "high"
      <4>1. Severity("high") = 3
        BY DEF Severity
      <4>2. "high" \notin hits
        BY <2>8, <3>1, <4>1
      <4> QED
        BY <2>5, <4>2
    <3>3. CASE g.action = "rewrite"
      <4>1. r = Rewrite(Quarantine(text), hits \cup marker)
        BY <2>2, <2>11, <3>1, <3>3
      <4>2. r.action = "rewrite" /\ r.content = Quarantine(text) /\ r.hits = hits \cup marker
        BY <4>1 DEF Rewrite
      <4>3. new = Quarantine(text) /\ new \in Texts /\ new[1] = "untrusted"
        BY <4>2, QuarantinedText
      <4>4. text # <<"custom">>
        <5> SUFFICES ASSUME text = <<"custom">>
                     PROVE  FALSE
          OBVIOUS
        <5>1. \A i \in 1..Len(text) : text[i] = "custom"
          OBVIOUS
        <5>2. hits = {}
          BY <5>1 DEF hits
        <5> QED
          BY <2>11, <5>2
      <4>5. NothingBack(text, new)
        BY <4>3, <4>4, QuarantinedText DEF NothingBack, GuardWord
      <4> QED
        BY <1>7, <2>6, <2>7, <4>2, <4>3, <4>5 DEF Sees
    <3>4. CASE g.action = "log"
      <4>1. r = Observed(hits \cup marker)
        BY <2>2, <2>11, <3>1, <3>4
      <4>2. new = text /\ r.action = "pass" /\ r.hits = hits \cup marker
        BY <2>3, <4>1
      <4> QED
        BY <1>2, <1>7, <2>6, <2>7, <3>2, <3>4, <4>2 DEF Sees
    <3>5. CASE g.action = "block"
      BY <2>2, <2>3, <2>11, <3>1, <3>5
    <3> QED
      BY <2>8, <3>3, <3>4, <3>5
  <2> QED
    BY <2>9, <2>10, <2>11
<1>8. CASE g.kind = "custom"
  <2>1. r = CustomCheck(g)
    BY <1>8 DEF Check
  <2>2. \A s : Observed(s).action = "pass" /\ Observed(s).hits = s /\ Block(s).action = "block"
    BY DEF Observed, Block, Pass
  <2>3. [Pass EXCEPT !.action = "error"].action = "error"
    BY DEF Pass
  <2>4. CASE g.action = "rewrite"
    <3>1. r = Rewrite(<<"custom">>, {"custom"})
      BY <2>1, <2>4 DEF CustomCheck
    <3>2. r.action = "rewrite" /\ r.content = <<"custom">> /\ r.hits = {"custom"}
      BY <3>1 DEF Rewrite
    <3>3. new = <<"custom">> /\ new \in Texts
      BY <3>2 DEF Texts, GuardedWord
    <3> QED
      BY <1>8, <3>2, <3>3 DEF Sees, Found, GuardedWord
  <2>5. CASE g.action = "log"
    <3>1. r = Observed({"custom"})
      BY <2>1, <2>5 DEF CustomCheck
    <3> QED
      BY <1>2, <1>8, <2>2, <2>5, <3>1 DEF Sees, IsOwn, Found, GuardedWord
  <2>6. CASE g.action \notin {"rewrite", "log"}
    <3>1. r = Pass
      BY <2>1, <2>2, <2>3, <2>6 DEF CustomCheck
    <3> QED
      BY <1>1, <1>2, <1>8, <2>6, <3>1 DEF Sees, IsOwn
  <2> QED
    BY <2>4, <2>5, <2>6
<1> QED
  BY <1>1, <1>3, <1>4, <1>5, <1>6, <1>7, <1>8
\* GuardsHold says of the variable what this says of any pass.
HoldsOf(g) ==
  g.outcome # Open =>
    /\ g.outcome.action \in {"pass", "rewrite"} =>
         /\ CleanOf(g.pos, g.checked, g.outcome.text)
         /\ g.pos = "tool" => (g.outcome.event = "none") = (g.outcome.action = "pass" /\ g.hits = {})
    /\ g.outcome.action \in {"block", "error"} =>
         \/ g.outcome.text = <<"error">> /\ (g.pos = "tool" => g.outcome.event = g.outcome.action)
         \/ g.outcome.text = g.orig /\ (g.pos = "run" \/ (g.pos = "stream" /\ g.partial))

LEMMA HoldsIsGuardsHold == HoldsOf(guarded) => GuardsHold
<1>1. \A c, kind : RanOf(c, {kind}) <=> \E i \in 1..Len(c) : c[i].kind = kind
  BY DEF RanOf
<1>2. \A c : RanOf(c, {"filter", "topic"}) <=>
         (\E i \in 1..Len(c) : c[i].kind = "filter") \/ (\E i \in 1..Len(c) : c[i].kind = "topic")
  BY DEF RanOf
<1>3. OwnOf(guarded.checked) <=>
        \E i \in 1..Len(guarded.checked) : guarded.checked[i].kind = "custom" /\ guarded.checked[i].action = "rewrite"
  BY DEF OwnOf
<1>5. ASSUME HoldsOf(guarded), guarded.outcome # Open, guarded.outcome.action \in {"pass", "rewrite"}
      PROVE  /\ CleanOf(guarded.pos, guarded.checked, guarded.outcome.text)
             /\ guarded.pos = "tool" =>
                  (guarded.outcome.event = "none") = (guarded.outcome.action = "pass" /\ guarded.hits = {})
  BY <1>5 DEF HoldsOf
<1>6. ASSUME HoldsOf(guarded), guarded.outcome # Open, guarded.outcome.action \in {"block", "error"}
      PROVE  \/ /\ guarded.outcome.text = <<"error">>
                /\ guarded.pos = "tool" => guarded.outcome.event = guarded.outcome.action
             \/ /\ guarded.outcome.text = guarded.orig
                /\ guarded.pos = "run" \/ (guarded.pos = "stream" /\ guarded.partial)
  BY <1>6 DEF HoldsOf
<1>7. ASSUME CleanOf(guarded.pos, guarded.checked, guarded.outcome.text)
      PROVE  /\ (\E i \in 1..Len(guarded.checked) : guarded.checked[i].kind = "pii") =>
                  ~Has(guarded.outcome.text, "pii")
             /\ (\E i \in 1..Len(guarded.checked) : guarded.checked[i].kind = "filter")
                  \/ (\E i \in 1..Len(guarded.checked) : guarded.checked[i].kind = "topic") =>
                  ~Has(guarded.outcome.text, "bad")
             /\ (\E i \in 1..Len(guarded.checked) : guarded.checked[i].kind = "injection")
                  /\ guarded.pos = "input" =>
                  ~Has(guarded.outcome.text, "low") /\ ~Has(guarded.outcome.text, "high")
  BY <1>1, <1>2, <1>7 DEF CleanOf
<1>8. ASSUME CleanOf(guarded.pos, guarded.checked, guarded.outcome.text)
      PROVE  /\ guarded.pos = "tool" /\ ~OwnOf(guarded.checked) =>
                  \A i \in {j \in 1..Len(guarded.checked) : guarded.checked[j].kind = "scan"} :
                    guarded.outcome.text[1] # "high"
                    /\ (guarded.checked[i].action # "log" => guarded.outcome.text[1] # "low")
             /\ OwnOf(guarded.checked) => guarded.outcome.text = <<"custom">>
  BY <1>8 DEF CleanOf
<1> QED
  BY <1>3, <1>5, <1>6, <1>7, <1>8 DEF GuardsHold

\* What the caller makes of the end of a chain.
LEMMA FinishedChain ==
  ASSUME NEW g \in Chain, NEW action \in {"pass", "rewrite", "block", "error"}, NEW content \in Seq(GuardedWord),
         NEW hits \in SUBSET Found, NEW h, h = Finish(g, action, content, hits)
  PROVE  /\ h \in Chain /\ h.pos = g.pos /\ h.partial = g.partial /\ h.orig = g.orig /\ h.hits = g.hits
         /\ h.checked = g.checked /\ h.outcome # Open /\ h.outcome.action = action
         /\ action = "pass" => h.outcome.text = g.orig
         /\ action = "rewrite" => h.outcome.text = content
         /\ action \in {"block", "error"} =>
              h.outcome.text = IF g.pos = "run" \/ (g.pos = "stream" /\ g.partial) THEN g.orig ELSE <<"error">>
         /\ g.pos = "tool" => h.outcome.event = IF action # "pass" THEN action
                                                ELSE IF hits = {} THEN "none" ELSE "log"
<1> DEFINE keeps == g.pos = "run" \/ (g.pos = "stream" /\ g.partial)
           event == IF action # "pass" THEN action ELSE IF hits = {} THEN "none" ELSE "log"
           delivered == IF action \in {"pass", "rewrite"} \/ keeps THEN "text" ELSE "error"
           said == IF action = "rewrite" THEN content ELSE g.orig
<1>1. PICK text : text = IF delivered = "text" THEN said ELSE <<delivered>>
  OBVIOUS
<1>2. PICK e : e = IF g.pos = "tool" THEN event ELSE "none"
  OBVIOUS
<1>3. PICK hs : hs = IF g.pos = "tool" THEN hits ELSE {}
  OBVIOUS
<1>4. g.orig \in Seq(GuardedWord)
  BY DEF Chain, Texts
<1>5. text \in Seq(GuardedWord \cup {"error"})
  <2>1. CASE delivered = "text"
    <3>1. text \in Seq(GuardedWord)
      BY <1>1, <1>4, <2>1
    <3> QED
      BY <3>1
  <2>2. CASE delivered # "text"
    <3>1. text = <<"error">>
      BY <1>1, <2>2
    <3> QED
      BY <3>1
  <2> QED
    BY <2>1, <2>2
<1>6. e \in {"none", "log", "rewrite", "block", "error"} /\ hs \in SUBSET Found
  BY <1>2, <1>3
<1>7. PICK o : o = [action |-> action, text |-> text, event |-> e, hits |-> hs]
  OBVIOUS
<1>8. o \in Outcome /\ o.action = action /\ o.text = text /\ o.event = e
  BY <1>5, <1>6, <1>7 DEF Outcome
<1>9. o # Open
  BY <1>8 DEF Open
<1>10. h = [g EXCEPT !.outcome = o]
  BY <1>1, <1>2, <1>3, <1>7 DEF Finish
<1>11. /\ h \in Chain /\ h.pos = g.pos /\ h.partial = g.partial /\ h.orig = g.orig /\ h.hits = g.hits
       /\ h.checked = g.checked /\ h.outcome = o
  BY <1>8, <1>10 DEF Chain
<1>12. action = "pass" => text = g.orig
  BY <1>1
<1>13. action = "rewrite" => text = content
  BY <1>1
<1>14. action \in {"block", "error"} => text = IF keeps THEN g.orig ELSE <<"error">>
  BY <1>1
<1>15. g.pos = "tool" => e = IF action # "pass" THEN action ELSE IF hits = {} THEN "none" ELSE "log"
  BY <1>2
<1> QED
  BY <1>8, <1>9, <1>11, <1>12, <1>13, <1>14, <1>15

LEMMA RefusedChain ==
  ASSUME NEW g \in Chain, NEW action \in {"block", "error"}, NEW hits \in SUBSET Found,
         NEW h, h = Finish(g, action, <<>>, hits)
  PROVE  h \in Chain /\ h.outcome # Open /\ HoldsOf(h)
<1>1. <<>> \in Seq(GuardedWord)
  OBVIOUS
<1>2. /\ h \in Chain /\ h.pos = g.pos /\ h.partial = g.partial /\ h.orig = g.orig
      /\ h.outcome # Open /\ h.outcome.action = action
      /\ h.outcome.text = IF g.pos = "run" \/ (g.pos = "stream" /\ g.partial) THEN g.orig ELSE <<"error">>
      /\ g.pos = "tool" => h.outcome.event = action
  <2>1. PICK content \in Seq(GuardedWord) : h = Finish(g, action, content, hits)
    BY <1>1
  <2>2. PICK a \in {"pass", "rewrite", "block", "error"} : a = action
    OBVIOUS
  <2>3. h = Finish(g, a, content, hits)
    BY <2>1, <2>2
  <2>4. /\ h \in Chain /\ h.pos = g.pos /\ h.partial = g.partial /\ h.orig = g.orig
        /\ h.outcome # Open /\ h.outcome.action = a
        /\ a \in {"block", "error"} =>
             h.outcome.text = IF g.pos = "run" \/ (g.pos = "stream" /\ g.partial) THEN g.orig ELSE <<"error">>
        /\ g.pos = "tool" => h.outcome.event = IF a # "pass" THEN a ELSE IF hits = {} THEN "none" ELSE "log"
    BY <2>3, FinishedChain
  <2> QED
    BY <2>2, <2>4
<1> QED
  BY <1>2 DEF HoldsOf

LEMMA PassedChain ==
  ASSUME NEW g \in Chain, NEW action \in {"pass", "rewrite"}, NEW content \in Seq(GuardedWord),
         NEW h, h = Finish(g, action, content, g.hits),
         CleanOf(g.pos, g.checked, IF action = "pass" THEN g.orig ELSE content)
  PROVE  h \in Chain /\ h.outcome # Open /\ HoldsOf(h)
<1>1. g.hits \in SUBSET Found
  BY DEF Chain
<1>2. /\ h \in Chain /\ h.pos = g.pos /\ h.checked = g.checked /\ h.hits = g.hits
      /\ h.outcome # Open /\ h.outcome.action = action
      /\ h.outcome.text = IF action = "pass" THEN g.orig ELSE content
      /\ g.pos = "tool" => h.outcome.event = IF action # "pass" THEN action
                                             ELSE IF g.hits = {} THEN "none" ELSE "log"
  BY <1>1, FinishedChain
<1> QED
  BY <1>2 DEF HoldsOf

LEMMA BlockedHits ==
  ASSUME NEW pos \in Position, NEW g \in GuardKind, NEW text \in Texts, NEW r, r = Check(g, pos, text),
         r.action = "block"
  PROVE  r.hits \in SUBSET Found
<1>1. g.kind \in {"length", "pii", "filter", "topic", "injection", "scan", "custom"}
      /\ Pass.action = "pass"
  BY DEF GuardKind, Pass
<1>2. \A s : Block(s).hits = s /\ Observed(s).action = "pass"
  BY DEF Block, Observed, Pass
<1>3. \A c, s : Rewrite(c, s).action = "rewrite"
  BY DEF Rewrite
<1>4. {} \in SUBSET Found /\ {"bad"} \in SUBSET Found /\ {"custom"} \in SUBSET Found /\ {"low", "high"} \in SUBSET Found
  BY DEF Found, GuardedWord, GuardWord
<1>5. CASE g.kind \in {"length", "filter", "topic"}
  BY <1>1, <1>2, <1>4, <1>5 DEF Check, LengthCheck, ContentFilterCheck, TopicCheck
<1>6. CASE g.kind = "pii"
  BY <1>1, <1>3, <1>6 DEF Check, PIICheck
<1>7. CASE g.kind = "injection"
  <2>1. PICK hits : hits = {w \in {"low", "high"} : Has(text, w)}
    OBVIOUS
  <2>2. r = IF pos = "input" /\ hits # {} THEN Block(hits) ELSE Pass
    BY <1>7, <2>1 DEF Check, InjectionCheck
  <2>3. r = Block(hits) /\ hits \subseteq {"low", "high"}
    BY <1>1, <2>1, <2>2
  <2>4. r.hits = hits
    BY <1>2, <2>3
  <2> QED
    BY <1>4, <2>3, <2>4
<1>8. CASE g.kind = "scan"
  <2>1. PICK marker : marker = IF Len(text) > ScanLimit THEN {"truncated"} ELSE {}
    OBVIOUS
  <2>2. PICK hits : hits = {w \in {"low", "high"} : \E i \in 1..Len(text) : i <= ScanLimit /\ text[i] = w}
    OBVIOUS
  <2>3. r \in {Pass, Observed(marker), Observed(hits \cup marker), Block(hits \cup marker),
               Rewrite(Quarantine(text), hits \cup marker)}
    BY <1>8, <2>1, <2>2 DEF Check, ScanCheck
  <2>4. r = Block(hits \cup marker)
    BY <1>1, <1>2, <1>3, <2>3
  <2>5. hits \cup marker \in SUBSET Found
    BY <1>4, <2>1, <2>2 DEF Found
  <2> QED
    BY <1>2, <2>4, <2>5
<1>9. CASE g.kind = "custom"
  <2>1. [Pass EXCEPT !.action = "error"].action = "error"
    BY DEF Pass
  <2>2. r \in {Pass, Observed({"custom"}), Rewrite(<<"custom">>, {"custom"}), Block({"custom"}),
               [Pass EXCEPT !.action = "error"]}
    BY <1>9 DEF Check, CustomCheck
  <2>3. /\ Observed({"custom"}).action = "pass"
        /\ Rewrite(<<"custom">>, {"custom"}).action = "rewrite"
    BY <1>2, <1>3
  <2>5. r # Observed({"custom"}) /\ r # Rewrite(<<"custom">>, {"custom"})
    BY <2>3
  <2>6. r # Pass /\ r # [Pass EXCEPT !.action = "error"]
    BY <1>1, <2>1
  <2>4. r = Block({"custom"})
    BY <2>2, <2>5, <2>6
  <2> QED
    BY <1>2, <1>4, <2>4
<1> QED
  BY <1>1, <1>5, <1>6, <1>7, <1>8, <1>9

LEMMA GuardsInitIInv ==
  ASSUME GuardsAssumption
  PROVE  GuardsInit => GuardsIInv
<1> SUFFICES ASSUME GuardsInit
             PROVE  GuardsIInv
  OBVIOUS
<1>1. PICK pos \in Position, partial \in BOOLEAN, shape \in {"text", "skip"}, text \in GuardText :
        guarded = [pos |-> pos, partial |-> partial, shape |-> shape, orig |-> text, content |-> text,
                   rewritten |-> FALSE, hits |-> {}, checked |-> <<>>, outcome |-> Open]
  BY DEF GuardsInit
<1>2. text \in Texts
  <2>1. PICK n \in 1..MaxWords : text \in [1..n -> GuardWord]
    BY DEF GuardText
  <2>2. n \in Nat /\ n >= 1 /\ text \in Seq(GuardWord) /\ Len(text) = n
    BY <2>1, GuardsAssumption
  <2>3. text \in Seq(GuardedWord)
    BY <2>2 DEF GuardedWord
  <2> QED
    BY <2>2, <2>3 DEF Texts
<1>3. Open \in Outcome
  BY DEF Open, Outcome
<1>4. <<>> \in Seq(GuardKind)
  OBVIOUS
<1>5. GuardsTypeOK
  BY <1>1, <1>2, <1>3, <1>4 DEF GuardsTypeOK, Chain
<1>6. /\ guarded.pos = pos /\ guarded.checked = <<>> /\ guarded.content = text /\ guarded.orig = text
      /\ guarded.outcome = Open /\ guarded.hits = {} /\ guarded.rewritten = FALSE
  BY <1>1
<1>7. CleanOf(pos, <<>>, text)
  BY DEF CleanOf, RanOf, OwnOf
<1>8. ChainClean
  BY <1>6, <1>7 DEF ChainClean
<1>9. HoldsOf(guarded)
  BY <1>6 DEF HoldsOf
<1> QED
  BY <1>5, <1>8, <1>9, HoldsIsGuardsHold DEF GuardsIInv

\* A step that ends the chain, and a step that leaves it open.
LEMMA EndedKeeps ==
  ASSUME guarded' \in Chain, guarded'.outcome # Open, HoldsOf(guarded')
  PROVE  GuardsIInv'
<1>1. HoldsOf(guarded)' <=> HoldsOf(guarded')
  BY DEF HoldsOf
<1>2. GuardsHold'
  BY <1>1, HoldsIsGuardsHold, PTL
<1> QED
  BY <1>2 DEF GuardsIInv, GuardsTypeOK, ChainClean

LEMMA CheckNextKeeps ==
  ASSUME GuardsAssumption, GuardsIInv, NEW guard \in GuardKind, CheckNext(guard)
  PROVE  GuardsIInv'
<1>1. guarded \in Chain /\ guarded.outcome = Open /\ guarded.shape = "text"
  BY DEF CheckNext, Running, GuardsIInv, GuardsTypeOK
<1>2. /\ CleanOf(guarded.pos, guarded.checked, guarded.content)
      /\ ~guarded.rewritten => guarded.content = guarded.orig
  BY <1>1 DEF GuardsIInv, ChainClean
<1>3. PICK r : r = Check(guard, guarded.pos, guarded.content)
  OBVIOUS
<1>4. PICK more : more = Append(guarded.checked, guard)
  OBVIOUS
<1>5. PICK g : g = [guarded EXCEPT !.checked = more]
  OBVIOUS
<1>6. /\ guarded.pos \in Position /\ guarded.content \in Texts /\ guarded.orig \in Texts
      /\ guarded.checked \in Seq(GuardKind) /\ guarded.hits \in SUBSET Found /\ guarded.rewritten \in BOOLEAN
  BY <1>1 DEF Chain
<1>7. more \in Seq(GuardKind)
  BY <1>4, <1>6
<1>8. /\ g \in Chain /\ g.pos = guarded.pos /\ g.orig = guarded.orig /\ g.checked = more
      /\ g.outcome = Open /\ g.shape = "text" /\ g.content = guarded.content
      /\ g.rewritten = guarded.rewritten /\ g.hits = guarded.hits
  BY <1>1, <1>5, <1>7 DEF Chain
<1>9. guarded' = CASE r.action = "error" -> Finish(g, "error", <<>>, {})
                   [] r.action = "block" -> Finish(g, "block", <<>>, r.hits)
                   [] OTHER -> [g EXCEPT !.content = NextContent(r),
                                         !.rewritten = @ \/ r.action = "rewrite",
                                         !.hits = @ \cup r.hits]
  BY <1>3, <1>4, <1>5 DEF CheckNext
<1>10. CASE r.action = "error"
  <2>1. guarded' = Finish(g, "error", <<>>, {}) /\ {} \in SUBSET Found
    BY <1>9, <1>10
  <2>2. guarded' \in Chain /\ guarded'.outcome # Open /\ HoldsOf(guarded')
    BY <1>8, <2>1, RefusedChain
  <2> QED
    BY <2>2, EndedKeeps
<1>11. CASE r.action = "block"
  <2>1. guarded' = Finish(g, "block", <<>>, r.hits)
    BY <1>9, <1>11
  <2>2. r.hits \in SUBSET Found
    BY <1>3, <1>6, <1>11, BlockedHits
  <2>3. guarded' \in Chain /\ guarded'.outcome # Open /\ HoldsOf(guarded')
    BY <1>8, <2>1, <2>2, RefusedChain
  <2> QED
    BY <2>3, EndedKeeps
<1>12. CASE r.action \notin {"error", "block"}
  <2>1. PICK new : new = NextContent(r)
    OBVIOUS
  <2>2. new = IF r.action = "rewrite" THEN r.content ELSE guarded.content
    BY <2>1 DEF NextContent
  <2>3. /\ r.action \in {"pass", "rewrite"} /\ r.hits \subseteq Found /\ new \in Texts
        /\ Sees(guarded.pos, guard, new) /\ (IsOwn(guard) => new = <<"custom">>)
        /\ (NothingBack(guarded.content, new) /\ ~IsOwn(guard)) \/ new = <<"custom">>
    BY <1>3, <1>6, <1>12, <2>2, GuardChecks
  <2>4. CleanOf(guarded.pos, more, new)
    BY <1>2, <1>4, <1>6, <2>3, ChainExtends
  <2>5. PICK rw : rw = (guarded.rewritten \/ r.action = "rewrite")
    OBVIOUS
  <2>6. PICK hs : hs = guarded.hits \cup r.hits
    OBVIOUS
  <2>7. rw \in BOOLEAN /\ hs \in SUBSET Found
    BY <1>6, <2>3, <2>5, <2>6
  <2>8. guarded' = [g EXCEPT !.content = new, !.rewritten = rw, !.hits = hs]
    BY <1>8, <1>9, <1>12, <2>1, <2>5, <2>6
  <2>9. /\ guarded' \in Chain /\ guarded'.pos = guarded.pos /\ guarded'.checked = more
        /\ guarded'.content = new /\ guarded'.orig = guarded.orig /\ guarded'.rewritten = rw
        /\ guarded'.shape = "text" /\ guarded'.outcome = Open
    BY <1>8, <2>3, <2>7, <2>8 DEF Chain
  <2>10. ~rw => new = guarded.orig
    BY <1>2, <2>2, <2>5
  <2>11. ChainClean'
    BY <2>4, <2>9, <2>10 DEF ChainClean
  <2>12. GuardsHold'
    BY <2>9 DEF GuardsHold
  <2> QED
    BY <2>9, <2>11, <2>12 DEF GuardsIInv, GuardsTypeOK
<1> QED
  BY <1>10, <1>11, <1>12

LEMMA CancelChainKeeps ==
  ASSUME GuardsIInv, CancelChain
  PROVE  GuardsIInv'
<1>1. guarded \in Chain /\ guarded' = Finish(guarded, "error", <<>>, {}) /\ {} \in SUBSET Found
  BY DEF CancelChain, GuardsIInv, GuardsTypeOK
<1>2. guarded' \in Chain /\ guarded'.outcome # Open /\ HoldsOf(guarded')
  BY <1>1, RefusedChain
<1> QED
  BY <1>2, EndedKeeps

LEMMA EndOfChainKeeps ==
  ASSUME GuardsIInv, EndOfChain
  PROVE  GuardsIInv'
<1>1. guarded \in Chain /\ guarded.outcome = Open
  BY DEF EndOfChain, Running, GuardsIInv, GuardsTypeOK
<1>2. PICK action : action = IF guarded.rewritten THEN "rewrite" ELSE "pass"
  OBVIOUS
<1>3. guarded' = Finish(guarded, action, guarded.content, guarded.hits) /\ action \in {"pass", "rewrite"}
  BY <1>2 DEF EndOfChain
<1>4. guarded.content \in Seq(GuardedWord)
  BY <1>1 DEF Chain, Texts
<1>5. CleanOf(guarded.pos, guarded.checked, IF action = "pass" THEN guarded.orig ELSE guarded.content)
  BY <1>1, <1>2 DEF GuardsIInv, ChainClean
<1>6. guarded' \in Chain /\ guarded'.outcome # Open /\ HoldsOf(guarded')
  BY <1>1, <1>3, <1>4, <1>5, PassedChain
<1> QED
  BY <1>6, EndedKeeps

LEMMA NothingToCheckKeeps ==
  ASSUME GuardsIInv, NothingToCheck
  PROVE  GuardsIInv'
<1>1. guarded \in Chain /\ guarded.outcome = Open
  BY DEF NothingToCheck, Running, GuardsIInv, GuardsTypeOK
<1>2. /\ guarded.hits = {} /\ ~guarded.rewritten /\ guarded.content = guarded.orig
      /\ CleanOf(guarded.pos, guarded.checked, guarded.content)
  BY <1>1 DEF NothingToCheck, GuardsIInv, ChainClean
<1>3. guarded' = Finish(guarded, "pass", <<>>, guarded.hits)
  BY <1>2 DEF NothingToCheck
<1>4. <<>> \in Seq(GuardedWord)
  OBVIOUS
<1>5. CleanOf(guarded.pos, guarded.checked, guarded.orig)
  BY <1>2
<1>6. guarded' \in Chain /\ guarded'.outcome # Open /\ HoldsOf(guarded')
  BY <1>1, <1>3, <1>4, <1>5, PassedChain
<1> QED
  BY <1>6, EndedKeeps

\* However many guards a chain has, in whatever order and with whatever limits,
\* what its caller uses has been through all of them (RunGuards), and a text
\* one of them refused is used only where finalizeRun and finalizeStream fall
\* back on the original answer.
THEOREM GuardChainsHold == GuardsSpec => []GuardsHold
<1>1. GuardsInit => GuardsIInv
  BY GuardsAssumption, GuardsInitIInv
<1>2. GuardsIInv /\ [GuardsStep]_guarded => GuardsIInv'
  <2> SUFFICES ASSUME GuardsIInv, [GuardsStep]_guarded
               PROVE  GuardsIInv'
    OBVIOUS
  <2>1. CASE \E g \in GuardKind : CheckNext(g)
    BY <2>1, GuardsAssumption, CheckNextKeeps
  <2>2. CASE CancelChain
    BY <2>2, CancelChainKeeps
  <2>3. CASE EndOfChain
    BY <2>3, EndOfChainKeeps
  <2>4. CASE NothingToCheck
    BY <2>4, NothingToCheckKeeps
  <2>5. CASE UNCHANGED guarded
    BY <2>5 DEF GuardsIInv, GuardsTypeOK, ChainClean, GuardsHold, CleanOf
  <2> QED
    BY <2>1, <2>2, <2>3, <2>4, <2>5 DEF GuardsStep
<1>3. GuardsIInv => GuardsHold
  BY DEF GuardsIInv
<1> QED
  BY <1>1, <1>2, <1>3, PTL DEF GuardsSpec

=============================================================================
