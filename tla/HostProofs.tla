----------------------------- MODULE HostProofs -----------------------------
(***************************************************************************)
(* Proofs about what a host keeps beside its agents: the store of          *)
(* asynchronous tasks for any number of requests and any capacity, the     *)
(* relay of a stream for any buffers and number of events, and the session *)
(* tree for any number of nodes, callers and background promotions.  The   *)
(* three share no variable; each has an inductive invariant of its own.    *)
(***************************************************************************)
EXTENDS MCHost, FiniteSetTheorems, SequenceTheorems, TLAPS

\* What is left of a sequence without its i-th entry.
LEMMA EntryRemoved ==
  ASSUME NEW S, NEW s \in Seq(S), NEW i \in DOMAIN s
  PROVE  /\ RemoveAt(s, i) \in Seq(S) /\ Len(RemoveAt(s, i)) = Len(s) - 1
         /\ \A j \in DOMAIN RemoveAt(s, i) :
              RemoveAt(s, i)[j] = IF j < i THEN s[j] ELSE s[j + 1]
<1> DEFINE p == SubSeq(s, 1, i - 1)
<1> DEFINE q == SubSeq(s, i + 1, Len(s))
<1>0. i \in Nat /\ i >= 1 /\ i <= Len(s) /\ Len(s) \in Nat
  OBVIOUS
<1>1. p \in Seq(S) /\ Len(p) = i - 1 /\ \A j \in 1..(i - 1) : p[j] = s[j]
  BY <1>0
<1>2. q \in Seq(S) /\ Len(q) = Len(s) - i /\ \A j \in 1..(Len(s) - i) : q[j] = s[i + j]
  BY <1>0
<1>3. RemoveAt(s, i) = p \o q
  BY DEF RemoveAt
<1> HIDE DEF p, q
<1>4. p \o q \in Seq(S) /\ Len(p \o q) = Len(s) - 1 /\ DOMAIN (p \o q) = 1..(Len(s) - 1)
  BY <1>0, <1>1, <1>2
<1>5. ASSUME NEW j \in 1..(Len(s) - 1) PROVE (p \o q)[j] = IF j < i THEN s[j] ELSE s[j + 1]
  <2>1. CASE j < i
    BY <1>0, <1>1, <1>2, <2>1
  <2>2. CASE ~(j < i)
    <3>1. j - (i - 1) \in 1..(Len(s) - i) /\ i + (j - (i - 1)) = j + 1
      BY <1>0, <2>2
    <3>2. (p \o q)[j] = q[j - (i - 1)]
      BY SMTT(40), <1>0, <1>1, <1>2, <2>2
    <3> QED BY <1>2, <2>2, <3>1, <3>2
  <2> QED BY <2>1, <2>2
<1> QED BY <1>3, <1>4, <1>5

\* A list without repetitions.
Distinct(s) == \A i, j \in DOMAIN s : s[i] = s[j] => i = j
Entries(s) == {s[i] : i \in DOMAIN s}

LEMMA DistinctRemoved ==
  ASSUME NEW S, NEW s \in Seq(S), Distinct(s), NEW i \in DOMAIN s
  PROVE  /\ Distinct(RemoveAt(s, i)) /\ Entries(RemoveAt(s, i)) = Entries(s) \ {s[i]}
<1> DEFINE r == RemoveAt(s, i)
<1>1. /\ r \in Seq(S) /\ Len(r) = Len(s) - 1 /\ i \in 1..Len(s)
      /\ \A j \in DOMAIN r : r[j] = IF j < i THEN s[j] ELSE s[j + 1]
  BY EntryRemoved
<1>2. DOMAIN r = 1..(Len(s) - 1) /\ DOMAIN s = 1..Len(s)
  BY <1>1
<1> HIDE DEF r
<1>3. Distinct(r)
  <2> SUFFICES ASSUME NEW j \in DOMAIN r, NEW k \in DOMAIN r, r[j] = r[k] PROVE j = k
    BY DEF Distinct
  <2>1. PICK a \in DOMAIN s : a = IF j < i THEN j ELSE j + 1
    BY <1>1, <1>2
  <2>2. PICK b \in DOMAIN s : b = IF k < i THEN k ELSE k + 1
    BY <1>1, <1>2
  <2>3. s[a] = s[b]
    BY <1>1, <2>1, <2>2
  <2>4. a = b
    BY <2>3 DEF Distinct
  <2> QED BY <1>1, <1>2, <2>1, <2>2, <2>4
<1>4. ASSUME NEW x \in Entries(r) PROVE x \in Entries(s) \ {s[i]}
  <2>1. PICK j \in DOMAIN r : x = r[j]
    BY <1>4 DEF Entries
  <2>2. PICK a \in DOMAIN s : a = IF j < i THEN j ELSE j + 1
    BY <1>1, <1>2
  <2>3. x = s[a] /\ a # i
    BY <1>1, <1>2, <2>1, <2>2
  <2> QED BY <2>3 DEF Entries, Distinct
<1>5. ASSUME NEW x \in Entries(s) \ {s[i]} PROVE x \in Entries(r)
  <2>1. PICK a \in DOMAIN s : x = s[a] /\ a # i
    BY <1>5 DEF Entries
  <2>2. PICK j \in DOMAIN r : a = IF j < i THEN j ELSE j + 1
    <3>1. CASE a < i
      <4>1. a \in DOMAIN r
        BY <1>1, <1>2, <3>1
      <4> QED BY <3>1, <4>1
    <3>2. CASE a > i
      <4>1. a - 1 \in DOMAIN r /\ ~(a - 1 < i) /\ a = (a - 1) + 1
        BY <1>1, <1>2, <3>2
      <4> QED BY <4>1
    <3> QED BY <1>1, <1>2, <2>1, <3>1, <3>2
  <2>3. r[j] = x
    BY <1>1, <2>1, <2>2
  <2> QED BY <2>3 DEF Entries
<1> QED BY <1>3, <1>4, <1>5 DEF r

LEMMA DistinctAppended ==
  ASSUME NEW S, NEW s \in Seq(S), Distinct(s), NEW x \in S, x \notin Entries(s)
  PROVE  /\ Append(s, x) \in Seq(S) /\ Distinct(Append(s, x))
         /\ Entries(Append(s, x)) = Entries(s) \cup {x}
<1> DEFINE t == Append(s, x)
<1>1. /\ t \in Seq(S) /\ DOMAIN t = DOMAIN s \cup {Len(s) + 1} /\ t[Len(s) + 1] = x
      /\ \A i \in DOMAIN s : t[i] = s[i]
  OBVIOUS
<1> HIDE DEF t
<1>2. Distinct(t)
  BY <1>1 DEF Distinct, Entries
<1>3. Entries(t) = Entries(s) \cup {x}
  BY <1>1 DEF Entries
<1> QED BY <1>1, <1>2, <1>3 DEF t

-----------------------------------------------------------------------------
\* Asynchronous tasks

TasksTyped ==
  /\ status \in [TaskId -> {"absent", "pending", "running"} \cup Finished]
  /\ worker \in [TaskId -> {"none", "spawned", "running", "returned", "done"}]
  /\ result \in [TaskId -> {"none", "ok", "error"}]
  /\ order \in Seq(TaskId)
  /\ ctxDone \in SUBSET TaskId /\ acked \in SUBSET TaskId

\* The order lists every task in the store once.
OrderLists == Distinct(order) /\ Entries(order) = Stored

\* A cancelled task was reported so, a result is there before it is stored,
\* and only a request that was taken on has a task.
TaskHistory ==
  \A id \in TaskId :
    /\ status[id] = "cancelled" => id \in acked
    /\ worker[id] = "returned" => result[id] # "none"
    /\ worker[id] = "none" => status[id] = "absent"

TasksIInv ==
  /\ TasksTyped
  /\ OrderLists
  /\ IsFiniteSet(Stored)
  /\ TaskHistory
  /\ TasksSound

LEMMA InitTasksIInv == Init => TasksIInv
<1> SUFFICES ASSUME Init PROVE TasksIInv
  OBVIOUS
<1>1. Stored = {} /\ DOMAIN order = {}
  BY DEF Init, Stored
<1>2. IsFiniteSet(Stored) /\ Cardinality(Stored) = 0
  BY <1>1, FS_EmptySet
<1>3. TasksTyped
  BY DEF Init, TasksTyped, Finished
<1>4. OrderLists
  BY <1>1 DEF OrderLists, Distinct, Entries
<1>5. TaskHistory
  BY DEF Init, TaskHistory
<1>6. TasksSound
  BY <1>2, TasksAssumption DEF Init, TasksAssumption, TasksSound, WorkStaysVisible, ReportsRun
<1> QED BY <1>2, <1>3, <1>4, <1>5, <1>6 DEF TasksIInv

\* The order without a task of the store.
LEMMA OrderWithout ==
  ASSUME TasksIInv, NEW id \in Stored
  PROVE  Without(id) \in Seq(TaskId) /\ Distinct(Without(id)) /\ Entries(Without(id)) = Stored \ {id}
<1>1. PICK i \in DOMAIN order : order[i] = id /\ Without(id) = RemoveAt(order, i)
  BY DEF Without, TasksIInv, OrderLists, Entries
<1> QED BY <1>1, EntryRemoved, DistinctRemoved DEF TasksIInv, TasksTyped, OrderLists

\* A store update moves the task to the end of the order.
LEMMA Updated ==
  ASSUME TasksIInv, NEW id \in TaskId, NEW s \in {"running"} \cup Finished, Update(id, s)
  PROVE  /\ status' \in [TaskId -> {"absent", "pending", "running"} \cup Finished]
         /\ order' \in Seq(TaskId) /\ Stored' = Stored /\ OrderLists'
         /\ status'[id] = IF id \in Stored THEN s ELSE status[id]
         /\ \A t \in TaskId : t # id => status'[t] = status[t]
<1>1. CASE id \in Stored
  <2>1. status' = [status EXCEPT ![id] = s] /\ order' = Append(Without(id), id)
    BY <1>1 DEF Update
  <2>2. status' \in [TaskId -> {"absent", "pending", "running"} \cup Finished]
    BY <2>1 DEF TasksIInv, TasksTyped
  <2>3. status'[id] = s /\ s # "absent" /\ \A t \in TaskId : t # id => status'[t] = status[t]
    BY <2>1 DEF TasksIInv, TasksTyped, Finished
  <2>4. Stored' = Stored
    BY <1>1, <2>3 DEF Stored
  <2>5. /\ order' \in Seq(TaskId) /\ Distinct(order') /\ Entries(order') = (Stored \ {id}) \cup {id}
    BY <1>1, <2>1, OrderWithout, DistinctAppended
  <2>6. OrderLists'
    BY <1>1, <2>4, <2>5 DEF OrderLists, Distinct, Entries
  <2> QED BY <1>1, <2>2, <2>3, <2>4, <2>5, <2>6
<1>2. CASE id \notin Stored
  <2>1. UNCHANGED <<status, order>>
    BY <1>2 DEF Update
  <2> QED BY <1>2, <2>1 DEF TasksIInv, TasksTyped, OrderLists, Stored, Distinct, Entries
<1> QED BY <1>1, <1>2

LEMMA SubmitStep ==
  ASSUME TasksIInv, NEW id \in TaskId, Submit(id)
  PROVE  TasksIInv'
<1> USE DEF TasksIInv
<1>1. worker[id] = "none" /\ status[id] = "absent" /\ id \notin Stored
  BY DEF Submit, TaskHistory, Stored
<1>2. UNCHANGED <<result, ctxDone, acked>> /\ worker' = [worker EXCEPT ![id] = "spawned"]
  BY DEF Submit
<1>3. Cardinality(Stored) \in Nat /\ MaxTasks \in Nat
  BY FS_CardinalityType, TasksAssumption DEF TasksAssumption
<1>4. ASSUME NEW e \in Evictable, Full,
             status' = [status EXCEPT ![e] = "absent", ![id] = "pending"], order' = Append(Without(e), id)
      PROVE  TasksIInv'
  <2>1. e \in Stored /\ status[e] \in Finished /\ e # id /\ e \in TaskId
    BY <1>1 DEF Evictable, TasksTyped, Stored, Finished
  <2>2. /\ status' \in [TaskId -> {"absent", "pending", "running"} \cup Finished]
        /\ status'[id] = "pending" /\ status'[e] = "absent"
        /\ \A t \in TaskId : t \notin {id, e} => status'[t] = status[t]
    BY <1>4, <2>1 DEF TasksTyped
  <2>3. Stored' = (Stored \ {e}) \cup {id}
    BY <2>1, <2>2 DEF Stored
  <2>4. order' \in Seq(TaskId) /\ Distinct(order') /\ Entries(order') = (Stored \ {e}) \cup {id}
    BY <1>1, <1>4, <2>1, OrderWithout, DistinctAppended
  <2>5. OrderLists'
    BY <2>3, <2>4 DEF OrderLists, Distinct, Entries
  <2>6. IsFiniteSet(Stored \ {e}) /\ Cardinality(Stored \ {e}) = Cardinality(Stored) - 1
    BY <2>1, FS_RemoveElement
  <2>7. IsFiniteSet(Stored') /\ Cardinality(Stored') = Cardinality(Stored)
    <3>1. PICK T : T = Stored \ {e}
      OBVIOUS
    <3>2. IsFiniteSet(T) /\ id \notin T /\ Cardinality(T) = Cardinality(Stored) - 1
      BY <1>1, <2>6, <3>1
    <3>3. IsFiniteSet(T \cup {id}) /\ Cardinality(T \cup {id}) = Cardinality(T) + 1
      BY <3>2, FS_AddElement
    <3> QED BY <1>3, <2>3, <3>1, <3>2, <3>3
  <2>8. TasksTyped'
    BY <1>2, <2>2, <2>4 DEF TasksTyped
  <2>9. TaskHistory'
    BY <1>1, <1>2, <2>2 DEF TaskHistory, TasksTyped
  <2>10. ReportsRun'
    BY <1>1, <1>2, <2>2 DEF ReportsRun, TasksSound, TasksTyped
  <2>11. WorkStaysVisible'
    <3>1. worker[e] = "done" \/ e \in acked
      BY <2>1 DEF Finished, TaskHistory, TasksSound, ReportsRun
    <3>2. \A t \in TaskId : (worker'[t] \in {"spawned", "running", "returned"} /\ t \notin acked') => t \in Stored'
      BY <1>2, <2>3, <3>1 DEF TasksSound, WorkStaysVisible, TasksTyped
    <3> QED BY <1>3, <2>7, <3>2 DEF TasksSound, WorkStaysVisible
  <2> QED BY <2>5, <2>7, <2>8, <2>9, <2>10, <2>11 DEF TasksSound
<1>5. ASSUME ~Full, status' = [status EXCEPT ![id] = "pending"], order' = Append(order, id)
      PROVE  TasksIInv'
  <2>1. /\ status' \in [TaskId -> {"absent", "pending", "running"} \cup Finished]
        /\ status'[id] = "pending" /\ \A t \in TaskId : t # id => status'[t] = status[t]
    BY <1>5 DEF TasksTyped
  <2>2. Stored' = Stored \cup {id}
    BY <2>1 DEF Stored
  <2>3. order' \in Seq(TaskId) /\ Distinct(order') /\ Entries(order') = Stored \cup {id}
    BY <1>1, <1>5, DistinctAppended DEF OrderLists, TasksTyped
  <2>4. OrderLists'
    BY <2>2, <2>3 DEF OrderLists, Distinct, Entries
  <2>5. IsFiniteSet(Stored') /\ Cardinality(Stored') = Cardinality(Stored) + 1
    BY <1>1, <2>2, FS_AddElement
  <2>6. TasksTyped'
    BY <1>2, <2>1, <2>3 DEF TasksTyped
  <2>7. TaskHistory'
    BY <1>1, <1>2, <2>1 DEF TaskHistory, TasksTyped
  <2>8. ReportsRun'
    BY <1>1, <1>2, <2>1 DEF ReportsRun, TasksSound, TasksTyped
  <2>9. WorkStaysVisible'
    <3>1. \A t \in TaskId : (worker'[t] \in {"spawned", "running", "returned"} /\ t \notin acked') => t \in Stored'
      BY <1>2, <2>2 DEF TasksSound, WorkStaysVisible, TasksTyped
    <3>2. MaxTasks > 0 => Cardinality(Stored') <= MaxTasks
      BY <1>3, <1>5, <2>5 DEF Full
    <3> QED BY <3>1, <3>2 DEF WorkStaysVisible
  <2> QED BY <2>4, <2>5, <2>6, <2>7, <2>8, <2>9 DEF TasksSound
<1> QED BY <1>4, <1>5 DEF Submit

\* The steps of a request's goroutine, and a cancellation.
LEMMA WorkStep ==
  ASSUME TasksIInv, NEW id \in TaskId, Work(id) \/ Cancel(id)
  PROVE  TasksIInv'
<1> USE DEF TasksIInv
<1>1. CASE Begin(id)
  <2>1. Update(id, "running") /\ worker[id] = "spawned" /\ worker' = [worker EXCEPT ![id] = "running"]
        /\ UNCHANGED <<result, ctxDone, acked>>
    BY <1>1 DEF Begin
  <2>2. /\ status' \in [TaskId -> {"absent", "pending", "running"} \cup Finished]
        /\ order' \in Seq(TaskId) /\ Stored' = Stored /\ OrderLists'
        /\ status'[id] \in {"running", "absent"} /\ \A t \in TaskId : t # id => status'[t] = status[t]
    BY <2>1, Updated DEF Stored
  <2>3. TasksTyped' /\ TaskHistory'
    BY <2>1, <2>2 DEF TasksTyped, TaskHistory
  <2>4. TasksSound'
    BY <2>1, <2>2 DEF TasksSound, WorkStaysVisible, ReportsRun, TasksTyped
  <2> QED BY <2>2, <2>3, <2>4
<1>2. ASSUME NEW r \in {"ok", "error"}, RunReturns(id, r) PROVE TasksIInv'
  <2>1. /\ worker[id] = "running" /\ worker' = [worker EXCEPT ![id] = "returned"]
        /\ result' = [result EXCEPT ![id] = r] /\ UNCHANGED <<status, order, ctxDone, acked>>
    BY <1>2 DEF RunReturns
  <2>2. Stored' = Stored /\ OrderLists'
    BY <2>1 DEF Stored, OrderLists, Distinct, Entries
  <2>3. TasksTyped' /\ TaskHistory'
    BY <2>1 DEF TasksTyped, TaskHistory
  <2>4. TasksSound'
    BY <2>1, <2>2 DEF TasksSound, WorkStaysVisible, ReportsRun, TasksTyped
  <2> QED BY <2>2, <2>3, <2>4
<1>3. CASE SetResult(id)
  <2>1. /\ worker[id] = "returned" /\ worker' = [worker EXCEPT ![id] = "done"]
        /\ ctxDone' = ctxDone \cup {id} /\ UNCHANGED <<result, acked>> /\ result[id] \in {"ok", "error"}
    BY <1>3 DEF SetResult, TaskHistory, TasksTyped
  <2>2. /\ status' \in [TaskId -> {"absent", "pending", "running"} \cup Finished]
        /\ order' \in Seq(TaskId) /\ Stored' = Stored /\ OrderLists'
        /\ \A t \in TaskId : t # id => status'[t] = status[t]
        /\ status'[id] \in {"absent", "cancelled", IF result[id] = "error" THEN "failed" ELSE "completed"}
        /\ status'[id] = "cancelled" => status[id] = "cancelled"
    <3>1. CASE status[id] = "cancelled"
      <4>1. UNCHANGED <<status, order>>
        BY <1>3, <3>1 DEF SetResult
      <4> QED BY <3>1, <4>1 DEF TasksTyped, OrderLists, Stored, Distinct, Entries
    <3>2. CASE status[id] # "cancelled"
      <4>1. PICK s \in {"failed", "completed"} : /\ s = IF result[id] = "error" THEN "failed" ELSE "completed"
                                                 /\ Update(id, s)
        BY <1>3, <3>2 DEF SetResult
      <4>2. s \in {"running"} \cup Finished
        BY DEF Finished
      <4> QED BY <3>2, <4>1, <4>2, Updated DEF Stored
    <3> QED BY <3>1, <3>2
  <2>3. TasksTyped' /\ TaskHistory'
    BY <2>1, <2>2 DEF TasksTyped, TaskHistory
  <2>4. TasksSound'
    BY <2>1, <2>2 DEF TasksSound, WorkStaysVisible, ReportsRun, TasksTyped
  <2> QED BY <2>2, <2>3, <2>4
<1>4. CASE Cancel(id)
  <2>1. /\ status[id] \in {"pending", "running"} /\ Update(id, "cancelled")
        /\ ctxDone' = ctxDone \cup {id} /\ acked' = acked \cup {id} /\ UNCHANGED <<worker, result>>
    BY <1>4 DEF Cancel
  <2>2. /\ status' \in [TaskId -> {"absent", "pending", "running"} \cup Finished]
        /\ order' \in Seq(TaskId) /\ Stored' = Stored /\ OrderLists'
        /\ status'[id] = "cancelled" /\ \A t \in TaskId : t # id => status'[t] = status[t]
    BY <2>1, Updated DEF Stored, Finished
  <2>3. TasksTyped' /\ TaskHistory'
    BY <2>1, <2>2 DEF TasksTyped, TaskHistory
  <2>4. TasksSound'
    BY <2>1, <2>2 DEF TasksSound, WorkStaysVisible, ReportsRun, TasksTyped
  <2> QED BY <2>2, <2>3, <2>4
<1> QED BY <1>1, <1>2, <1>3, <1>4 DEF Work

LEMMA NextTasksIInv == TasksIInv /\ [Next]_vars => TasksIInv'
<1>1. ASSUME TasksIInv, UNCHANGED vars PROVE TasksIInv'
  BY <1>1 DEF vars, TasksIInv, TasksTyped, OrderLists, Stored, Distinct, Entries, TaskHistory, TasksSound,
             WorkStaysVisible, ReportsRun
<1> QED BY <1>1, SubmitStep, WorkStep DEF Next

-----------------------------------------------------------------------------
\* The relay of a stream

RelayTyped ==
  /\ producer \in {"running", "ok", "failed"} /\ produced \in Nat /\ stream \in Seq(Nat)
  /\ forwarder \in {"recv", "send", "report", "ended"} /\ held \in Nat /\ events \in Seq(Nat)
  /\ handler \in {"new", "refused", "writing", "returned"} /\ written \in Seq(Nat)

\* The context of the relay ends with the request or with the handler.
RelayEnds ==
  /\ handler = "new" => ~relayDone
  /\ handler = "writing" /\ relayDone => requestDone
  /\ handler = "returned" => relayDone

\* The client was sent the error: everything is over.
ErrorWritten ==
  /\ \E n \in Nat : /\ Len(written) = n + 1 /\ written[n + 1] = ErrorItem /\ produced = n
                    /\ \A i \in 1..n : written[i] = i
  /\ forwarder = "ended" /\ events = <<>> /\ producer = "failed" /\ handler = "returned"

\* Number of events that are out of the forwarder's hands, when no error is.
Passed == Len(written) + Len(events)

ErrorQueued ==
  /\ events # <<>> /\ events[Len(events)] = ErrorItem /\ produced = Passed - 1
  /\ forwarder = "ended" /\ producer = "failed"

\* Before that, what was written, the channel, the forwarder and the stream
\* hold the events one after the other, up to the last one produced.
InOrder ==
  /\ \A i \in DOMAIN written : written[i] = i
  /\ \A i \in DOMAIN events : events[i] = Len(written) + i \/ (i = Len(events) /\ ErrorQueued)
  /\ forwarder = "recv" =>
       produced = Passed + Len(stream) /\ \A i \in DOMAIN stream : stream[i] = Passed + i
  /\ forwarder = "send" =>
       /\ produced = Passed + 1 + Len(stream) /\ held = Passed + 1
       /\ \A i \in DOMAIN stream : stream[i] = Passed + 1 + i
  /\ forwarder = "report" => produced = Passed /\ producer = "failed"
  /\ forwarder = "ended" =>
       ErrorQueued \/ (Passed <= produced /\ (relayDone \/ (producer = "ok" /\ produced = Passed)))
  /\ handler = "returned" /\ ~requestDone =>
       forwarder = "ended" /\ events = <<>> /\ producer = "ok" /\ produced = Passed

RelayIInv == RelayTyped /\ RelayEnds /\ (ErrorWritten \/ InOrder)

LEMMA InitRelayIInv == RelayInit => RelayIInv
<1> SUFFICES ASSUME RelayInit PROVE RelayIInv
  OBVIOUS
<1>1. RelayTyped
  BY DEF RelayInit, RelayTyped, ErrorItem
<1>2. InOrder
  BY DEF RelayInit, InOrder, Passed
<1> QED BY <1>1, <1>2 DEF RelayIInv, RelayInit, RelayEnds

LEMMA RelayComplete == RelayIInv => StreamComplete
<1> SUFFICES ASSUME RelayIInv PROVE StreamComplete
  OBVIOUS
<1>1. RelayTyped
  BY DEF RelayIInv
<1>2. CASE ErrorWritten
  <2>1. PICK n \in Nat : /\ Len(written) = n + 1 /\ written[n + 1] = 0 /\ produced = n
                         /\ \A i \in 1..n : written[i] = i
    BY <1>2 DEF ErrorWritten, ErrorItem
  <2> QED BY <1>2, <2>1 DEF StreamComplete, ErrorItem, ErrorWritten
<1>3. CASE InOrder
  <2>1. Len(written) \in Nat /\ Len(events) \in Nat /\ Passed = Len(written) + Len(events)
    BY <1>1 DEF RelayTyped, Passed
  <2>2. \A i \in 1..Len(written) : written[i] = i
    BY <1>1, <1>3 DEF InOrder, RelayTyped
  <2>3. ~(Len(written) > 0 /\ written[Len(written)] = ErrorItem)
    BY <2>1, <2>2 DEF ErrorItem
  <2>4. Len(written) <= produced
    <3>1. CASE forwarder = "ended"
      <4>1. CASE ErrorQueued
        BY <1>1, <2>1, <4>1 DEF ErrorQueued, RelayTyped
      <4>2. CASE Passed <= produced
        BY <1>1, <2>1, <4>2 DEF RelayTyped
      <4> QED BY <1>3, <3>1, <4>1, <4>2 DEF InOrder
    <3>2. CASE forwarder # "ended"
      BY <1>1, <1>3, <2>1, <3>2 DEF InOrder, RelayTyped
    <3> QED BY <3>1, <3>2
  <2>5. handler = "returned" /\ ~requestDone => Len(written) = produced /\ producer # "failed"
    BY <1>1, <1>3, <2>1 DEF InOrder, RelayTyped
  <2> QED BY <2>2, <2>3, <2>4, <2>5 DEF StreamComplete
<1> QED BY <1>2, <1>3 DEF RelayIInv

\* Heads and tails.
LEMMA HeadTail ==
  ASSUME NEW s \in Seq(Nat), s # <<>>
  PROVE  /\ Head(s) = s[1] /\ Head(s) \in Nat /\ Tail(s) \in Seq(Nat) /\ Len(Tail(s)) = Len(s) - 1
         /\ Len(s) \in Nat /\ Len(s) >= 1
         /\ \A i \in DOMAIN Tail(s) : Tail(s)[i] = s[i + 1] /\ i + 1 \in DOMAIN s /\ i \in Nat /\ i >= 1
OBVIOUS

LEMMA AppendNat ==
  ASSUME NEW s \in Seq(Nat), NEW x \in Nat
  PROVE  /\ Append(s, x) \in Seq(Nat) /\ Len(Append(s, x)) = Len(s) + 1 /\ Append(s, x)[Len(s) + 1] = x
         /\ DOMAIN Append(s, x) = DOMAIN s \cup {Len(s) + 1} /\ Append(s, x) # <<>>
         /\ \A i \in DOMAIN s : Append(s, x)[i] = s[i] /\ i # Len(s) + 1
         /\ Len(s) \in Nat
OBVIOUS

LEMMA ProduceStep ==
  ASSUME RelayIInv, Produce
  PROVE  RelayIInv'
<1> USE DEF RelayIInv
<1>0. /\ producer = "running" /\ produced' = produced + 1 /\ stream' = Append(stream, produced + 1)
      /\ UNCHANGED <<requestDone, relayDone, producer, forwarder, held, events, handler, written>>
  BY DEF Produce
<1>1. /\ produced \in Nat /\ produced + 1 \in Nat /\ Len(written) \in Nat /\ Len(events) \in Nat
      /\ Passed' = Passed /\ Passed \in Nat
  BY <1>0 DEF RelayTyped, Passed
<1>2. RelayTyped' /\ RelayEnds'
  BY <1>0, <1>1, AppendNat DEF RelayTyped, RelayEnds
<1>3. InOrder
  BY <1>0 DEF ErrorWritten
<1>4. ~ErrorQueued
  BY <1>0 DEF ErrorQueued
<1>5. \A i \in DOMAIN events : events[i] = Len(written) + i
  BY <1>3, <1>4 DEF InOrder
<1>6. /\ Len(stream') = Len(stream) + 1 /\ stream'[Len(stream) + 1] = produced + 1
      /\ DOMAIN stream' = DOMAIN stream \cup {Len(stream) + 1} /\ Len(stream) \in Nat
      /\ \A i \in DOMAIN stream : stream'[i] = stream[i]
  BY <1>0, <1>1, AppendNat DEF RelayTyped
<1>7. forwarder = "recv" =>
        produced' = Passed + Len(stream') /\ \A i \in DOMAIN stream' : stream'[i] = Passed + i
  BY <1>0, <1>1, <1>3, <1>6 DEF InOrder
<1>8. forwarder = "send" =>
        /\ produced' = Passed + 1 + Len(stream') /\ held = Passed + 1
        /\ \A i \in DOMAIN stream' : stream'[i] = Passed + 1 + i
  <2> SUFFICES ASSUME forwarder = "send"
               PROVE  /\ produced' = Passed + 1 + Len(stream') /\ held = Passed + 1
                      /\ \A i \in DOMAIN stream' : stream'[i] = Passed + 1 + i
    OBVIOUS
  <2>1. /\ produced = Passed + 1 + Len(stream) /\ held = Passed + 1
        /\ \A i \in DOMAIN stream : stream[i] = Passed + 1 + i
    BY <1>3 DEF InOrder
  <2>2. produced + 1 = Passed + 1 + (Len(stream) + 1)
    BY <1>1, <1>6, <2>1
  <2> QED BY <1>0, <1>6, <2>1, <2>2
<1>9. forwarder = "ended" => Passed <= produced' /\ relayDone
  BY <1>0, <1>1, <1>3, <1>4 DEF InOrder
<1>10. InOrder'
  BY <1>0, <1>1, <1>3, <1>5, <1>7, <1>8, <1>9 DEF InOrder
<1> QED BY <1>2, <1>10

LEMMA ProducerEndsStep ==
  ASSUME RelayIInv, ProducerEnds
  PROVE  RelayIInv'
<1> USE DEF RelayIInv
<1>0. /\ producer = "running" /\ producer' \in {"ok", "failed"}
      /\ UNCHANGED <<requestDone, relayDone, produced, stream, forwarder, held, events, handler, written>>
  BY DEF ProducerEnds
<1>1. RelayTyped' /\ RelayEnds' /\ Passed' = Passed
  BY <1>0 DEF RelayTyped, RelayEnds, Passed
<1>2. InOrder /\ ~ErrorQueued
  BY <1>0 DEF ErrorWritten, ErrorQueued
<1>3. InOrder'
  BY <1>0, <1>1, <1>2 DEF InOrder
<1> QED BY <1>1, <1>3

LEMMA ReceiveStep ==
  ASSUME RelayIInv, Receive
  PROVE  RelayIInv'
<1> USE DEF RelayIInv
<1>0. /\ forwarder = "recv" /\ forwarder' = "send" /\ stream # <<>> /\ held' = Head(stream) /\ stream' = Tail(stream)
      /\ UNCHANGED <<requestDone, relayDone, producer, produced, events, handler, written>>
  BY DEF Receive
<1>1. Len(written) \in Nat /\ Len(events) \in Nat /\ Passed' = Passed /\ Passed \in Nat
  BY <1>0 DEF RelayTyped, Passed
<1>2. /\ held' = stream[1] /\ held' \in Nat /\ stream' \in Seq(Nat) /\ Len(stream') = Len(stream) - 1
      /\ Len(stream) \in Nat /\ 1 \in DOMAIN stream
      /\ \A i \in DOMAIN stream' : stream'[i] = stream[i + 1] /\ i + 1 \in DOMAIN stream /\ i \in Nat
  BY <1>0, HeadTail DEF RelayTyped
<1>3. RelayTyped' /\ RelayEnds'
  BY <1>0, <1>2 DEF RelayTyped, RelayEnds
<1>4. InOrder /\ ~ErrorQueued
  BY <1>0 DEF ErrorWritten, ErrorQueued
<1>5. /\ produced = Passed + 1 + Len(stream') /\ held' = Passed + 1
      /\ \A i \in DOMAIN stream' : stream'[i] = Passed + 1 + i
  BY <1>0, <1>1, <1>2, <1>4 DEF InOrder
<1>6. \A i \in DOMAIN events : events[i] = Len(written) + i
  BY <1>4 DEF InOrder
<1>7. handler = "returned" => requestDone
  BY <1>0, <1>4 DEF InOrder
<1>8. InOrder'
  BY <1>0, <1>1, <1>4, <1>5, <1>6, <1>7 DEF InOrder
<1> QED BY <1>3, <1>8

LEMMA EndOfStreamStep ==
  ASSUME RelayIInv, EndOfStream
  PROVE  RelayIInv'
<1> USE DEF RelayIInv
<1>0. /\ forwarder = "recv"
      /\ \/ stream = <<>> /\ producer = "ok" /\ forwarder' = "ended"
         \/ stream = <<>> /\ producer = "failed" /\ ~relayDone /\ forwarder' = "report"
         \/ relayDone /\ forwarder' = "ended"
      /\ UNCHANGED <<requestDone, relayDone, producer, produced, stream, held, events, handler, written>>
  BY DEF EndOfStream
<1>1. Passed' = Passed /\ Passed \in Nat /\ Len(stream) \in Nat /\ (stream = <<>> => Len(stream) = 0)
  BY <1>0 DEF RelayTyped, Passed
<1>2. RelayTyped' /\ RelayEnds'
  BY <1>0 DEF RelayTyped, RelayEnds
<1>3. InOrder /\ ~ErrorQueued
  BY <1>0 DEF ErrorWritten, ErrorQueued
<1>4. /\ produced = Passed + Len(stream) /\ (handler = "returned" => requestDone)
      /\ \A i \in DOMAIN events : events[i] = Len(written) + i
  BY <1>0, <1>3 DEF InOrder
<1>5. Passed <= produced /\ (stream = <<>> => produced = Passed)
  BY <1>1, <1>4
<1>6. InOrder'
  BY <1>0, <1>1, <1>3, <1>4, <1>5 DEF InOrder
<1> QED BY <1>2, <1>6

LEMMA ForwardStep ==
  ASSUME RelayIInv, Forward
  PROVE  RelayIInv'
<1> USE DEF RelayIInv
<1>0. /\ forwarder \in {"send", "report"}
      /\ UNCHANGED <<requestDone, relayDone, producer, produced, stream, held, handler, written>>
  BY DEF Forward
<1>1. /\ Len(written) \in Nat /\ Len(events) \in Nat /\ Passed = Len(written) + Len(events)
      /\ Len(stream) \in Nat /\ produced \in Nat
  BY DEF RelayTyped, Passed
<1>2. InOrder /\ ~ErrorQueued
  BY <1>0 DEF ErrorWritten, ErrorQueued
<1>3. \A i \in DOMAIN events : events[i] = Len(written) + i
  BY <1>2 DEF InOrder
<1>4. handler = "returned" => requestDone
  BY <1>0, <1>2 DEF InOrder
<1>5. Passed <= produced
  BY <1>0, <1>1, <1>2 DEF InOrder
<1>6. CASE relayDone /\ forwarder' = "ended" /\ UNCHANGED events
  <2>1. RelayTyped' /\ RelayEnds' /\ Passed' = Passed
    BY <1>0, <1>6 DEF RelayTyped, RelayEnds, Passed
  <2>2. InOrder'
    BY <1>0, <1>2, <1>3, <1>4, <1>5, <1>6, <2>1 DEF InOrder
  <2> QED BY <2>1, <2>2
<1>7. CASE forwarder = "send" /\ events' = Append(events, held) /\ forwarder' = "recv"
  <2>1. /\ events' \in Seq(Nat) /\ Len(events') = Len(events) + 1 /\ events'[Len(events) + 1] = held
        /\ DOMAIN events' = DOMAIN events \cup {Len(events) + 1} /\ \A i \in DOMAIN events : events'[i] = events[i]
    BY <1>7, AppendNat DEF RelayTyped
  <2>2. RelayTyped' /\ RelayEnds' /\ Passed' = Passed + 1
    BY <1>0, <1>1, <1>7, <2>1 DEF RelayTyped, RelayEnds, Passed
  <2>3. \A i \in DOMAIN events' : events'[i] = Len(written) + i
    BY <1>1, <1>2, <1>3, <1>7, <2>1 DEF InOrder
  <2>4. produced = Passed + 1 + Len(stream) /\ \A i \in DOMAIN stream : stream[i] = Passed + 1 + i
    BY <1>2, <1>7 DEF InOrder
  <2>5. InOrder'
    BY <1>0, <1>2, <1>4, <1>7, <2>2, <2>3, <2>4 DEF InOrder
  <2> QED BY <2>2, <2>5
<1>8. CASE forwarder = "report" /\ events' = Append(events, ErrorItem) /\ forwarder' = "ended"
  <2>1. /\ events' \in Seq(Nat) /\ Len(events') = Len(events) + 1 /\ events'[Len(events) + 1] = ErrorItem
        /\ DOMAIN events' = DOMAIN events \cup {Len(events) + 1} /\ events' # <<>>
        /\ \A i \in DOMAIN events : events'[i] = events[i]
    BY <1>8, AppendNat DEF RelayTyped, ErrorItem
  <2>2. RelayTyped' /\ RelayEnds' /\ Passed' = Passed + 1
    BY <1>0, <1>1, <1>8, <2>1 DEF RelayTyped, RelayEnds, Passed
  <2>3. produced = Passed /\ producer = "failed"
    BY <1>2, <1>8 DEF InOrder
  <2>4. ErrorQueued'
    BY <1>0, <1>1, <1>8, <2>1, <2>2, <2>3 DEF ErrorQueued
  <2>5. InOrder'
    BY <1>0, <1>2, <1>3, <1>4, <1>8, <2>1, <2>4 DEF InOrder
  <2> QED BY <2>2, <2>5
<1> QED BY <1>0, <1>6, <1>7, <1>8 DEF Forward

LEMMA HandlerSteps ==
  ASSUME RelayIInv, StartStream \/ ClientLeaves
  PROVE  RelayIInv'
<1> USE DEF RelayIInv
<1>1. CASE ClientLeaves
  <2>1. /\ handler = "writing" /\ requestDone' = TRUE /\ relayDone' = TRUE
        /\ UNCHANGED <<producer, produced, stream, forwarder, held, events, handler, written>>
    BY <1>1 DEF ClientLeaves
  <2>2. RelayTyped' /\ RelayEnds' /\ Passed' = Passed /\ InOrder
    BY <2>1 DEF RelayTyped, RelayEnds, Passed, ErrorWritten
  <2>3. ErrorQueued' = ErrorQueued
    BY <2>1 DEF ErrorQueued, Passed
  <2>4. InOrder'
    BY <2>1, <2>2, <2>3 DEF InOrder
  <2> QED BY <2>2, <2>4
<1>2. CASE StartStream
  <2>1. /\ handler = "new" /\ UNCHANGED <<requestDone, produced, stream, held, events, written>>
        /\ \/ handler' = "writing" /\ UNCHANGED <<relayDone, producer, forwarder>>
           \/ handler' = "refused" /\ relayDone' = TRUE /\ producer' = "failed" /\ forwarder' = "ended"
    BY <1>2 DEF StartStream
  <2>2. /\ RelayTyped' /\ RelayEnds' /\ Passed' = Passed /\ InOrder /\ ~relayDone
        /\ Len(written) \in Nat /\ Len(events) \in Nat /\ Len(stream) \in Nat /\ produced \in Nat
        /\ Passed \in Nat
    BY <2>1 DEF RelayTyped, RelayEnds, Passed, ErrorWritten
  <2>3. CASE UNCHANGED <<relayDone, producer, forwarder>> /\ handler' = "writing"
    <3>1. ErrorQueued' = ErrorQueued
      BY <2>1, <2>3 DEF ErrorQueued, Passed
    <3>2. InOrder'
      BY <2>1, <2>2, <2>3, <3>1 DEF InOrder
    <3> QED BY <2>2, <3>2
  <2>4. CASE handler' = "refused" /\ relayDone' = TRUE /\ producer' = "failed" /\ forwarder' = "ended"
    <3>1. ErrorQueued => ErrorQueued'
      BY <2>1, <2>2, <2>4 DEF ErrorQueued
    <3>2. ErrorQueued \/ Passed <= produced
      BY <2>2 DEF InOrder, RelayTyped
    <3>3. InOrder'
      BY <2>1, <2>2, <2>4, <3>1, <3>2 DEF InOrder
    <3> QED BY <2>2, <3>3
  <2> QED BY <2>1, <2>3, <2>4
<1> QED BY <1>1, <1>2

LEMMA WriteItemStep ==
  ASSUME RelayIInv, WriteItem
  PROVE  RelayIInv'
<1> USE DEF RelayIInv
<1>0. /\ handler = "writing" /\ UNCHANGED <<requestDone, producer, produced, stream, forwarder, held>>
  BY DEF WriteItem
<1>1. /\ Len(written) \in Nat /\ Len(events) \in Nat /\ Passed = Len(written) + Len(events)
      /\ Len(stream) \in Nat /\ produced \in Nat /\ InOrder
  BY <1>0 DEF RelayTyped, Passed, ErrorWritten
<1>2. ASSUME events # <<>>, written' = Append(written, Head(events)), events' = Tail(events),
             IF Head(events) = ErrorItem THEN ReturnStream ELSE UNCHANGED <<handler, relayDone>>
      PROVE  RelayIInv'
  <2>1. /\ Head(events) = events[1] /\ Head(events) \in Nat /\ events' \in Seq(Nat) /\ 1 \in DOMAIN events
        /\ Len(events') = Len(events) - 1 /\ Len(events) >= 1
        /\ \A i \in DOMAIN events' : events'[i] = events[i + 1] /\ i + 1 \in DOMAIN events /\ i \in Nat /\ i >= 1
    BY <1>2, HeadTail DEF RelayTyped
  <2>2. /\ written' \in Seq(Nat) /\ Len(written') = Len(written) + 1
        /\ written'[Len(written) + 1] = Head(events)
        /\ DOMAIN written' = DOMAIN written \cup {Len(written) + 1}
        /\ \A i \in DOMAIN written : written'[i] = written[i]
    BY <1>2, <2>1, AppendNat DEF RelayTyped
  <2>3. Passed' = Passed
    BY <1>1, <2>1, <2>2 DEF Passed
  <2>4. RelayTyped' /\ RelayEnds'
    BY <1>0, <1>2, <2>1, <2>2 DEF RelayTyped, RelayEnds, ReturnStream
  <2>5. CASE Head(events) = ErrorItem
    <3>1. ErrorQueued /\ Len(events) = 1
      BY SMTT(40), <1>1, <2>1, <2>5 DEF InOrder, ErrorItem
    <3>2. events' = <<>> /\ produced = Len(written)
      BY <1>1, <2>1, <3>1 DEF ErrorQueued
    <3>3. \A i \in 1..Len(written) : written'[i] = i
      <4>1. DOMAIN written = 1..Len(written) /\ \A i \in DOMAIN written : written[i] = i
        BY <1>1 DEF InOrder, RelayTyped
      <4> QED BY <2>2, <4>1
    <3>4. ErrorWritten'
      BY <1>0, <1>1, <1>2, <2>2, <2>5, <3>1, <3>2, <3>3 DEF ErrorWritten, ErrorQueued, ReturnStream
    <3> QED BY <2>4, <3>4
  <2>6. CASE Head(events) # ErrorItem
    <3>1. UNCHANGED <<handler, relayDone>>
      BY <1>2, <2>6
    <3>2. Head(events) = Len(written) + 1
      <4>1. CASE Len(events) = 1
        BY <1>1, <2>1, <2>6, <4>1 DEF InOrder, ErrorQueued
      <4>2. CASE Len(events) # 1
        BY <1>1, <2>1, <4>2 DEF InOrder
      <4> QED BY <4>1, <4>2
    <3>3. \A i \in DOMAIN written' : written'[i] = i
      BY <1>1, <2>2, <3>2 DEF InOrder
    <3>4. ErrorQueued => ErrorQueued'
      <4> SUFFICES ASSUME ErrorQueued PROVE ErrorQueued'
        OBVIOUS
      <4>1. Len(events) > 1
        BY <1>1, <2>1, <2>6 DEF ErrorQueued
      <4>2. Len(events') \in DOMAIN events' /\ events' # <<>>
        BY <1>1, <2>1, <4>1
      <4>3. events'[Len(events')] = ErrorItem
        BY <1>1, <2>1, <4>2 DEF ErrorQueued
      <4> QED BY <1>0, <2>3, <4>2, <4>3 DEF ErrorQueued
    <3>5. \A i \in DOMAIN events' : events'[i] = Len(written') + i \/ (i = Len(events') /\ ErrorQueued')
      <4> TAKE i \in DOMAIN events'
      <4>1. events'[i] = events[i + 1] /\ i + 1 \in DOMAIN events /\ i \in Nat
        BY <2>1
      <4>2. events[i + 1] = Len(written) + (i + 1) \/ (i + 1 = Len(events) /\ ErrorQueued)
        BY <1>1, <4>1 DEF InOrder
      <4>3. CASE events[i + 1] = Len(written) + (i + 1)
        BY <1>1, <2>2, <4>1, <4>3
      <4>4. CASE i + 1 = Len(events) /\ ErrorQueued
        BY SMTT(40), <1>1, <2>1, <3>4, <4>1, <4>4
      <4> QED BY <4>2, <4>3, <4>4
    <3>6. InOrder'
      BY <1>0, <1>1, <2>3, <3>1, <3>3, <3>4, <3>5 DEF InOrder
    <3> QED BY <2>4, <3>6
  <2> QED BY <2>5, <2>6
<1>3. ASSUME ReturnStream, UNCHANGED <<events, written>>, relayDone \/ (events = <<>> /\ forwarder = "ended")
      PROVE  RelayIInv'
  <2>1. handler' = "returned" /\ relayDone' = TRUE
    BY <1>3 DEF ReturnStream
  <2>2. RelayTyped' /\ RelayEnds' /\ Passed' = Passed
    BY <1>0, <1>3, <2>1 DEF RelayTyped, RelayEnds, Passed
  <2>3. ErrorQueued' = ErrorQueued
    BY <1>0, <1>3 DEF ErrorQueued, Passed
  <2>4. ~requestDone => forwarder = "ended" /\ events = <<>> /\ producer = "ok" /\ produced = Passed
    <3> SUFFICES ASSUME ~requestDone PROVE forwarder = "ended" /\ events = <<>> /\ producer = "ok" /\ produced = Passed
      OBVIOUS
    <3>1. ~relayDone
      BY <1>0 DEF RelayEnds
    <3>2. events = <<>> /\ forwarder = "ended" /\ ~ErrorQueued
      BY <1>3, <3>1 DEF ErrorQueued
    <3> QED BY <1>1, <3>1, <3>2 DEF InOrder
  <2>5. InOrder'
    BY <1>0, <1>1, <1>3, <2>1, <2>2, <2>3, <2>4 DEF InOrder
  <2> QED BY <2>2, <2>5
<1> QED BY <1>2, <1>3 DEF WriteItem

LEMMA NextRelayIInv == RelayIInv /\ [RelayStep]_relayVars => RelayIInv'
<1>1. ASSUME RelayIInv, UNCHANGED relayVars PROVE RelayIInv'
  BY <1>1 DEF relayVars, RelayIInv, RelayTyped, RelayEnds, ErrorWritten, InOrder, ErrorQueued, Passed
<1> QED BY <1>1, ProduceStep, ProducerEndsStep, ReceiveStep, EndOfStreamStep, ForwardStep, HandlerSteps,
           WriteItemStep DEF RelayStep, RelayGoroutine

-----------------------------------------------------------------------------
\* The session tree

Goroutines == TreeCaller \cup TreeWorker

Process ==
  [ at : {"idle", "decide", "start", "gap"}, node : TreeNode \cup {NoNode},
    plan : SUBSET TreeNode, text : SUBSET Text, changed : SUBSET TreeNode ]

TreeTyped ==
  /\ Here \subseteq TreeNode
  /\ \A n \in Here : nodes[n] \in NodeRecord
  /\ rootId \in TreeNode \cup {NoNode}
  /\ nextId \in Nat

\* Ids are minted in order, and a child is listed once.
Skeleton ==
  /\ \A n \in Here : n < nextId /\ Distinct(nodes[n].children)
  /\ \A n \in Here \ {rootId} :
       /\ nodes[n].parent \in Here /\ nodes[n].depth = nodes[nodes[n].parent].depth + 1
       /\ n \in Entries(nodes[nodes[n].parent].children)
  /\ \A n \in Here : \A c \in Entries(nodes[n].children) : c \in Here /\ nodes[c].parent = n
  /\ Here # {} => rootId \in Here /\ nodes[rootId].parent = NoNode
  /\ cursor \in Here \cup {NoNode}

Bounded == IsFiniteSet(Here) /\ Cardinality(Here) <= TreeMaxNodes

\* Each background promotion holds the reservation of its parent alone.
Busy(w) == proc[w].at # "idle"
Reservations ==
  /\ \A w \in TreeWorker : Busy(w) => proc[w].node \in inflight
  /\ \A v, w \in TreeWorker : Busy(v) /\ Busy(w) /\ proc[v].node = proc[w].node => v = w
  /\ \A p \in inflight : \E w \in TreeWorker : Busy(w) /\ proc[w].node = p

\* The text of a promotion covers every child of its plan.
PlanCovered ==
  \A x \in Goroutines : proc[x].at = "gap" =>
    \A c \in proc[x].plan : \E r \in Nat : <<c, r>> \in proc[x].text

\* A text in the making is of what its children say, but for those updated
\* since.  (No id below nextId is given to a new node.)
TextsRead ==
  \A x \in Goroutines : proc[x].at = "gap" =>
    \A c \in proc[x].plan :
      c < nextId /\ (c \in Here \ proc[x].changed => <<c, nodes[c].rev>> \in proc[x].text)

ProcsOK ==
  /\ proc \in [Goroutines -> Process] /\ inflight \in SUBSET TreeNode
  /\ Reservations
  /\ PlanCovered

TreeIInv ==
  /\ TreeTyped /\ Skeleton /\ Bounded
  /\ ProcsOK
  /\ updates \in 0..MaxUpdates

LEMMA ListedOnce ==
  ASSUME NEW S, NEW s \in Seq(S), Distinct(s), NEW x \in Entries(s)
  PROVE  Cardinality({i \in DOMAIN s : s[i] = x}) = 1
<1>1. PICK i \in DOMAIN s : s[i] = x
  BY DEF Entries
<1>2. {j \in DOMAIN s : s[j] = x} = {i}
  BY <1>1 DEF Distinct
<1> QED BY <1>2, FS_Singleton

LEMMA TreeIInvSound == TreeIInv => TreeTypeOK /\ TreeSound
<1> SUFFICES ASSUME TreeIInv PROVE TreeTypeOK /\ TreeSound
  OBVIOUS
<1> USE DEF TreeIInv
<1>1. TreeTypeOK
  BY DEF TreeTypeOK, TreeTyped, ProcsOK, Goroutines, Process, Skeleton
<1>2. TreeShape
  <2>1. ASSUME NEW n \in Here \ {rootId}
        PROVE  LET p == nodes[n].parent IN
               /\ p \in Here /\ nodes[n].depth = nodes[p].depth + 1
               /\ Cardinality({i \in DOMAIN nodes[p].children : nodes[p].children[i] = n}) = 1
    <3>1. PICK p \in Here : p = nodes[n].parent
      BY DEF Skeleton
    <3>2. nodes[p].children \in Seq(TreeNode)
      BY DEF TreeTyped, NodeRecord
    <3>3. Distinct(nodes[p].children) /\ n \in Entries(nodes[p].children) /\ nodes[n].depth = nodes[p].depth + 1
      BY <3>1 DEF Skeleton
    <3>4. Cardinality({i \in DOMAIN nodes[p].children : nodes[p].children[i] = n}) = 1
      BY <3>2, <3>3, ListedOnce
    <3> QED BY <3>1, <3>3, <3>4
  <2>2. \A n \in Here : ChildrenOf(n) = Entries(nodes[n].children)
    BY DEF ChildrenOf, Entries
  <2> QED BY <2>1, <2>2 DEF TreeShape, Skeleton, Bounded
<1>3. InflightExact
  <2> SUFFICES ASSUME NEW p \in TreeNode
               PROVE  Cardinality({w \in TreeWorker : proc[w].at # "idle" /\ proc[w].node = p})
                        = IF p \in inflight THEN 1 ELSE 0
    BY DEF InflightExact
  <2>1. CASE p \in inflight
    <3>1. PICK w \in TreeWorker : Busy(w) /\ proc[w].node = p
      BY <2>1 DEF ProcsOK, Reservations
    <3>2. {v \in TreeWorker : proc[v].at # "idle" /\ proc[v].node = p} = {w}
      BY <3>1 DEF ProcsOK, Reservations, Busy
    <3> QED BY <2>1, <3>2, FS_Singleton
  <2>2. CASE p \notin inflight
    <3>1. {v \in TreeWorker : proc[v].at # "idle" /\ proc[v].node = p} = {}
      BY <2>2 DEF ProcsOK, Reservations, Busy
    <3> QED BY <2>2, <3>1, FS_EmptySet
  <2> QED BY <2>1, <2>2
<1> QED BY <1>1, <1>2, <1>3 DEF TreeSound

LEMMA InitTreeIInv == TreeInit => TreeIInv
<1> SUFFICES ASSUME TreeInit PROVE TreeIInv
  OBVIOUS
<1>1. Here = {}
  BY DEF TreeInit, Here
<1>2. TreeTyped /\ Skeleton
  BY <1>1 DEF TreeInit, TreeTyped, Skeleton
<1>3. Bounded
  BY <1>1, FS_EmptySet, TreeAssumption DEF TreeAssumption, Bounded
<1>4. Idle \in Process /\ Idle.at = "idle"
  BY DEF Idle, Process
<1>5. proc = [x \in Goroutines |-> Idle] /\ inflight = {}
  BY DEF TreeInit, Goroutines
<1>6. ProcsOK
  BY <1>4, <1>5 DEF ProcsOK, Reservations, PlanCovered, Busy, Goroutines
<1>7. updates \in 0..MaxUpdates
  BY TreeAssumption DEF TreeAssumption, TreeInit
<1> QED BY <1>2, <1>3, <1>6, <1>7 DEF TreeIInv

\* What the goroutines do.

LEMMA ProcsStay ==
  ASSUME ProcsOK, UNCHANGED <<proc, inflight>>
  PROVE  ProcsOK'
BY DEF ProcsOK, Reservations, PlanCovered, Busy

LEMMA CallerBecomes ==
  ASSUME ProcsOK, NEW c \in TreeCaller, NEW v \in Process, Become(c, v), UNCHANGED inflight,
         v.at = "gap" => \A n \in v.plan : \E r \in Nat : <<n, r>> \in v.text
  PROVE  ProcsOK'
<1>1. proc' = [proc EXCEPT ![c] = v] /\ c \in Goroutines /\ c \notin TreeWorker
  BY TreeAssumption DEF TreeAssumption, Become, Goroutines
<1>2. proc' \in [Goroutines -> Process] /\ proc'[c] = v /\ \A x \in Goroutines : x # c => proc'[x] = proc[x]
  BY <1>1 DEF ProcsOK
<1>3. \A w \in TreeWorker : proc'[w] = proc[w]
  BY <1>1, <1>2 DEF Goroutines
<1>4. Reservations'
  BY <1>3 DEF ProcsOK, Reservations, Busy
<1>5. PlanCovered'
  BY <1>2 DEF ProcsOK, PlanCovered
<1> QED BY <1>2, <1>4, <1>5 DEF ProcsOK

LEMMA PromotionEnds ==
  ASSUME ProcsOK, NEW x \in Goroutines, x \in TreeWorker => Busy(x), EndPromotion(x)
  PROVE  ProcsOK'
<1>1. Idle \in Process /\ Idle.at = "idle"
  BY DEF Idle, Process
<1>2. CASE x \in TreeCaller
  <2>1. UNCHANGED inflight /\ Become(x, Idle)
    BY <1>2, TreeAssumption DEF TreeAssumption, EndPromotion
  <2> QED BY <1>1, <1>2, <2>1, CallerBecomes
<1>3. CASE x \in TreeWorker
  <2>1. proc' = [proc EXCEPT ![x] = Idle] /\ inflight' = inflight \ {proc[x].node}
    BY <1>3 DEF EndPromotion, Become
  <2>2. proc' \in [Goroutines -> Process] /\ proc'[x] = Idle /\ \A y \in Goroutines : y # x => proc'[y] = proc[y]
    BY <1>1, <2>1 DEF ProcsOK
  <2>3. \A w \in TreeWorker : w # x => proc'[w] = proc[w]
    BY <2>2 DEF Goroutines
  <2>4. Reservations'
    <3>1. \A w \in TreeWorker : Busy(w)' => w # x /\ Busy(w) /\ proc'[w] = proc[w]
      BY <1>1, <2>2, <2>3 DEF Busy
    <3>2. \A w \in TreeWorker : Busy(w)' => proc'[w].node \in inflight'
      BY <1>3, <2>1, <3>1 DEF ProcsOK, Reservations
    <3>3. \A v, w \in TreeWorker : Busy(v)' /\ Busy(w)' /\ proc'[v].node = proc'[w].node => v = w
      BY <3>1 DEF ProcsOK, Reservations
    <3>4. ASSUME NEW p \in inflight' PROVE \E w \in TreeWorker : Busy(w)' /\ proc'[w].node = p
      <4>1. PICK w \in TreeWorker : Busy(w) /\ proc[w].node = p
        BY <2>1, <3>4 DEF ProcsOK, Reservations
      <4>2. w # x
        BY <2>1, <3>4, <4>1
      <4> QED BY <2>3, <4>1, <4>2 DEF Busy
    <3> QED BY <3>2, <3>3, <3>4 DEF Reservations
  <2>5. PlanCovered'
    BY <1>1, <2>2 DEF ProcsOK, PlanCovered
  <2>6. inflight' \in SUBSET TreeNode
    BY <2>1 DEF ProcsOK
  <2> QED BY <2>2, <2>4, <2>5, <2>6 DEF ProcsOK
<1> QED BY <1>2, <1>3 DEF Goroutines

LEMMA DecideStep ==
  ASSUME TreeIInv, NEW c \in TreeCaller, Decide(c)
  PROVE  TreeIInv'
<1> USE DEF TreeIInv
<1>0. UNCHANGED <<nodes, rootId, cursor, nextId, updates>>
  BY DEF Decide, shape
<1>1. TreeTyped' /\ Skeleton' /\ Bounded'
  BY <1>0 DEF TreeTyped, Skeleton, Bounded, Here
<1>2. Idle \in Process /\ Idle.at = "idle"
  BY DEF Idle, Process
<1>3. CASE Become(c, Idle) /\ UNCHANGED inflight
  BY <1>0, <1>1, <1>2, <1>3, CallerBecomes
<1>4. ASSUME NEW p, p \in Here, Reserve(p), inflight' = inflight \cup {p}, IdleWorkers # {},
             proc' = [proc EXCEPT ![c] = Idle,
                                  ![CHOOSE w \in IdleWorkers : TRUE] = [Idle EXCEPT !.at = "start", !.node = p]]
      PROVE  ProcsOK'
  <2>1. PICK w \in IdleWorkers : w = CHOOSE v \in IdleWorkers : TRUE
    BY <1>4
  <2>2. w \in TreeWorker /\ ~Busy(w) /\ w # c /\ w \in Goroutines /\ c \in Goroutines /\ c \notin TreeWorker
    BY TreeAssumption DEF TreeAssumption, IdleWorkers, Busy, Goroutines
  <2>3. PICK s : s = [Idle EXCEPT !.at = "start", !.node = p]
    OBVIOUS
  <2>4. s \in Process /\ s.at = "start" /\ s.node = p /\ p \in TreeNode
    BY <1>4, <2>3 DEF Idle, Process, TreeTyped
  <2>5. proc' = [proc EXCEPT ![c] = Idle, ![w] = s]
    BY <1>4, <2>1, <2>3
  <2>6. proc' \in [Goroutines -> Process] /\ proc'[w] = s /\ proc'[c] = Idle
        /\ \A x \in Goroutines : x \notin {c, w} => proc'[x] = proc[x]
    BY <1>2, <2>2, <2>4, <2>5 DEF ProcsOK
  <2>7. \A v \in TreeWorker : v # w => proc'[v] = proc[v]
    BY <2>2, <2>6 DEF Goroutines
  <2>8. p \notin inflight
    BY <1>4 DEF Reserve
  <2>9. Reservations'
    <3>1. \A v \in TreeWorker : Busy(v)' => v = w \/ (v # w /\ Busy(v) /\ proc'[v] = proc[v] /\ proc[v].node # p)
      BY <2>7, <2>8 DEF Busy, ProcsOK, Reservations
    <3>2. \A v \in TreeWorker : Busy(v)' => proc'[v].node \in inflight'
      <4>1. p \in inflight' /\ inflight \subseteq inflight'
        BY <1>4
      <4> QED BY <2>4, <2>6, <3>1, <4>1 DEF ProcsOK, Reservations
    <3>3. \A u, v \in TreeWorker : Busy(u)' /\ Busy(v)' /\ proc'[u].node = proc'[v].node => u = v
      BY <2>4, <2>6, <3>1 DEF ProcsOK, Reservations
    <3>4. ASSUME NEW q \in inflight' PROVE \E v \in TreeWorker : Busy(v)' /\ proc'[v].node = q
      <4>1. CASE q = p
        BY <2>2, <2>4, <2>6, <4>1 DEF Busy
      <4>2. CASE q \in inflight
        <5>1. PICK v \in TreeWorker : Busy(v) /\ proc[v].node = q
          BY <4>2 DEF ProcsOK, Reservations
        <5>2. v # w
          BY <2>2, <5>1
        <5> QED BY <2>7, <5>1, <5>2 DEF Busy
      <4> QED BY <1>4, <3>4, <4>1, <4>2
    <3> QED BY <3>2, <3>3, <3>4 DEF Reservations
  <2>10. PlanCovered'
    BY <1>2, <2>4, <2>6 DEF ProcsOK, PlanCovered
  <2>11. inflight' \in SUBSET TreeNode
    BY <1>4, <2>4 DEF ProcsOK
  <2> QED BY <2>6, <2>9, <2>10, <2>11 DEF ProcsOK
<1>5. ProcsOK'
  BY <1>2, <1>3, <1>4, CallerBecomes DEF Decide
<1> QED BY <1>0, <1>1, <1>5

LEMMA SnapshotStep ==
  ASSUME TreeIInv, NEW x \in Goroutines, NEW p \in TreeNode, Snapshot(x, p)
  PROVE  TreeIInv'
<1> USE DEF TreeIInv
<1>0. UNCHANGED <<nodes, rootId, cursor, nextId, updates>>
  BY DEF Snapshot, shape
<1>1. TreeTyped' /\ Skeleton' /\ Bounded'
  BY <1>0 DEF TreeTyped, Skeleton, Bounded, Here
<1>2. x \in TreeWorker => Busy(x) /\ proc[x].node = p /\ x \notin TreeCaller
  BY TreeAssumption DEF TreeAssumption, Snapshot, Free, Busy
<1>3. CASE EndPromotion(x)
  BY <1>0, <1>1, <1>2, <1>3, PromotionEnds
<1>4. ASSUME p \in Here, UNCHANGED inflight,
             Become(x, [ at |-> "gap", node |-> p, plan |-> EligibleChildren(p),
                         text |-> nodes[p].summary \cup {<<c, nodes[c].rev>> : c \in EligibleChildren(p)},
                         changed |-> {} ])
      PROVE  ProcsOK'
  <2> DEFINE v == [ at |-> "gap", node |-> p, plan |-> EligibleChildren(p),
                    text |-> nodes[p].summary \cup {<<c, nodes[c].rev>> : c \in EligibleChildren(p)},
                    changed |-> {} ]
  <2>1. EligibleChildren(p) \subseteq Here
    BY DEF EligibleChildren
  <2>2. \A c \in EligibleChildren(p) : c \in TreeNode /\ nodes[c].rev \in Nat
    BY <2>1 DEF TreeTyped, NodeRecord
  <2>3. nodes[p].summary \subseteq Text
    BY <1>4 DEF TreeTyped, NodeRecord
  <2>4. {<<c, nodes[c].rev>> : c \in EligibleChildren(p)} \subseteq Text
    BY <2>2 DEF Text
  <2>5. v \in Process /\ v.at = "gap" /\ v.node = p
    BY <2>2, <2>3, <2>4 DEF Process
  <2>6. \A n \in v.plan : \E r \in Nat : <<n, r>> \in v.text
    BY <2>2
  <2>7. Become(x, v)
    BY <1>4
  <2> HIDE DEF v
  <2>8. CASE x \in TreeCaller
    BY <1>4, <2>5, <2>6, <2>7, <2>8, CallerBecomes
  <2>9. CASE x \in TreeWorker
    <3>1. proc' = [proc EXCEPT ![x] = v]
      BY <2>7 DEF Become
    <3>2. proc' \in [Goroutines -> Process] /\ proc'[x] = v /\ \A y \in Goroutines : y # x => proc'[y] = proc[y]
      BY <2>5, <3>1 DEF ProcsOK
    <3>3. \A w \in TreeWorker : (Busy(w)' <=> Busy(w)) /\ (Busy(w) => proc'[w].node = proc[w].node)
      BY <1>2, <2>5, <2>9, <3>2 DEF Busy, Goroutines
    <3>4. Reservations'
      BY <1>4, <3>3 DEF ProcsOK, Reservations
    <3>5. PlanCovered'
      BY <2>6, <3>2 DEF ProcsOK, PlanCovered
    <3> QED BY <1>4, <3>2, <3>4, <3>5 DEF ProcsOK
  <2> QED BY <2>8, <2>9 DEF Goroutines
<1>5. EndPromotion(x) \/ ProcsOK'
  BY <1>4 DEF Snapshot
<1> QED BY <1>0, <1>1, <1>3, <1>5

LEMMA FailsStep ==
  ASSUME TreeIInv, NEW x \in Goroutines, PromotionFails(x)
  PROVE  TreeIInv'
<1> USE DEF TreeIInv
<1>0. UNCHANGED <<nodes, rootId, cursor, nextId, updates>> /\ Busy(x) /\ EndPromotion(x)
  BY DEF PromotionFails, shape, Busy
<1>1. TreeTyped' /\ Skeleton' /\ Bounded'
  BY <1>0 DEF TreeTyped, Skeleton, Bounded, Here
<1> QED BY <1>0, <1>1, PromotionEnds

\* What happens to the nodes.

\* Steps that leave parents, children and depths alone.
LEMMA SkeletonKept ==
  ASSUME Skeleton, Bounded, DOMAIN nodes' = DOMAIN nodes,
         \A n \in Here : /\ nodes'[n].parent = nodes[n].parent /\ nodes'[n].children = nodes[n].children
                         /\ nodes'[n].depth = nodes[n].depth,
         UNCHANGED <<rootId, nextId>>, cursor' \in Here \cup {NoNode}
  PROVE  Skeleton' /\ Bounded'
<1>1. Here' = Here
  BY DEF Here
<1>2. Bounded'
  BY <1>1 DEF Bounded
<1>3. \A n \in Here : n < nextId' /\ Distinct(nodes'[n].children)
  BY DEF Skeleton
<1>4. \A n \in Here \ {rootId} :
        /\ nodes'[n].parent \in Here /\ nodes'[n].depth = nodes'[nodes'[n].parent].depth + 1
        /\ n \in Entries(nodes'[nodes'[n].parent].children)
  BY DEF Skeleton
<1>5. \A n \in Here : \A c \in Entries(nodes'[n].children) : c \in Here /\ nodes'[c].parent = n
  BY DEF Skeleton
<1>6. Here # {} => rootId \in Here /\ nodes'[rootId].parent = NoNode
  BY DEF Skeleton
<1> QED BY <1>1, <1>2, <1>3, <1>4, <1>5, <1>6 DEF Skeleton

\* An update leaves every other goroutine its plan and its text.
LEMMA OthersOutdated ==
  ASSUME ProcsOK, NEW c \in Goroutines, NEW n \in TreeNode, NEW v \in Process,
         proc' = [Outdated(n) EXCEPT ![c] = v]
  PROVE  /\ proc' \in [Goroutines -> Process] /\ proc'[c] = v
         /\ \A x \in Goroutines : x # c =>
              /\ proc'[x].at = proc[x].at /\ proc'[x].node = proc[x].node
              /\ proc'[x].plan = proc[x].plan /\ proc'[x].text = proc[x].text
              /\ proc'[x].changed = proc[x].changed \cup (IF n \in proc[x].plan THEN {n} ELSE {})
<1>1. PICK f : f = Outdated(n)
  OBVIOUS
<1>2. DOMAIN f = Goroutines
  BY <1>1 DEF Outdated, ProcsOK
<1>3. ASSUME NEW x \in Goroutines
      PROVE  /\ f[x] \in Process
             /\ f[x].at = proc[x].at /\ f[x].node = proc[x].node
             /\ f[x].plan = proc[x].plan /\ f[x].text = proc[x].text
             /\ f[x].changed = proc[x].changed \cup (IF n \in proc[x].plan THEN {n} ELSE {})
  <2>1. proc[x] \in Process
    BY DEF ProcsOK
  <2>2. f[x] = IF n \in proc[x].plan THEN [proc[x] EXCEPT !.changed = @ \cup {n}] ELSE proc[x]
    BY <1>1 DEF Outdated, ProcsOK
  <2>3. CASE n \in proc[x].plan
    BY <2>1, <2>2, <2>3 DEF Process
  <2>4. CASE n \notin proc[x].plan
    BY <2>1, <2>2, <2>4 DEF Process
  <2> QED BY <2>3, <2>4
<1>4. f = [x \in Goroutines |-> f[x]]
  BY <1>1, <1>2 DEF Outdated
<1>5. f \in [Goroutines -> Process]
  BY <1>3, <1>4
<1>6. proc' = [f EXCEPT ![c] = v]
  BY <1>1
<1>7. proc' \in [Goroutines -> Process] /\ proc'[c] = v /\ \A x \in Goroutines : x # c => proc'[x] = f[x]
  BY <1>5, <1>6
<1> QED BY <1>3, <1>7

LEMMA UpdaterGoesOn ==
  ASSUME TreeIInv, NEW c \in TreeCaller, NEW n \in TreeNode, NEW pinned \in BOOLEAN, NEW promoted \in BOOLEAN,
         UpdateNode(c, n, pinned, promoted)
  PROVE  \E v \in Process : v.at # "gap" /\ proc' = [Outdated(n) EXCEPT ![c] = v]
<1>1. Idle \in Process /\ Idle.at = "idle"
  BY DEF Idle, Process
<1>2. PICK s : s = [Idle EXCEPT !.at = "decide", !.node = nodes[n].parent]
  OBVIOUS
<1>3. nodes[n] \in NodeRecord
  BY DEF TreeIInv, TreeTyped, UpdateNode
<1>4. s \in Process /\ s.at = "decide"
  BY <1>2, <1>3 DEF Idle, Process, NodeRecord
<1>5. PICK v \in {Idle, s} : proc' = [Outdated(n) EXCEPT ![c] = v]
  BY <1>2 DEF UpdateNode
<1> QED BY <1>1, <1>4, <1>5

LEMMA UpdaterBecomes ==
  ASSUME ProcsOK, NEW c \in TreeCaller, NEW n \in TreeNode, NEW v \in Process, v.at # "gap",
         proc' = [Outdated(n) EXCEPT ![c] = v], UNCHANGED inflight
  PROVE  ProcsOK'
<1>1. c \in Goroutines /\ c \notin TreeWorker
  BY TreeAssumption DEF TreeAssumption, Goroutines
<1>2. /\ proc' \in [Goroutines -> Process] /\ proc'[c] = v
      /\ \A x \in Goroutines : x # c =>
           /\ proc'[x].at = proc[x].at /\ proc'[x].node = proc[x].node
           /\ proc'[x].plan = proc[x].plan /\ proc'[x].text = proc[x].text
  BY <1>1, OthersOutdated
<1>3. \A w \in TreeWorker : (Busy(w)' <=> Busy(w)) /\ proc'[w].node = proc[w].node
  BY <1>1, <1>2 DEF Goroutines, Busy
<1>4. Reservations'
  BY <1>3 DEF ProcsOK, Reservations
<1>5. PlanCovered'
  BY <1>2 DEF ProcsOK, PlanCovered
<1> QED BY <1>2, <1>4, <1>5 DEF ProcsOK

LEMMA UpdateNodeStep ==
  ASSUME TreeIInv, NEW c \in TreeCaller, NEW n \in TreeNode, NEW pinned \in BOOLEAN, NEW promoted \in BOOLEAN,
         UpdateNode(c, n, pinned, promoted)
  PROVE  TreeIInv'
<1> USE DEF TreeIInv
<1>0. n \in Here /\ nodes[n] \in NodeRecord /\ UNCHANGED <<rootId, cursor, nextId, inflight>> /\ updates < MaxUpdates
      /\ updates' = updates + 1
  BY DEF UpdateNode, TreeTyped
<1>1. PICK v : v = [nodes[n] EXCEPT !.pinned = pinned, !.promoted = promoted, !.summary = {}, !.rev = @ + 1]
  OBVIOUS
<1>2. /\ v \in NodeRecord /\ v.parent = nodes[n].parent /\ v.children = nodes[n].children /\ v.depth = nodes[n].depth
  <2>1. PICK r \in Nat : r = nodes[n].rev + 1
    BY <1>0 DEF NodeRecord
  <2>2. v = [ parent |-> nodes[n].parent, children |-> nodes[n].children, depth |-> nodes[n].depth,
              pinned |-> pinned, promoted |-> promoted, summary |-> {}, rev |-> r ]
    <3>1. nodes[n] = [ parent |-> nodes[n].parent, children |-> nodes[n].children, depth |-> nodes[n].depth,
                       pinned |-> nodes[n].pinned, promoted |-> nodes[n].promoted,
                       summary |-> nodes[n].summary, rev |-> nodes[n].rev ]
      BY <1>0 DEF NodeRecord
    <3>2. v = [nodes[n] EXCEPT !.pinned = pinned, !.promoted = promoted, !.summary = {}, !.rev = r]
      BY <1>1, <2>1
    <3> QED BY <3>1, <3>2
  <2>3. /\ nodes[n].parent \in TreeNode \cup {NoNode} /\ nodes[n].children \in Seq(TreeNode)
        /\ nodes[n].depth \in Nat /\ {} \in SUBSET Text
    BY <1>0 DEF NodeRecord
  <2> QED BY <2>2, <2>3 DEF NodeRecord
<1>3. nodes' = [nodes EXCEPT ![n] = v]
  BY <1>0, <1>1 DEF UpdateNode
<1>4. DOMAIN nodes' = DOMAIN nodes /\ nodes'[n] = v /\ \A m \in Here : m # n => nodes'[m] = nodes[m]
  BY <1>0, <1>3 DEF Here
<1>5. TreeTyped'
  BY <1>0, <1>2, <1>4 DEF TreeTyped, Here
<1>6. Skeleton' /\ Bounded'
  <2>1. cursor' \in Here \cup {NoNode}
    BY <1>0 DEF Skeleton
  <2>2. \A m \in Here : /\ nodes'[m].parent = nodes[m].parent /\ nodes'[m].children = nodes[m].children
                        /\ nodes'[m].depth = nodes[m].depth
    BY <1>2, <1>4
  <2> QED BY <1>0, <1>4, <2>1, <2>2, SkeletonKept
<1>7. ProcsOK'
  <2>1. PICK v2 \in Process : v2.at # "gap" /\ proc' = [Outdated(n) EXCEPT ![c] = v2]
    BY UpdaterGoesOn
  <2> QED BY <1>0, <2>1, UpdaterBecomes
<1>8. updates' \in 0..MaxUpdates
  BY <1>0, TreeAssumption DEF TreeAssumption
<1> QED BY <1>5, <1>6, <1>7, <1>8

\* A fold changes flags of the children and the summary of the parent.
LEMMA CommitStep ==
  ASSUME TreeIInv, NEW x \in Goroutines, CommitPromotion(x)
  PROVE  TreeIInv'
<1> USE DEF TreeIInv
<1> DEFINE p == proc[x].node
<1> DEFINE folded == IF p \in Here THEN Folded(p, proc[x].plan) ELSE {}
<1>0. UNCHANGED <<rootId, cursor, nextId, updates>> /\ Busy(x) /\ EndPromotion(x)
      /\ nodes' = IF folded = {} THEN nodes
                  ELSE [n \in Here |->
                          IF n \in folded THEN [nodes[n] EXCEPT !.promoted = TRUE]
                          ELSE IF n = p THEN [nodes[n] EXCEPT !.summary = proc[x].text]
                          ELSE nodes[n]]
  BY DEF CommitPromotion, Busy
<1>1. proc[x].text \subseteq Text
  BY DEF ProcsOK, Process
<1> HIDE DEF folded, p
<1>2. DOMAIN nodes' = DOMAIN nodes
  BY <1>0 DEF Here
<1>3. \A n \in Here : \/ nodes'[n] = nodes[n]
                      \/ nodes'[n] = [nodes[n] EXCEPT !.promoted = TRUE]
                      \/ nodes'[n] = [nodes[n] EXCEPT !.summary = proc[x].text]
  BY <1>0
<1>4. ASSUME NEW n \in Here
      PROVE  /\ nodes'[n] \in NodeRecord /\ nodes'[n].parent = nodes[n].parent
             /\ nodes'[n].children = nodes[n].children /\ nodes'[n].depth = nodes[n].depth
  <2>1. nodes[n] \in NodeRecord
    BY DEF TreeTyped
  <2>2. CASE nodes'[n] = nodes[n]
    BY <2>1, <2>2
  <2>3. CASE nodes'[n] = [nodes[n] EXCEPT !.promoted = TRUE]
    BY <2>1, <2>3 DEF NodeRecord
  <2>4. CASE nodes'[n] = [nodes[n] EXCEPT !.summary = proc[x].text]
    BY <1>1, <2>1, <2>4 DEF NodeRecord
  <2> QED BY <1>3, <2>2, <2>3, <2>4
<1>5. TreeTyped'
  BY <1>0, <1>2, <1>4 DEF TreeTyped, Here
<1>6. Skeleton' /\ Bounded'
  <2>1. cursor' \in Here \cup {NoNode}
    BY <1>0 DEF Skeleton
  <2> QED BY <1>0, <1>2, <1>4, <2>1, SkeletonKept
<1>7. ProcsOK'
  BY <1>0, PromotionEnds
<1> QED BY <1>0, <1>5, <1>6, <1>7

LEMMA TreeAndCursor ==
  ASSUME TreeIInv, CreateTree \/ DeleteTree \/ \E n \in TreeNode \cup {NoNode} : SetCursor(n)
  PROVE  TreeIInv'
<1> USE DEF TreeIInv
<1>0. UNCHANGED <<proc, inflight, updates>>
  BY DEF CreateTree, DeleteTree, SetCursor
<1>1. ProcsOK'
  BY <1>0, ProcsStay
<1>2. CASE CreateTree
  <2>1. /\ nextId \in TreeNode /\ nodes' = [n \in {nextId} |-> NewNode(NoNode, 0, FALSE, FALSE)]
        /\ rootId' = nextId /\ cursor' = nextId /\ nextId' = nextId + 1 /\ nextId \in Nat
    BY <1>2 DEF CreateTree, TreeTyped
  <2>2. Here' = {nextId}
    BY <2>1 DEF Here
  <2>3. /\ nodes'[nextId] \in NodeRecord /\ nodes'[nextId].parent = NoNode /\ nodes'[nextId].children = <<>>
    BY <2>1 DEF NewNode, NodeRecord
  <2>4. TreeTyped'
    <3>1. Here' \subseteq TreeNode /\ rootId' \in TreeNode
      BY <2>1, <2>2
    <3>2. \A n \in Here' : nodes'[n] \in NodeRecord
      BY <2>2, <2>3
    <3>3. nextId' \in Nat
      BY <2>1
    <3> QED BY <3>1, <3>2, <3>3 DEF TreeTyped
  <2>5. Skeleton'
    <3>1. Entries(<<>>) = {} /\ Distinct(<<>>)
      BY DEF Entries, Distinct
    <3>2. \A n \in Here' : n < nextId'
      BY <2>1, <2>2
    <3>3. \A n \in Here' : Distinct(nodes'[n].children) /\ Entries(nodes'[n].children) = {}
      BY <2>2, <2>3, <3>1
    <3>4. Here' \ {rootId'} = {} /\ rootId' \in Here' /\ nodes'[rootId'].parent = NoNode /\ cursor' \in Here'
      BY <2>1, <2>2, <2>3
    <3> QED BY <3>2, <3>3, <3>4 DEF Skeleton
  <2>6. Bounded'
    <3>1. IsFiniteSet({nextId}) /\ Cardinality({nextId}) = 1
      BY FS_Singleton
    <3>2. 1 <= TreeMaxNodes
      BY TreeAssumption DEF TreeAssumption
    <3> QED BY <2>2, <3>1, <3>2 DEF Bounded
  <2> QED BY <1>0, <1>1, <2>4, <2>5, <2>6
<1>3. CASE DeleteTree
  <2>1. nodes' = << >> /\ rootId' = NoNode /\ cursor' = NoNode /\ nextId' = nextId /\ Here' = {}
    BY <1>3 DEF DeleteTree, Here
  <2>2. TreeTyped' /\ Skeleton'
    BY <2>1 DEF TreeTyped, Skeleton
  <2>3. Bounded'
    BY <2>1, FS_EmptySet, TreeAssumption DEF TreeAssumption, Bounded
  <2> QED BY <1>0, <1>1, <2>2, <2>3
<1>4. ASSUME NEW n \in TreeNode \cup {NoNode}, SetCursor(n) PROVE TreeIInv'
  <2>1. n \in Here \cup {NoNode} /\ cursor' = n /\ UNCHANGED <<nodes, rootId, nextId>>
    BY <1>4 DEF SetCursor
  <2>2. TreeTyped'
    BY <2>1 DEF TreeTyped, Here
  <2>3. Skeleton' /\ Bounded'
    BY <2>1, SkeletonKept
  <2> QED BY <1>0, <1>1, <2>2, <2>3
<1> QED BY <1>2, <1>3, <1>4

LEMMA AddNodeStep ==
  ASSUME TreeIInv, NEW c \in TreeCaller, NEW p \in TreeNode, NEW pinned \in BOOLEAN, NEW promoted \in BOOLEAN,
         AddNode(c, p, pinned, promoted)
  PROVE  TreeIInv'
<1> USE DEF TreeIInv
<1>0. /\ p \in Here /\ Cardinality(Here) < TreeMaxNodes /\ nextId \in TreeNode /\ nextId \in Nat
      /\ nextId' = nextId + 1 /\ UNCHANGED <<rootId, cursor, inflight, updates>>
  BY DEF AddNode, TreeTyped
<1>1. /\ nextId \notin Here /\ p # nextId /\ \A n \in Here : n \in Nat /\ n < nextId
  BY <1>0, TreeAssumption DEF TreeAssumption, Skeleton, TreeTyped
<1>2. /\ nodes[p] \in NodeRecord /\ nodes[p].children \in Seq(TreeNode) /\ nodes[p].depth \in Nat
  BY <1>0 DEF TreeTyped, NodeRecord
<1>3. PICK v : v = NewNode(p, nodes[p].depth + 1, pinned, promoted)
  OBVIOUS
<1>4. /\ v \in NodeRecord /\ v.parent = p /\ v.children = <<>> /\ v.depth = nodes[p].depth + 1
  BY <1>2, <1>3 DEF NewNode, NodeRecord
<1>5. PICK l : l = Append(nodes[p].children, nextId)
  OBVIOUS
<1>6. nextId \notin Entries(nodes[p].children) /\ Distinct(nodes[p].children)
  BY <1>0, <1>1 DEF Skeleton
<1>7. /\ l \in Seq(TreeNode) /\ Distinct(l) /\ Entries(l) = Entries(nodes[p].children) \cup {nextId}
  BY <1>0, <1>2, <1>5, <1>6, DistinctAppended
<1>8. PICK u : u = [nodes[p] EXCEPT !.children = l]
  OBVIOUS
<1>9. /\ u \in NodeRecord /\ u.parent = nodes[p].parent /\ u.children = l /\ u.depth = nodes[p].depth
  BY <1>2, <1>7, <1>8 DEF NodeRecord
<1>10. nodes' = [n \in Here \cup {nextId} |-> IF n = nextId THEN v ELSE IF n = p THEN u ELSE nodes[n]]
  BY <1>2, <1>3, <1>5, <1>8 DEF AddNode
<1>11. Here' = Here \cup {nextId} /\ nodes'[nextId] = v /\ nodes'[p] = u
       /\ \A n \in Here : n # p => nodes'[n] = nodes[n]
  BY <1>0, <1>1, <1>10 DEF Here
<1>12. TreeTyped'
  <2>1. Here' \subseteq TreeNode /\ rootId' \in TreeNode \cup {NoNode}
    BY <1>0, <1>11 DEF TreeTyped
  <2>2. \A n \in Here' : nodes'[n] \in NodeRecord
    BY <1>4, <1>9, <1>11 DEF TreeTyped
  <2>3. nextId' \in Nat
    BY <1>0
  <2> QED BY <2>1, <2>2, <2>3 DEF TreeTyped
<1>13. \A n \in Here : /\ nodes'[n].parent = nodes[n].parent /\ nodes'[n].depth = nodes[n].depth
                       /\ Entries(nodes[n].children) \subseteq Entries(nodes'[n].children)
  BY <1>7, <1>9, <1>11
<1>14. Entries(v.children) = {} /\ Distinct(v.children)
  BY <1>4 DEF Entries, Distinct
<1>15. Skeleton'
  <2>1. \A n \in Here' : n < nextId' /\ Distinct(nodes'[n].children)
    <3>1. nextId < nextId' /\ \A n \in Here : n < nextId'
      BY <1>0, <1>1
    <3>2. \A n \in Here : Distinct(nodes'[n].children)
      BY <1>7, <1>9, <1>11 DEF Skeleton
    <3> QED BY <1>11, <1>14, <3>1, <3>2
  <2>2. ASSUME NEW n \in Here' \ {rootId'}
        PROVE  /\ nodes'[n].parent \in Here' /\ nodes'[n].depth = nodes'[nodes'[n].parent].depth + 1
               /\ n \in Entries(nodes'[nodes'[n].parent].children)
    <3>1. CASE n = nextId
      BY <1>0, <1>4, <1>7, <1>9, <1>11, <3>1
    <3>2. CASE n \in Here
      <4>1. PICK q \in Here : /\ q = nodes[n].parent /\ nodes[n].depth = nodes[q].depth + 1
                              /\ n \in Entries(nodes[q].children)
        BY <1>0, <2>2, <3>2 DEF Skeleton
      <4>2. /\ nodes'[n].parent = q /\ nodes'[n].depth = nodes[n].depth /\ nodes'[q].depth = nodes[q].depth
            /\ n \in Entries(nodes'[q].children)
        BY <1>13, <3>2, <4>1
      <4> QED BY <1>11, <4>1, <4>2
    <3> QED BY <1>11, <2>2, <3>1, <3>2
  <2>3. ASSUME NEW n \in Here', NEW d \in Entries(nodes'[n].children)
        PROVE  d \in Here' /\ nodes'[d].parent = n
    <3>1. CASE n = nextId
      BY <1>11, <1>14, <2>3, <3>1
    <3>2. CASE n = p
      <4>1. d = nextId \/ d \in Entries(nodes[p].children)
        BY <1>7, <1>9, <1>11, <2>3, <3>2
      <4>2. CASE d = nextId
        BY <1>4, <1>11, <3>2, <4>2
      <4>3. CASE d \in Entries(nodes[p].children)
        BY <1>0, <1>11, <1>13, <3>2, <4>3 DEF Skeleton
      <4> QED BY <4>1, <4>2, <4>3
    <3>3. CASE n \in Here /\ n # p
      BY <1>11, <1>13, <2>3, <3>3 DEF Skeleton
    <3> QED BY <1>11, <2>3, <3>1, <3>2, <3>3
  <2>4. rootId' \in Here' /\ nodes'[rootId'].parent = NoNode /\ cursor' \in Here' \cup {NoNode}
    BY <1>0, <1>11, <1>13 DEF Skeleton
  <2> QED BY <2>1, <2>2, <2>3, <2>4 DEF Skeleton
<1>16. Bounded'
  <2>1. IsFiniteSet(Here \cup {nextId}) /\ Cardinality(Here \cup {nextId}) = Cardinality(Here) + 1
    BY <1>1, FS_AddElement DEF Bounded
  <2>2. Cardinality(Here) \in Nat /\ TreeMaxNodes \in Nat
    BY FS_CardinalityType, TreeAssumption DEF TreeAssumption, Bounded
  <2> QED BY <1>0, <1>11, <2>1, <2>2 DEF Bounded
<1>17. ProcsOK'
  <2>1. PICK s : s = [Idle EXCEPT !.at = "decide", !.node = p]
    OBVIOUS
  <2>2. s \in Process /\ s.at = "decide"
    BY <2>1 DEF Idle, Process
  <2>3. Become(c, s)
    BY <2>1 DEF AddNode
  <2> QED BY <1>0, <2>2, <2>3, CallerBecomes
<1> QED BY <1>0, <1>12, <1>15, <1>16, <1>17

LEMMA IDRemoved ==
  ASSUME NEW S, NEW s \in Seq(S), Distinct(s), NEW v \in Entries(s)
  PROVE  RemoveID(s, v) \in Seq(S) /\ Distinct(RemoveID(s, v)) /\ Entries(RemoveID(s, v)) = Entries(s) \ {v}
<1>1. PICK i \in DOMAIN s : s[i] = v
  BY DEF Entries
<1>2. \A j \in 1..(i - 1) : s[j] # v
  BY <1>1 DEF Distinct
<1>3. PICK k \in DOMAIN s : s[k] = v /\ RemoveID(s, v) = RemoveAt(s, k)
  BY <1>1, <1>2 DEF RemoveID
<1> QED BY <1>3, EntryRemoved, DistinctRemoved

LEMMA DeleteNodeStep ==
  ASSUME TreeIInv, NEW n \in TreeNode, DeleteNode(n)
  PROVE  TreeIInv'
<1> USE DEF TreeIInv
<1>0. /\ n \in Here /\ n # rootId /\ nodes[n].children = <<>> /\ UNCHANGED <<rootId, nextId, proc, inflight, updates>>
      /\ cursor' = IF cursor = n THEN rootId ELSE cursor
  BY DEF DeleteNode
<1>1. Entries(nodes[n].children) = {}
  BY <1>0 DEF Entries
<1>2. PICK p \in Here : p = nodes[n].parent /\ n \in Entries(nodes[p].children)
  BY <1>0 DEF Skeleton
<1>3. p # n /\ nodes[p] \in NodeRecord /\ nodes[p].children \in Seq(TreeNode) /\ Distinct(nodes[p].children)
  BY <1>1, <1>2 DEF TreeTyped, NodeRecord, Skeleton
<1>4. PICK l : l = RemoveID(nodes[p].children, n)
  OBVIOUS
<1>5. l \in Seq(TreeNode) /\ Distinct(l) /\ Entries(l) = Entries(nodes[p].children) \ {n}
  BY <1>2, <1>3, <1>4, IDRemoved
<1>6. PICK u : u = [nodes[p] EXCEPT !.children = l]
  OBVIOUS
<1>7. u \in NodeRecord /\ u.parent = nodes[p].parent /\ u.children = l /\ u.depth = nodes[p].depth
  BY <1>3, <1>5, <1>6 DEF NodeRecord
<1>8. nodes' = [m \in Here \ {n} |-> IF m = p THEN u ELSE nodes[m]]
  BY <1>2, <1>3, <1>4, <1>6 DEF DeleteNode
<1>9. Here' = Here \ {n} /\ nodes'[p] = u /\ \A m \in Here \ {n} : m # p => nodes'[m] = nodes[m]
  BY <1>2, <1>3, <1>8 DEF Here
<1>10. TreeTyped'
  BY <1>0, <1>7, <1>9 DEF TreeTyped
<1>11. \A m \in Here \ {n} :
         /\ nodes'[m].parent = nodes[m].parent /\ nodes'[m].depth = nodes[m].depth
         /\ Distinct(nodes'[m].children) /\ Entries(nodes'[m].children) = Entries(nodes[m].children) \ {n}
  <2>1. \A m \in Here \ {n} : m # p => n \notin Entries(nodes[m].children)
    BY <1>2 DEF Skeleton
  <2>2. \A m \in Here \ {n} : m # p => Entries(nodes[m].children) = Entries(nodes[m].children) \ {n}
    BY <2>1
  <2> QED BY <1>5, <1>7, <1>9, <2>2 DEF Skeleton
<1>12. Skeleton'
  <2>1. \A m \in Here' : m < nextId' /\ Distinct(nodes'[m].children)
    BY <1>0, <1>9, <1>11 DEF Skeleton
  <2>2. ASSUME NEW m \in Here' \ {rootId'}
        PROVE  /\ nodes'[m].parent \in Here' /\ nodes'[m].depth = nodes'[nodes'[m].parent].depth + 1
               /\ m \in Entries(nodes'[nodes'[m].parent].children)
    <3>1. PICK q \in Here : /\ q = nodes[m].parent /\ nodes[m].depth = nodes[q].depth + 1
                            /\ m \in Entries(nodes[q].children)
      BY <1>0, <1>9, <2>2 DEF Skeleton
    <3>2. q # n /\ m # n
      BY <1>1, <1>9, <2>2, <3>1
    <3>3. nodes'[m].parent = q /\ nodes'[q].depth = nodes[q].depth /\ nodes'[m].depth = nodes[m].depth
          /\ m \in Entries(nodes'[q].children)
      BY <1>9, <1>11, <2>2, <3>1, <3>2
    <3> QED BY <1>9, <3>1, <3>2, <3>3
  <2>3. ASSUME NEW m \in Here', NEW d \in Entries(nodes'[m].children)
        PROVE  d \in Here' /\ nodes'[d].parent = m
    <3>1. d \in Entries(nodes[m].children) /\ d # n /\ m \in Here
      BY <1>9, <1>11, <2>3
    <3>2. d \in Here /\ nodes[d].parent = m
      BY <3>1 DEF Skeleton
    <3> QED BY <1>9, <1>11, <3>1, <3>2
  <2>4. rootId' \in Here' /\ nodes'[rootId'].parent = NoNode /\ cursor' \in Here' \cup {NoNode}
    BY <1>0, <1>9, <1>11 DEF Skeleton
  <2> QED BY <2>1, <2>2, <2>3, <2>4 DEF Skeleton
<1>13. Bounded'
  <2>1. IsFiniteSet(Here \ {n}) /\ Cardinality(Here \ {n}) = Cardinality(Here) - 1
    BY <1>0, FS_RemoveElement DEF Bounded
  <2>2. Cardinality(Here) \in Nat /\ TreeMaxNodes \in Nat
    BY FS_CardinalityType, TreeAssumption DEF TreeAssumption, Bounded
  <2> QED BY <1>9, <2>1, <2>2 DEF Bounded
<1>14. ProcsOK'
  BY <1>0, ProcsStay
<1> QED BY <1>0, <1>10, <1>12, <1>13, <1>14

LEMMA NextTreeIInv == TreeIInv /\ [TreeStep]_treeVars => TreeIInv'
<1> SUFFICES ASSUME TreeIInv, [TreeStep]_treeVars PROVE TreeIInv'
  OBVIOUS
<1>1. CASE UNCHANGED treeVars
  <2>1. UNCHANGED <<nodes, rootId, cursor, nextId, proc, inflight, updates>>
    BY <1>1 DEF treeVars
  <2>2. TreeTyped' /\ Skeleton' /\ Bounded'
    BY <2>1 DEF TreeIInv, TreeTyped, Skeleton, Bounded, Here
  <2> QED BY <2>1, <2>2, ProcsStay DEF TreeIInv
<1>2. CASE CreateTree \/ DeleteTree \/ \E n \in TreeNode \cup {NoNode} : SetCursor(n)
  BY <1>2, TreeAndCursor
<1>3. ASSUME NEW n \in TreeNode, DeleteNode(n) PROVE TreeIInv'
  BY <1>3, DeleteNodeStep
<1>4. ASSUME NEW c \in TreeCaller, NEW n \in TreeNode, NEW pinned \in BOOLEAN, NEW promoted \in BOOLEAN,
             AddNode(c, n, pinned, promoted) \/ UpdateNode(c, n, pinned, promoted)
      PROVE  TreeIInv'
  BY <1>4, AddNodeStep, UpdateNodeStep
<1>5. ASSUME NEW c \in TreeCaller, Decide(c) PROVE TreeIInv'
  BY <1>5, DecideStep
<1>6. ASSUME NEW x \in TreeCaller \cup TreeWorker, NEW p \in TreeNode, Snapshot(x, p) PROVE TreeIInv'
  BY <1>6, SnapshotStep DEF Goroutines
<1>7. ASSUME NEW x \in TreeCaller \cup TreeWorker, CommitPromotion(x) \/ PromotionFails(x) PROVE TreeIInv'
  BY <1>7, CommitStep, FailsStep DEF Goroutines
<1> QED BY <1>1, <1>2, <1>3, <1>4, <1>5, <1>6, <1>7 DEF TreeStep

\* Only its own last step ends a promotion that has its plan.
LEMMA WhoEnds ==
  ASSUME TreeIInv, [TreeStep]_treeVars, NEW x \in Goroutines, proc[x].at = "gap", proc'[x].at = "idle"
  PROVE  CommitPromotion(x) \/ PromotionFails(x)
<1>0. DOMAIN proc = Goroutines
  BY DEF TreeIInv, ProcsOK
<1>1. ASSUME NEW y \in Goroutines, NEW v, Become(y, v) PROVE y = x
  BY <1>0, <1>1 DEF Become
<1>2. proc' # proc
  OBVIOUS
<1>3. ~CreateTree /\ ~DeleteTree /\ (\A n \in TreeNode : ~DeleteNode(n))
      /\ (\A n \in TreeNode \cup {NoNode} : ~SetCursor(n)) /\ ~UNCHANGED treeVars
  BY <1>2 DEF CreateTree, DeleteTree, DeleteNode, SetCursor, treeVars
<1>4. ASSUME NEW c \in TreeCaller, NEW n \in TreeNode, NEW pinned \in BOOLEAN, NEW promoted \in BOOLEAN,
             AddNode(c, n, pinned, promoted) \/ UpdateNode(c, n, pinned, promoted)
      PROVE  FALSE
  <2>1. proc[c].at = "idle" /\ c \in Goroutines
    BY <1>4 DEF AddNode, UpdateNode, Free, Goroutines
  <2>2. CASE AddNode(c, n, pinned, promoted)
    <3>1. \E v : Become(c, v)
      BY <2>2 DEF AddNode
    <3> QED BY <1>1, <2>1, <3>1
  <2>3. CASE UpdateNode(c, n, pinned, promoted)
    <3>1. PICK v \in Process : proc' = [Outdated(n) EXCEPT ![c] = v]
      BY <2>3, UpdaterGoesOn
    <3>2. x # c => proc'[x].at = proc[x].at
      BY <2>1, <3>1, OthersOutdated DEF TreeIInv
    <3> QED BY <2>1, <3>2
  <2> QED BY <1>4, <2>2, <2>3
<1>5. ASSUME NEW c \in TreeCaller, Decide(c) PROVE FALSE
  <2>1. proc[c].at = "decide"
    BY <1>5 DEF Decide
  <2>2. ~\E v : Become(c, v)
    BY <1>1, <2>1 DEF Goroutines
  <2>3. IdleWorkers # {} /\ \E v, w : proc' = [proc EXCEPT ![c] = v, ![CHOOSE i \in IdleWorkers : TRUE] = w]
    BY <1>5, <2>2 DEF Decide
  <2>4. PICK i \in IdleWorkers : i = CHOOSE j \in IdleWorkers : TRUE
    BY <2>3
  <2>5. i # x /\ c # x
    BY <2>1 DEF IdleWorkers
  <2>6. PICK v, w : proc' = [proc EXCEPT ![c] = v, ![i] = w]
    BY <2>3, <2>4
  <2> QED BY <1>0, <2>5, <2>6
<1>6. ASSUME NEW y \in Goroutines, NEW p \in TreeNode, Snapshot(y, p) PROVE FALSE
  <2>1. proc[y].at = "idle" \/ proc[y].at = "start"
    BY <1>6 DEF Snapshot, Free
  <2>2. \E v : Become(y, v)
    BY <1>6 DEF Snapshot, EndPromotion
  <2> QED BY <1>1, <2>1, <2>2
<1>7. ASSUME NEW y \in Goroutines, CommitPromotion(y) \/ PromotionFails(y) PROVE y = x
  <2>1. Become(y, Idle)
    BY <1>7 DEF CommitPromotion, PromotionFails, EndPromotion
  <2> QED BY <1>1, <2>1
<1> QED BY <1>3, <1>4, <1>5, <1>6, <1>7 DEF TreeStep, Goroutines

\* A step that changes no text and starts no promotion.
LEMMA TextsStay ==
  ASSUME TreeIInv, TextsRead, nextId' \in Nat, nextId <= nextId',
         \A c \in Here' : c < nextId => c \in Here /\ nodes'[c].rev = nodes[c].rev,
         \A x \in Goroutines : proc'[x].at = "gap" => proc'[x] = proc[x]
  PROVE  TextsRead'
<1> SUFFICES ASSUME NEW x \in Goroutines, proc'[x].at = "gap", NEW c \in proc'[x].plan
             PROVE  /\ c < nextId'
                    /\ c \in Here' \ proc'[x].changed => <<c, nodes'[c].rev>> \in proc'[x].text
  BY DEF TextsRead
<1>1. proc'[x] = proc[x]
  OBVIOUS
<1>2. c < nextId /\ (c \in Here \ proc[x].changed => <<c, nodes[c].rev>> \in proc[x].text)
  BY <1>1 DEF TextsRead
<1>3. c \in Nat /\ nextId \in Nat
  BY <1>1, TreeAssumption DEF TreeAssumption, TreeIInv, TreeTyped, ProcsOK, Process
<1> QED BY <1>1, <1>2, <1>3

LEMMA TextsReadStep == TreeIInv /\ TextsRead /\ [TreeStep]_treeVars => TextsRead'
<1> SUFFICES ASSUME TreeIInv, TextsRead, [TreeStep]_treeVars PROVE TextsRead'
  OBVIOUS
<1>0. /\ nextId \in Nat /\ nextId + 1 \in Nat /\ nextId <= nextId + 1 /\ nextId <= nextId /\ ~(nextId < nextId)
      /\ \A n \in Here : nodes[n] \in NodeRecord
  BY DEF TreeIInv, TreeTyped
<1>1. ASSUME UNCHANGED nextId, \A c \in Here' : c \in Here /\ nodes'[c].rev = nodes[c].rev,
             \A x \in Goroutines : proc'[x].at = "gap" => proc'[x] = proc[x]
      PROVE  TextsRead'
  BY <1>0, <1>1, TextsStay
<1>2. ASSUME NEW y, NEW v, v.at # "gap", Become(y, v), NEW x \in Goroutines, proc'[x].at = "gap"
      PROVE  proc'[x] = proc[x]
  BY <1>2 DEF Become, TreeIInv, ProcsOK
<1>3. Idle.at = "idle" /\ \A p : [Idle EXCEPT !.at = "decide", !.node = p].at = "decide"
  BY DEF Idle
<1>4. CASE UNCHANGED treeVars
  BY <1>1, <1>4 DEF treeVars, Here
<1>5. CASE CreateTree
  <2>1. /\ nextId' = nextId + 1 /\ UNCHANGED proc /\ Here' = {nextId}
    BY <1>5 DEF CreateTree, Here
  <2> QED BY <1>0, <2>1, TextsStay
<1>6. CASE DeleteTree
  <2>1. Here' = {} /\ UNCHANGED <<nextId, proc>>
    BY <1>6 DEF DeleteTree, Here
  <2> QED BY <1>1, <2>1
<1>7. ASSUME NEW n \in TreeNode \cup {NoNode}, SetCursor(n) PROVE TextsRead'
  BY <1>1, <1>7 DEF SetCursor, Here
<1>8. ASSUME NEW n \in TreeNode, DeleteNode(n) PROVE TextsRead'
  <2>1. Here' = Here \ {n} /\ UNCHANGED <<nextId, proc>>
    BY <1>8 DEF DeleteNode, Here
  <2>2. \A m \in Here' : nodes'[m].rev = nodes[m].rev
    BY <1>0, <1>8, <2>1 DEF DeleteNode, NodeRecord
  <2> QED BY <1>1, <2>1, <2>2
<1>9. ASSUME NEW c \in TreeCaller, NEW p \in TreeNode, NEW pinned \in BOOLEAN, NEW promoted \in BOOLEAN,
             AddNode(c, p, pinned, promoted)
      PROVE  TextsRead'
  <2>1. Here' = Here \cup {nextId} /\ nextId' = nextId + 1
    BY <1>9 DEF AddNode, Here
  <2>2. \A m \in Here' : m # nextId => nodes'[m].rev = nodes[m].rev
    BY <1>0, <1>9, <2>1 DEF AddNode, NodeRecord
  <2>3. \A x \in Goroutines : proc'[x].at = "gap" => proc'[x] = proc[x]
    BY <1>2, <1>3, <1>9 DEF AddNode
  <2> QED BY <1>0, <2>1, <2>2, <2>3, TextsStay
<1>10. ASSUME NEW c \in TreeCaller, NEW n \in TreeNode, NEW pinned \in BOOLEAN, NEW promoted \in BOOLEAN,
              UpdateNode(c, n, pinned, promoted)
       PROVE  TextsRead'
  <2>1. PICK v \in Process : v.at # "gap" /\ proc' = [Outdated(n) EXCEPT ![c] = v]
    BY <1>10, UpdaterGoesOn
  <2>0. c \in Goroutines /\ ProcsOK
    BY DEF TreeIInv, Goroutines
  <2>2. /\ c \in Goroutines /\ proc'[c] = v
        /\ \A x \in Goroutines : x # c =>
             /\ proc'[x].at = proc[x].at /\ proc'[x].plan = proc[x].plan /\ proc'[x].text = proc[x].text
             /\ proc'[x].changed = proc[x].changed \cup (IF n \in proc[x].plan THEN {n} ELSE {})
    BY <2>0, <2>1, OthersOutdated
  <2>3. Here' = Here /\ nextId' = nextId /\ \A m \in Here : m # n => nodes'[m] = nodes[m]
    BY <1>10 DEF UpdateNode, Here
  <2> SUFFICES ASSUME NEW x \in Goroutines, proc'[x].at = "gap", NEW m \in proc'[x].plan
               PROVE  /\ m < nextId'
                      /\ m \in Here' \ proc'[x].changed => <<m, nodes'[m].rev>> \in proc'[x].text
    BY DEF TextsRead
  <2>4. x # c
    BY <2>1, <2>2
  <2>5. m < nextId /\ (m \in Here \ proc[x].changed => <<m, nodes[m].rev>> \in proc[x].text)
    BY <2>2, <2>4 DEF TextsRead
  <2>6. CASE m = n
    BY <2>2, <2>3, <2>4, <2>5, <2>6
  <2>7. CASE m # n
    BY <2>2, <2>3, <2>4, <2>5, <2>7
  <2> QED BY <2>6, <2>7
<1>11. ASSUME NEW c \in TreeCaller, Decide(c) PROVE TextsRead'
  <2>1. UNCHANGED <<nodes, nextId>>
    BY <1>11 DEF Decide, shape
  <2>2. \A x \in Goroutines : proc'[x].at = "gap" => proc'[x] = proc[x]
    BY <1>2, <1>3, <1>11 DEF Decide, Idle, TreeIInv, ProcsOK
  <2> QED BY <1>1, <2>1, <2>2 DEF Here
<1>12. ASSUME NEW x \in Goroutines, NEW p \in TreeNode, Snapshot(x, p) PROVE TextsRead'
  <2>1. UNCHANGED <<nodes, nextId>> /\ Here' = Here
    BY <1>12 DEF Snapshot, shape, Here
  <2>2. CASE Become(x, Idle)
    <3>1. \A y \in Goroutines : proc'[y].at = "gap" => proc'[y] = proc[y]
      BY <1>2, <1>3, <2>2
    <3> QED BY <1>1, <2>1, <3>1
  <2>3. CASE ~Become(x, Idle)
    <3>1. PICK v : /\ Become(x, v) /\ v.plan = EligibleChildren(p)
                   /\ \A c \in EligibleChildren(p) : <<c, nodes[c].rev>> \in v.text
      BY <1>12, <2>3 DEF Snapshot, EndPromotion
    <3>2. proc'[x] = v /\ \A y \in Goroutines : y # x => proc'[y] = proc[y]
      BY <3>1 DEF Become, TreeIInv, ProcsOK
    <3>3. \A c \in EligibleChildren(p) : c < nextId
      BY DEF EligibleChildren, TreeIInv, Skeleton
    <3> QED BY <2>1, <3>1, <3>2, <3>3 DEF TextsRead
  <2> QED BY <2>2, <2>3
<1>13. ASSUME NEW x \in Goroutines, CommitPromotion(x) \/ PromotionFails(x) PROVE TextsRead'
  <2>1. \A y \in Goroutines : proc'[y].at = "gap" => proc'[y] = proc[y]
    BY <1>2, <1>3, <1>13 DEF CommitPromotion, PromotionFails, EndPromotion
  <2>2. UNCHANGED nextId /\ Here' = Here /\ \A n \in Here : nodes'[n].rev = nodes[n].rev
    <3>1. CASE PromotionFails(x)
      BY <3>1 DEF PromotionFails, shape, Here
    <3>2. CASE CommitPromotion(x)
      BY <1>0, <3>2 DEF CommitPromotion, Here, NodeRecord
    <3> QED BY <1>13, <3>1, <3>2
  <2> QED BY <1>1, <2>1, <2>2
<1> QED BY <1>4, <1>5, <1>6, <1>7, <1>8, <1>9, <1>10, <1>11, <1>12, <1>13 DEF TreeStep, Goroutines

Hidden == {c \in Here : nodes'[c].promoted /\ ~nodes[c].promoted}

LEMMA FoldStep ==
  ASSUME TreeIInv, TextsRead, [TreeStep]_treeVars, NEW x \in Goroutines,
         proc[x].at = "gap", proc'[x].at = "idle"
  PROVE  /\ \A c \in Hidden : /\ nodes[c].parent = proc[x].node /\ ~nodes[c].pinned
                              /\ c \in {t[1] : t \in nodes'[proc[x].node].summary}
                              /\ \/ <<c, nodes[c].rev>> \in nodes'[proc[x].node].summary
                                 \/ c \in proc[x].changed
         /\ Hidden = {} => UNCHANGED nodes
<1> USE DEF TreeIInv
<1>1. CASE PromotionFails(x)
  <2>1. UNCHANGED nodes
    BY <1>1 DEF PromotionFails, shape
  <2>2. Hidden = {}
    BY <2>1 DEF Hidden
  <2> QED BY <2>1, <2>2
<1>2. CASE CommitPromotion(x)
  <2> DEFINE p == proc[x].node
  <2> DEFINE folded == IF p \in Here THEN Folded(p, proc[x].plan) ELSE {}
  <2>0. nodes' = IF folded = {} THEN nodes
                 ELSE [n \in Here |->
                         IF n \in folded THEN [nodes[n] EXCEPT !.promoted = TRUE]
                         ELSE IF n = p THEN [nodes[n] EXCEPT !.summary = proc[x].text]
                         ELSE nodes[n]]
    BY <1>2 DEF CommitPromotion
  <2>1. \A c \in folded : /\ p \in Here /\ c \in Here /\ c \in Entries(nodes[p].children) /\ c \in proc[x].plan
                          /\ ~nodes[c].promoted /\ ~nodes[c].pinned
    BY DEF Folded, EligibleChildren, ChildrenOf, Entries
  <2> HIDE DEF folded
  <2>2. CASE folded = {}
    <3>1. UNCHANGED nodes
      BY <2>0, <2>2
    <3>2. Hidden = {}
      BY <3>1 DEF Hidden
    <3> QED BY <3>1, <3>2
  <2>3. CASE folded # {}
    <3>0. p \in Here
      BY <2>1, <2>3
    <3>1. \A c \in folded : nodes[c].parent = p
      BY <2>1 DEF Skeleton
    <3>2. p \notin folded
      <4> SUFFICES ASSUME p \in folded PROVE FALSE
        OBVIOUS
      <4>1. nodes[p].parent = p /\ p # rootId
        BY <3>0, <3>1, TreeAssumption DEF TreeAssumption, Skeleton, TreeTyped
      <4>2. nodes[p].depth = nodes[p].depth + 1 /\ nodes[p].depth \in Nat
        BY <3>0, <4>1 DEF Skeleton, TreeTyped, NodeRecord
      <4> QED BY <4>2
    <3>3. nodes'[p] = [nodes[p] EXCEPT !.summary = proc[x].text]
      BY <2>0, <2>3, <3>0, <3>2
    <3>4. \A c \in folded : nodes'[c] = [nodes[c] EXCEPT !.promoted = TRUE]
      BY <2>0, <2>1, <2>3
    <3>5. \A c \in Here : nodes[c] \in NodeRecord
      BY DEF TreeTyped
    <3>6. nodes'[p].summary = proc[x].text
      BY <3>0, <3>3, <3>5 DEF NodeRecord
    <3>7. nodes'[p].promoted = nodes[p].promoted
      BY <3>0, <3>3, <3>5 DEF NodeRecord
    <3>8. \A c \in folded : nodes'[c].promoted = TRUE
      BY <2>1, <3>4, <3>5 DEF NodeRecord
    <3>9. \A c \in Here : c \notin folded /\ c # p => nodes'[c] = nodes[c]
      BY <2>0, <2>3
    <3>10. Hidden = folded
      BY <2>1, <3>7, <3>8, <3>9 DEF Hidden
    <3>11. ASSUME NEW c \in folded PROVE c \in {t[1] : t \in nodes'[p].summary}
      <4>1. PICK r \in Nat : <<c, r>> \in proc[x].text
        BY <2>1 DEF ProcsOK, PlanCovered
      <4> QED BY <3>6, <4>1
    <3>12. \A c \in folded : <<c, nodes[c].rev>> \in nodes'[p].summary \/ c \in proc[x].changed
      BY <2>1, <3>6 DEF TextsRead
    <3> QED BY <2>1, <2>3, <3>1, <3>10, <3>11, <3>12
  <2> QED BY <2>2, <2>3
<1> QED BY <1>1, <1>2, WhoEnds

-----------------------------------------------------------------------------
\* The host

HostIInv == TasksIInv /\ RelayIInv /\ TreeIInv /\ TextsRead

\* What a step of the host is to each part.
LEMMA HostSteps ==
  [HostNext]_<<vars, relayVars, treeVars, part>> => [Next]_vars /\ [RelayStep]_relayVars /\ [TreeStep]_treeVars
BY DEF HostNext

\* The inductive invariant: every part keeps its own.
THEOREM HostIInvHolds == HostSpec => []HostIInv
<1>1. HostInit => HostIInv
  <2>1. TreeInit => TextsRead
    BY DEF TreeInit, TextsRead, Goroutines, Idle
  <2> QED BY <2>1, InitTasksIInv, InitRelayIInv, InitTreeIInv DEF HostInit, HostIInv
<1>2. HostIInv /\ [HostNext]_<<vars, relayVars, treeVars, part>> => HostIInv'
  BY HostSteps, NextTasksIInv, NextRelayIInv, NextTreeIInv, TextsReadStep DEF HostIInv
<1> QED BY <1>1, <1>2, PTL DEF HostSpec

\* For any number of requests and any capacity, no request in progress leaves
\* the store and a poll reports what the agent returned; for any buffers, a
\* client that stays is sent every event of its run, in order.
THEOREM RequestsAreAnswered == HostSpec => []RequestsAnswered
<1>1. HostIInv => RequestsAnswered
  BY RelayComplete DEF HostIInv, TasksIInv, RequestsAnswered
<1> QED BY <1>1, HostIInvHolds, PTL

\* For any number of nodes, callers and background promotions, the stored
\* nodes form a tree and a parent is reserved exactly while one background
\* promotion works on it.
THEOREM TreeIsSound == HostSpec => []TreeSound
<1>1. HostIInv => TreeSound
  BY TreeIInvSound DEF HostIInv
<1> QED BY <1>1, HostIInvHolds, PTL

\* A promotion commits against the tree as it has become: it hides only
\* children its summary was made from, none pinned meanwhile, and writes no
\* summary without hiding a child.  The summary holds the present text of every
\* child it hides, but for those that were updated after the snapshot.
THEOREM FoldsAreSound == HostSpec => FoldsSound
<1> DEFINE Sound ==
      \A x \in TreeCaller \cup TreeWorker :
        (proc[x].at = "gap" /\ proc'[x].at = "idle") =>
          LET p == proc[x].node
              hidden == {c \in Here : nodes'[c].promoted /\ ~nodes[c].promoted}
          IN  /\ \A c \in hidden : nodes[c].parent = p /\ ~nodes[c].pinned
                                   /\ c \in {t[1] : t \in nodes'[p].summary}
                                   /\ \/ <<c, nodes[c].rev>> \in nodes'[p].summary
                                      \/ c \in proc[x].changed
              /\ hidden = {} => UNCHANGED nodes
<1>1. HostIInv /\ [HostNext]_<<vars, relayVars, treeVars, part>> => [Sound]_treeVars
  BY HostSteps, FoldStep DEF HostIInv, Goroutines, Hidden
<1> QED BY <1>1, HostIInvHolds, PTL DEF HostSpec, FoldsSound

\* A stored result is final, whatever is cancelled or submitted afterwards:
\* only an eviction takes it away.
THEOREM TaskResultsFinal == HostSpec => ResultsFinal
<1> DEFINE Final == \A id \in TaskId :
                      status[id] \in {"completed", "failed"} => status'[id] \in {status[id], "absent"}
<1>1. TasksIInv /\ [Next]_vars => Final
  <2> SUFFICES ASSUME TasksIInv, [Next]_vars, NEW id \in TaskId, status[id] \in {"completed", "failed"}
               PROVE  status'[id] \in {status[id], "absent"}
    OBVIOUS
  <2>0. /\ status \in [TaskId -> {"absent", "pending", "running"} \cup Finished]
        /\ worker[id] = "done"
    BY DEF TasksIInv, TasksTyped, TasksSound, ReportsRun
  <2>1. ASSUME NEW d \in TaskId, Submit(d) PROVE status'[id] \in {status[id], "absent"}
    <3>1. d # id
      BY <2>0, <2>1 DEF Submit
    <3> QED BY <2>0, <2>1, <3>1 DEF Submit
  <2>2. ASSUME NEW d \in TaskId, NEW v, Update(d, v), d # id PROVE status'[id] = status[id]
    BY <2>0, <2>2 DEF Update
  <2>3. ASSUME NEW d \in TaskId, Work(d) \/ Cancel(d) PROVE status'[id] = status[id]
    <3>1. d # id
      BY <2>0, <2>3 DEF Work, Begin, RunReturns, SetResult, Cancel
    <3>2. status' = status \/ \E v : Update(d, v)
      BY <2>3 DEF Work, Begin, RunReturns, SetResult, Cancel
    <3> QED BY <2>2, <3>1, <3>2
  <2> QED BY <2>1, <2>3 DEF Next, vars
<1>2. HostIInv /\ [HostNext]_<<vars, relayVars, treeVars, part>> => [Final]_vars
  BY <1>1, HostSteps DEF HostIInv
<1> QED BY <1>2, HostIInvHolds, PTL DEF HostSpec, ResultsFinal
=============================================================================
