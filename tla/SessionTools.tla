---------------------------- MODULE SessionTools ----------------------------
(***************************************************************************)
(* Tools whose state belongs to a session: the todo list, and agents that  *)
(* run as tools, each in a child session of its own.  The calls of one     *)
(* batch run concurrently, and so do those of several sessions; a sub-     *)
(* agent may call further agents from its child session.                   *)
(*                                                                         *)
(* A todo item is its id and status; an id the model gives is one it saw   *)
(* or made up.  Sub-agents are only started and ended here.                *)
(***************************************************************************)
EXTENDS Naturals, Sequences, FiniteSets, SequencesExt, FiniteSetsExt

CONSTANTS
  Call,        \* tool calls
  TopSession,  \* sessions of the runs a host starts
  ChildName,   \* ids the minter of child sessions may return, also twice
  MaxItems,    \* items of a todo list
  TodoCap      \* maxItemsPerList

VARIABLES
  todo,       \* TopSession -> [version, items]; version 0 when there is none
  idCounter,  \* Store.idCounter
  emitted,    \* events dispatched: a set of [session, version, items]
  cleared,    \* sessions whose list was cleared by the host
  children,   \* stored child sessions: [id, parent]
  sub         \* Call -> [op, session, at, snap, child, result]

sessionToolVars == <<todo, idCounter, emitted, cleared, children, sub>>

NoSession == "no session"      \* the empty id

\* Minted ids are not ids of the host's sessions, and the empty one is neither.
ASSUME SessionToolsAssumption ==
  /\ ChildName \cap TopSession = {}
  /\ NoSession \notin ChildName \cup TopSession

NoList == [version |-> 0, items |-> <<>>]
NotCalling == [op |-> "none", session |-> NoSession, at |-> "new", snap |-> NoList, child |-> NoSession, result |-> "none"]

SessionToolsInit ==
  /\ todo = [s \in TopSession |-> NoList]
  /\ idCounter = 0 /\ emitted = {} /\ cleared = {} /\ children = {}
  /\ sub = [c \in Call |-> NotCalling]

---------------------------------------------------------------------------
(* todo_write *)

ItemStatus == {"pending", "in_progress", "completed", "bogus"}

\* Content and active form are never empty here: an empty one is refused like
\* an unknown status.
ValidItems(items) ==
  /\ Len(items) <= TodoCap
  /\ \A i \in 1..Len(items) : items[i].status # "bogus"
  /\ Cardinality({i \in 1..Len(items) : items[i].status = "in_progress"}) <= 1

IdsOf(snap) == {snap.items[i].id : i \in 1..Len(snap.items)}

\* An id of the previous list is kept, any other is replaced by the next one.
MergedItems(prev, items) ==
  LET fresh == {i \in 1..Len(items) : items[i].id \notin IdsOf(prev)} IN
  [i \in 1..Len(items) |->
     [id |-> IF i \in fresh THEN idCounter + Cardinality({j \in fresh : j <= i}) ELSE items[i].id,
      status |-> items[i].status]]

\* Clearing the list with an empty one leaves the version alone.
NextVersion_NotEmpty(prev, items) == IF items = <<>> THEN prev.version ELSE prev.version + 1

NextVersion(prev, items) == prev.version + 1

\* The store's part of the handler, under its mutex.
ApplyTodo(c) ==
  /\ sub[c] = NotCalling
  /\ \E s \in TopSession, n \in 0..MaxItems :
     \E items \in [1..n -> [id : 0..idCounter, status : {"pending", "in_progress", "bogus"}]] :
       LET prev == todo[s]
           merged == MergedItems(prev, items)
           snap == [version |-> NextVersion(prev, items), items |-> merged] IN
       IF ValidItems(items)
         THEN /\ todo' = [todo EXCEPT ![s] = snap]
              /\ idCounter' = idCounter + Cardinality(
                   {i \in 1..n : items[i].id \notin IdsOf(prev)})
              /\ sub' = [sub EXCEPT ![c] = [NotCalling EXCEPT !.op = "todo", !.session = s,
                                                        !.at = "emit", !.snap = snap]]
         ELSE /\ sub' = [sub EXCEPT ![c] = [NotCalling EXCEPT !.op = "todo", !.session = s,
                                                        !.at = "done", !.result = "error"]]
              /\ UNCHANGED <<todo, idCounter>>
  /\ UNCHANGED <<emitted, cleared, children>>

\* The event goes out after the mutex is released.
EmitTodo(c) ==
  /\ sub[c].at = "emit"
  /\ emitted' = emitted \cup {[session |-> sub[c].session, version |-> sub[c].snap.version,
                               items |-> sub[c].snap.items]}
  /\ sub' = [sub EXCEPT ![c].at = "done", ![c].result = "ok"]
  /\ UNCHANGED <<todo, idCounter, cleared, children>>

ClearTodo(s) ==
  /\ todo[s] # NoList
  /\ todo' = [todo EXCEPT ![s] = NoList]
  /\ cleared' = cleared \cup {s}
  /\ UNCHANGED <<idCounter, emitted, children, sub>>

---------------------------------------------------------------------------
(* Agents as tools *)

ChildIds == {k.id : k \in children}

\* A run that may call tools: a host's, or a sub-agent that has not returned.
Caller == TopSession \cup {sub[c].child : c \in {c \in Call : sub[c].at = "run" /\ sub[c].child # NoSession}}

\* An existing session is taken over.
CreateChild_Reuse(id, parent, ok) == children' = {k \in children : k.id # id} \cup {[id |-> id, parent |-> parent]}

\* SessionMetaStore.Create fails for an id it has.
CreateChild(id, parent, ok) ==
  /\ ok = (id \notin ChildIds)
  /\ children' = IF ok THEN children \cup {[id |-> id, parent |-> parent]} ELSE children

\* Arguments that do not parse, and a store that fails, end the call.
CallAgent(c, parent) ==
  /\ sub[c] = NotCalling
  /\ \/ \E id \in ChildName, ok \in BOOLEAN :
          /\ CreateChild(id, parent, ok)
          /\ sub' = [sub EXCEPT ![c] =
               [NotCalling EXCEPT !.op = "agent", !.session = parent, !.at = IF ok THEN "run" ELSE "done",
                            !.child = IF ok THEN id ELSE NoSession, !.result = IF ok THEN "none" ELSE "error"]]
     \/ /\ sub' = [sub EXCEPT ![c] = [NotCalling EXCEPT !.op = "agent", !.session = parent,
                                                  !.at = "done", !.result = "error"]]
        /\ UNCHANGED children
  /\ UNCHANGED <<todo, idCounter, emitted, cleared>>

\* The sub-agent answers, fails, or is suspended for a decision, which is
\* reported as an error because nobody could resume it.
AgentReturns(c) ==
  /\ sub[c].op = "agent" /\ sub[c].at = "run"
  /\ \A d \in Call : ~(sub[d].at = "run" /\ sub[d].session = sub[c].child)
  /\ \E result \in {"ok", "error"} :
       sub' = [sub EXCEPT ![c].at = "done", ![c].result = result]
  /\ UNCHANGED <<todo, idCounter, emitted, cleared, children>>

\* ask_user returns what the user answers, or an error.
AskUser(c) ==
  /\ sub[c] = NotCalling
  /\ \E s \in TopSession, result \in {"ok", "error"} :
       sub' = [sub EXCEPT ![c] = [NotCalling EXCEPT !.op = "ask", !.session = s, !.at = "done", !.result = result]]
  /\ UNCHANGED <<todo, idCounter, emitted, cleared, children>>

SessionToolsStep ==
  \/ \E c \in Call : ApplyTodo(c) \/ EmitTodo(c) \/ AgentReturns(c) \/ AskUser(c)
  \/ \E c \in Call, parent \in Caller : CallAgent(c, parent)
  \/ \E s \in TopSession : ClearTodo(s)

SessionToolsSpec == SessionToolsInit /\ [][SessionToolsStep]_sessionToolVars

---------------------------------------------------------------------------
(* Updates of one list may reach a consumer out of order, but the versions  *)
(* tell: when no call is between its update and its event, the event with   *)
(* the highest version of a session carries the list the store holds, and   *)
(* no two events of a session share a version.  (A list the host clears     *)
(* counts from one again.)                                                  *)
TodoConverges ==
  \A s \in TopSession \ cleared :
    LET events == {e \in emitted : e.session = s} IN
    /\ \A e, f \in events : e.version = f.version => e = f
    /\ (todo[s] # NoList /\ \A c \in Call : sub[c].session = s => sub[c].at # "emit") =>
         \E e \in events : /\ e.items = todo[s].items
                           /\ \A f \in events : f.version <= e.version

(* Every sub-agent runs in a child session of its own, recorded under the   *)
(* session its call came from, even when the minter repeats an id.  Stored  *)
(* parents are sessions of the host or stored children, and no children     *)
(* are among themselves the parents of all of them: so the parents lead     *)
(* from every sub-agent to a session of the host.                           *)
ChildrenOwned ==
  /\ \A c, d \in Call : c # d /\ sub[c].child # NoSession => sub[c].child # sub[d].child
  /\ \A c \in Call : sub[c].child # NoSession =>
       [id |-> sub[c].child, parent |-> sub[c].session] \in children
  /\ \A k \in children : k.parent \in TopSession \cup ChildIds
  /\ \A some \in SUBSET ChildIds : some # {} =>
       \E k \in children : k.id \in some /\ k.parent \notin some

(* What concurrent tool calls do to the sessions they run in: todo lists    *)
(* converge, and sub-agents have sessions of their own.                     *)
SessionToolsSound == TodoConverges /\ ChildrenOwned
=============================================================================
