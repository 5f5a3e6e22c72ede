---------------------------- MODULE ContextBuild ----------------------------
(***************************************************************************)
(* The context builder: how a run's prompt is put together from a system   *)
(* prompt, the session's history, optional sources and the request, under  *)
(* one budget for the model window.                                        *)
(*                                                                         *)
(* A build is one step: it reads, computes and returns.  What a source     *)
(* meets (a missing store, a failing read, a panicking renderer, ...) is   *)
(* its condition; a rendered text is its length.                           *)
(***************************************************************************)
EXTENDS Compression

CONSTANTS
  ExtraLen,   \* lengths of the text an optional source renders
  Reserved    \* reserved token counts

VARIABLE built

Msg(src, role, n) == [src |-> src, role |-> role, len |-> n, at |-> 0]
Report(status, msgs, input, droppedN) ==
  [status |-> status, input |-> input, outN |-> Len(msgs), dropped |-> droppedN,
   tokens |-> EstimateMessages(msgs)]
Fetched(status, msgs) == [msgs |-> msgs, rep |-> Report(status, msgs, Len(msgs), 0)]
Skip == Fetched("skipped", <<>>)
Error == Fetched("error", <<>>)

---------------------------------------------------------------------------
(* The sources *)

\* SystemPromptSource: a template error is the one error that ends the build.
FetchSystem(c) ==
  IF c.system = 0 THEN Skip ELSE Fetched("ok", <<Msg("system", "system", c.system)>>)

FetchRequest(c) ==
  IF c.request = <<>> THEN Skip
  ELSE Fetched("ok", [i \in 1..Len(c.request) |-> Msg("request", "user", c.request[i])])

\* SessionMemorySource: a failed listing yields nothing, a failed compressor
\* the history as it is.
FetchSession(c, history) ==
  LET loaded == c.history
      noRoom == c.window > 0 /\ history = 0
      out == IF c.compressor = "none" THEN loaded
             ELSE IF noRoom THEN <<>>
             ELSE LET r == CompressWithBudget(c.compressor, loaded, c.window, history, c.answer)
                  IN IF r = Failed THEN loaded ELSE r
      lost == IF Len(out) < Len(loaded) THEN Len(loaded) - Len(out) ELSE 0
  IN IF c.listFails THEN Error
     ELSE IF loaded = <<>> THEN Skip
     ELSE [msgs |-> out,
           rep |-> Report(IF out = <<>> \/ lost > 0 THEN "truncated" ELSE "ok",
                          out, Len(loaded), lost)]

TreeConditions ==
  {"no store", "predicate panic", "gated", "missing", "read error", "no root",
   "empty render", "clamped", "ok"}

\* SessionTreeSource: every failure is reported and yields no message.
FetchTree(e) ==
  IF e.cond \in {"no store", "gated", "missing", "empty render"} THEN Skip
  ELSE IF e.cond \in {"predicate panic", "read error", "no root"} THEN Error
  ELSE LET msgs == <<Msg("tree", "system", e.len)>>
       IN IF e.cond = "clamped"
            THEN [msgs |-> msgs, rep |-> Report("truncated", msgs, 1, 1)]
            ELSE Fetched("ok", msgs)

VectorConditions ==
  {"no store", "empty query", "embed error", "search error", "no hits", "empty render", "ok"}

\* VectorRecallSource: hits that render to nothing count as dropped.
FetchVector(e) ==
  IF e.cond \in {"no store", "empty query", "no hits"} THEN Skip
  ELSE IF e.cond \in {"embed error", "search error"} THEN Error
  ELSE IF e.cond = "empty render"
    THEN [msgs |-> <<>>, rep |-> Report("skipped", <<>>, 1, 1)]
  ELSE Fetched("ok", <<Msg("vector", "system", e.len)>>)

WorkspaceConditions == {"no workspace", "plan error", "notes error", "empty", "clamped", "ok"}

FetchWorkspace(e) ==
  IF e.cond \in {"no workspace", "empty"} THEN Skip
  ELSE IF e.cond \in {"plan error", "notes error"} THEN Error
  ELSE LET msgs == <<Msg("workspace", "system", e.len)>>
       IN IF e.cond = "clamped"
            THEN [msgs |-> msgs, rep |-> Report("truncated", msgs, 1, 1)]
            ELSE Fetched("ok", msgs)

StateConditions == {"no store", "all reads failed", "no state", "some read", "ok"}

\* SessionStateSource: it gives up only when every key fails.
FetchState(e) ==
  IF e.cond \in {"no store", "no state"} THEN Skip
  ELSE IF e.cond = "all reads failed" THEN Error
  ELSE Fetched("ok", <<Msg("state", "system", e.len)>>)

FetchExtra(e) ==
  CASE e.src = "tree" -> FetchTree(e) [] e.src = "vector" -> FetchVector(e)
    [] e.src = "workspace" -> FetchWorkspace(e) [] e.src = "state" -> FetchState(e)

---------------------------------------------------------------------------
(* The builder *)

\* buildContext's order: system, session, the extra sources, the request.
Must(n) == {1, n}

\* One message dropped at most.
DropCount_Once(optional, available) ==
  IF optional = <<>> \/ EstimateMessages(optional) <= available THEN 0 ELSE 1

\* trimOptionalToHistory: how many optional messages go, from the head of the
\* merged order, until the rest fits.
RECURSIVE DropCount(_, _)
DropCount(optional, available) ==
  IF optional = <<>> \/ EstimateMessages(optional) <= available THEN 0
  ELSE 1 + DropCount(Tail(optional), available)

TrimOptional(fetched, available) ==
  LET n == Len(fetched)
      optional == FlattenSeq([i \in 1..n |-> IF i \in Must(n) THEN <<>> ELSE fetched[i].msgs])
      drop == DropCount(optional, available)
      before(i) == MapThenSumSet(LAMBDA j : Len(fetched[j].msgs), (1..i - 1) \ Must(n))
      cut(i) == Min({Len(fetched[i].msgs), IF drop > before(i) THEN drop - before(i) ELSE 0})
  IN [i \in 1..n |->
        IF i \in Must(n) \/ cut(i) = 0 THEN fetched[i]
        ELSE LET kept == SubSeq(fetched[i].msgs, cut(i) + 1, Len(fetched[i].msgs))
             IN [msgs |-> kept,
                 rep |-> [fetched[i].rep EXCEPT !.dropped = @ + cut(i), !.outN = Len(kept),
                            !.tokens = EstimateMessages(kept),
                            !.status = IF @ = "error" THEN @ ELSE "truncated"]]]

\* resolveContextBudget and the fixed part of Build: what the window must hold
\* whatever the history.
FixedTokens(c, sys, req) ==
  Max({sys.rep.tokens, c.reservedSystem}) + c.reservedTools + c.reservedOutput + req.rep.tokens

BuildFails == [ok |-> FALSE, case |-> {}, available |-> 0, slots |-> <<>>, all |-> <<>>]

\* Must-include sources are charged first; the rest shares what is left.
Build(c) ==
  LET sys == FetchSystem(c)
      req == FetchRequest(c)
      fixed == FixedTokens(c, sys, req)
      available == IF c.window = 0 THEN 0 ELSE c.window - fixed
      all == <<sys, FetchSession(c, available)>>
               \o [i \in 1..Len(c.extras) |-> FetchExtra(c.extras[i])] \o <<req>>
  IN IF c.templateFails \/ (c.window > 0 /\ fixed > c.window) THEN BuildFails
     ELSE [ok |-> TRUE, case |-> c, available |-> available, all |-> all,
           slots |-> IF c.window = 0 THEN all ELSE TrimOptional(all, available)]

Extra ==
  UNION {[src : {"tree"}, cond : TreeConditions, len : ExtraLen],
         [src : {"vector"}, cond : VectorConditions, len : ExtraLen],
         [src : {"workspace"}, cond : WorkspaceConditions, len : ExtraLen],
         [src : {"state"}, cond : StateConditions, len : ExtraLen]}

\* Alternating turns are enough here: what a compressor does with every other
\* history is CompressionSound's question.
TurnHistories ==
  {h \in Histories : \A i \in 1..Len(h) : h[i].role = IF i % 2 = 1 THEN "user" ELSE "assistant"}

ContextInit == built = [ok |-> FALSE, case |-> {}, available |-> 0, slots |-> <<"none">>, all |-> <<>>]

ContextStep ==
  /\ built.slots = <<"none">>
  /\ \E h \in TurnHistories, e \in Extra, w \in Window, r \in Reserved,
        comp \in {"none", "tokens", "overbudget"}, fails \in {"none", "template", "list", "summary"} :
       built' = Build([templateFails |-> fails = "template", listFails |-> fails = "list",
                       answer |-> [ok |-> fails # "summary", len |-> 13],
                       history |-> h, compressor |-> comp, window |-> w,
                       extras |-> <<e, [src |-> "workspace", cond |-> "ok", len |-> 4]>>,
                       system |-> IF r = 0 THEN 0 ELSE 5, request |-> <<4>>,
                       reservedSystem |-> r, reservedTools |-> r, reservedOutput |-> r])

ContextSpec == ContextInit /\ [][ContextStep]_built

---------------------------------------------------------------------------
(* A prompt that is built fits its window together with everything          *)
(* reserved, whatever the sources and the compressor returned, their        *)
(* failures included; no must-include message is lost; the optional ones     *)
(* dropped are the oldest of the merged order and no more than needed; and   *)
(* the report that is archived and dispatched adds up to the prompt.         *)
PromptFits ==
  built.ok =>
    LET c == built.case
        n == Len(built.slots)
        opt(slots) == FlattenSeq([i \in 1..n |-> IF i \in Must(n) THEN <<>> ELSE slots[i].msgs])
        kept == opt(built.slots)
        offered == opt(built.all)
        fixed == FixedTokens(c, built.all[1], built.all[n])
    IN /\ c.window > 0 => fixed + EstimateMessages(kept) <= c.window
       /\ \A i \in Must(n) : built.slots[i] = built.all[i]
       /\ IsSuffixOf(kept, offered)
       /\ c.window = 0 => kept = offered
       /\ kept # offered =>
            EstimateMessages(Suffix(offered, Len(offered) - Len(kept))) > built.available
       /\ \A i \in 1..n : LET s == built.slots[i] IN
            /\ s.rep.outN = Len(s.msgs)
            /\ s.rep.tokens = EstimateMessages(s.msgs)
            /\ Len(built.all[i].msgs) > Len(s.msgs) =>
                 s.rep.dropped >= Len(built.all[i].msgs) - Len(s.msgs)

(* From a history to the request of a model call: what the compressors      *)
(* leave of it, and the prompt put together around that.                    *)
ContextSound == CompressionSound /\ PromptFits
=============================================================================
