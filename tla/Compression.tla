---------------------------- MODULE Compression ----------------------------
(***************************************************************************)
(* The history compressors of the memory package, as operators on short   *)
(* histories, and what each of them promises.                              *)
(*                                                                         *)
(* A message is its role, the length of its text and its place `at` in the *)
(* history it came from; a summary has at = 0.  The summarizer is a model  *)
(* call: it fails, or answers a text of some length.                       *)
(***************************************************************************)
EXTENDS Naturals, Sequences, FiniteSets, SequencesExt, FiniteSetsExt

CONSTANTS
  TextLen,      \* lengths a message text may have
  MaxHistory,   \* bound on the messages of a history
  SummaryLen,   \* lengths of summaries; 0 is the empty answer
  Window,       \* model windows; 0 is unlimited
  KeepN         \* SlidingWindow size, keepLastN, KeepRecentTurns, protectedTurns

\* "call" is an assistant message that carries tool calls.
Role == {"system", "user", "assistant", "call", "tool"}
IsAssistant(m) == m.role \in {"assistant", "call"}
Failed == <<[role |-> "failed", len |-> 0, at |-> 0]>>

\* DefaultTokenEstimator: a quarter of the length, at least 1 when non-empty.
EstimateText(n) == IF n = 0 THEN 0 ELSE Max({1, n \div 4})
EstimateMessages(msgs) == FoldSeq(LAMBDA m, sum : EstimateText(m.len) + sum, 0, msgs)

Suffix(msgs, from) == SubSeq(msgs, from, Len(msgs))
Summary(role, n) == [role |-> role, len |-> n, at |-> 0]

---------------------------------------------------------------------------
(* TokenBudgetCompressor, SlidingWindowCompressor *)

\* The backward loop: it stops at the first message that does not fit.
RECURSIVE BudgetStart(_, _, _, _)
BudgetStart(msgs, i, total, maxTokens) ==
  IF i = 0 \/ total + EstimateText(msgs[i].len) > maxTokens THEN i + 1
  ELSE BudgetStart(msgs, i - 1, total + EstimateText(msgs[i].len), maxTokens)

TokenBudget(msgs, maxTokens) ==
  IF msgs = <<>> \/ maxTokens = 0 THEN msgs
  ELSE Suffix(msgs, Min({Len(msgs), BudgetStart(msgs, Len(msgs), 0, maxTokens)}))

SlidingWindow(msgs, maxTokens) ==
  LET windowed == IF Len(msgs) > KeepN THEN Suffix(msgs, Len(msgs) - KeepN + 1) ELSE msgs
  IN IF maxTokens = 0 THEN windowed ELSE TokenBudget(windowed, maxTokens)

---------------------------------------------------------------------------
(* ImportanceRankingCompressor *)

\* Thousandths of a point: the recency bonus is 5% of the base over the total.
DefaultMessageScorer(msgs, i) ==
  LET base == CASE msgs[i].role = "system" -> 1000
                [] msgs[i].role \in {"tool", "call"} -> 100
                [] msgs[i].role = "user" -> 50
                [] OTHER -> 10
  IN base * 1000 + (base * 50 * (i - 1)) \div Len(msgs)

\* Stable, by score, highest first.
Ranked(msgs) ==
  SortSeq([i \in 1..Len(msgs) |-> i],
          LAMBDA i, j : \/ DefaultMessageScorer(msgs, i) > DefaultMessageScorer(msgs, j)
                        \/ /\ DefaultMessageScorer(msgs, i) = DefaultMessageScorer(msgs, j)
                           /\ i < j)

\* The greedy pass: the first is always taken, the others when they fit.
Selected(msgs, maxTokens) ==
  FoldLeft(LAMBDA sel, i :
             IF sel # {} /\
                  MapThenSumSet(LAMBDA k : EstimateText(msgs[k].len), sel)
                  + EstimateText(msgs[i].len) > maxTokens
               THEN sel ELSE sel \cup {i},
           {}, Ranked(msgs))

ImportanceRanking(msgs, maxTokens) ==
  IF msgs = <<>> \/ maxTokens = 0 THEN msgs
  ELSE LET order == SetToSortSeq(Selected(msgs, maxTokens), <)
       IN [i \in 1..Len(order) |-> msgs[order[i]]]

---------------------------------------------------------------------------
(* SummarizeAndTruncCompressor, OverBudgetSummarizer *)

\* The text cut in proportion, so that its estimate is within room; an empty
\* cut leaves the recent messages alone.
WithSummary(recent, text, room, bounded) ==
  LET cut == IF bounded /\ EstimateText(text) > room
               THEN (text * room) \div EstimateText(text) ELSE text
  IN IF cut = 0 THEN recent ELSE <<Summary("user", cut)>> \o recent

SummarizeAndTrunc(msgs, maxTokens, text) ==
  IF Len(msgs) <= KeepN THEN msgs
  ELSE IF ~text.ok THEN Failed
  ELSE LET recent == Suffix(msgs, Len(msgs) - KeepN + 1)
           used == EstimateMessages(recent)
       IN IF text.len = 0 \/ (maxTokens > 0 /\ used >= maxTokens) THEN recent
          ELSE WithSummary(recent, text.len, IF maxTokens > 0 THEN maxTokens - used ELSE 0, maxTokens > 0)

\* The last n messages whatever they are: a turn may be cut in two.
SplitRecentTurns_Messages(msgs, n) ==
  IF Len(msgs) <= n THEN 1 ELSE Len(msgs) - n + 1

\* splitRecentTurns: where the last n turns start, a turn starting at a user.
SplitRecentTurns(msgs, n) ==
  LET users == {i \in 1..Len(msgs) : msgs[i].role = "user"}
  IN IF Cardinality(users) <= n THEN 1
     ELSE SetToSortSeq(users, <)[Cardinality(users) - n + 1]

OverBudgetSummarize(msgs, window, history, text) ==
  IF window = 0 THEN msgs
  ELSE IF history = 0 THEN <<>>
  ELSE IF EstimateMessages(msgs) <= history THEN msgs
  ELSE LET split == SplitRecentTurns(msgs, KeepN)
           recent == Suffix(msgs, split)
           target == (history * 4) \div 5
           used == EstimateMessages(recent)
       IN IF split = 1 THEN msgs
          ELSE IF used >= target THEN recent
          ELSE IF ~text.ok THEN Failed
          ELSE IF text.len = 0 THEN recent
          ELSE WithSummary(recent, text.len, target - used, TRUE)

---------------------------------------------------------------------------
(* CompressWithBudget: a bounded window with nothing left is not unlimited *)

Chained == <<"sliding", "tokens">>
Kind == {"tokens", "sliding", "importance", "summarize", "overbudget", "chain"}

BudgetAware(k, msgs, window, history, text) ==
  LET maxTokens == IF window = 0 THEN 0 ELSE history IN
  IF window > 0 /\ history = 0 THEN <<>>
  ELSE CASE k = "tokens" -> TokenBudget(msgs, maxTokens)
         [] k = "sliding" -> SlidingWindow(msgs, maxTokens)
         [] k = "importance" -> ImportanceRanking(msgs, maxTokens)
         [] k = "summarize" -> SummarizeAndTrunc(msgs, maxTokens, text)

CompressWithBudget(k, msgs, window, history, text) ==
  CASE k = "overbudget" -> OverBudgetSummarize(msgs, window, history, text)
    [] k = "chain" -> FoldLeft(LAMBDA r, c : BudgetAware(c, r, window, history, text),
                               msgs, Chained)
    [] OTHER -> BudgetAware(k, msgs, window, history, text)

---------------------------------------------------------------------------
(* ConversationCompactor *)

\* The backward walk for the protected tail.  A pair is an assistant message
\* right after a user message; an assistant message on its own moves the tail
\* back without counting.
RECURSIVE ProtectedStart(_, _, _, _)
ProtectedStart(msgs, i, start, left) ==
  LET sys == msgs[1].role = "system" IN
  IF i = 0 \/ left = 0 \/ (i = 1 /\ sys) THEN start
  ELSE IF ~IsAssistant(msgs[i]) THEN ProtectedStart(msgs, i - 1, start, left)
  ELSE IF i > 1 /\ msgs[i - 1].role = "user"
    THEN ProtectedStart(msgs, i - 2, i - 1, left - 1)
    ELSE ProtectedStart(msgs, i - 1, i, left)

Compact(msgs, text) ==
  IF msgs = <<>> THEN msgs
  ELSE LET first == IF msgs[1].role = "system" THEN 2 ELSE 1
           tail == ProtectedStart(msgs, Len(msgs), Len(msgs) + 1, KeepN)
       IN IF first >= tail THEN msgs
          ELSE IF ~text.ok THEN Failed
          ELSE SubSeq(msgs, 1, first - 1) \o <<Summary("system", text.len)>> \o Suffix(msgs, tail)

\* CompactIfNeeded: below the threshold, and when the summarizer fails, the
\* history stays as it is.
CompactIfNeeded(msgs, threshold, text) ==
  IF EstimateMessages(msgs) <= threshold \/ Compact(msgs, text) = Failed
    THEN msgs ELSE Compact(msgs, text)

---------------------------------------------------------------------------
(* One history, one compressor, one outcome. *)

VARIABLE compressed

\* Place i of the history, and no system message but in front.
Histories ==
  LET Texts(n) == [1..n -> Role \X TextLen]
      Place(h) == [i \in 1..Len(h) |-> [role |-> h[i][1], len |-> h[i][2], at |-> i]]
  IN {Place(h) : h \in UNION {{h \in Texts(n) : \A i \in 2..n : h[i][1] # "system"}
                              : n \in 0..MaxHistory}}

Answers == {[ok |-> FALSE, len |-> 0]} \cup {[ok |-> TRUE, len |-> n] : n \in SummaryLen}

CompressInit == compressed = [kind |-> "none"]

CompressStep ==
  /\ compressed.kind = "none"
  /\ \E h \in Histories, w \in Window, text \in Answers :
       \/ \E k \in Kind, a \in 0..w :
            compressed' = [kind |-> k, in |-> h, window |-> w, history |-> a,
                           out |-> CompressWithBudget(k, h, w, a, text)]
       \/ compressed' = [kind |-> "compact", in |-> h, window |-> w, history |-> w,
                         out |-> CompactIfNeeded(h, w, text)]

CompressSpec == CompressInit /\ [][CompressStep]_compressed

---------------------------------------------------------------------------

Verbatim(out) == SelectSeq(out, LAMBDA m : m.at > 0)
IsSuffixOf(out, h) == \E i \in 1..Len(h) + 1 : out = Suffix(h, i)

\* A cut of the history that starts at a turn, or the whole of it.
WholeTurns(out, h) == out = h \/ (out # <<>> /\ out[1].role = "user")

(* What the compressors promise, for every history, budget and answer:      *)
(* order is kept and at most one summary is added; a bounded window with no *)
(* history left yields nothing; the budget holds unless a single forced     *)
(* message exceeds it, or the kept recent part does; the sliding window,    *)
(* the token and the importance compressors drop nothing that would still   *)
(* fit (the two summarizers may, so nothing of the kind is said of them);   *)
(* the over-budget summarizer never cuts a turn; the compactor keeps the    *)
(* system prompt and the last pairs.                                        *)
CompressionSound ==
  LET c == compressed IN
  (c.kind # "none" /\ c.out # Failed) =>
    LET kept == Verbatim(c.out)
        bounded == c.window > 0
        fits == EstimateMessages(c.out) <= c.history
    IN /\ \A i, j \in 1..Len(kept) : i < j => kept[i].at < kept[j].at
       /\ Len(c.out) - Len(kept) <= 1
       /\ (c.kind # "compact" /\ bounded /\ c.history = 0) => c.out = <<>>
       /\ (c.kind \in {"tokens", "overbudget", "importance"} /\ ~bounded) => c.out = c.in
       /\ (c.kind \in {"tokens", "sliding", "chain"} /\ bounded /\ c.history > 0) =>
            /\ IsSuffixOf(c.out, c.in)
            /\ fits \/ Len(c.out) = 1
            /\ LET bigger == Len(c.out) + 1 IN
               \/ bigger > Len(c.in) \/ (c.kind # "tokens" /\ bigger > KeepN)
               \/ EstimateMessages(Suffix(c.in, Len(c.in) - bigger + 1)) > c.history
       /\ (c.kind = "importance" /\ bounded /\ c.history > 0) =>
            /\ fits \/ Len(c.out) = 1
            /\ \A i \in 1..Len(c.in) :
                 \/ c.in[i] \in ToSet(c.out)
                 \/ EstimateMessages(c.out) + EstimateText(c.in[i].len) > c.history
       /\ (c.kind = "summarize" /\ bounded /\ c.history > 0) =>
            /\ IsSuffixOf(kept, c.in)
            /\ Len(kept) = Min({Len(c.in), KeepN})
            /\ kept # c.out => fits
       /\ (c.kind = "overbudget" /\ bounded /\ c.history > 0) =>
            /\ IsSuffixOf(kept, c.in) /\ WholeTurns(kept, c.in)
            /\ kept # c.out => EstimateMessages(c.out) <= (c.history * 4) \div 5
       /\ (c.kind = "compact" /\ c.out # c.in) =>
            /\ c.in[1].role = "system" => Head(c.out) = c.in[1]
            /\ \A i \in 1..Len(c.in) - 1 :
                 /\ c.in[i].role = "user" /\ IsAssistant(c.in[i + 1])
                 /\ Cardinality({j \in i + 2..Len(c.in) : /\ IsAssistant(c.in[j])
                                                          /\ c.in[j - 1].role = "user"}) < KeepN
                 => c.in[i] \in ToSet(kept) /\ c.in[i + 1] \in ToSet(kept)
=============================================================================
