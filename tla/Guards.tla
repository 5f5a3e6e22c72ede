------------------------------- MODULE Guards -------------------------------
(***************************************************************************)
(* One pass of a guard chain over a text: the user's input before a run,   *)
(* the answer of Run and of RunStream, or the text of a tool result.  A    *)
(* text is a sequence of words, each the only thing some guard reacts to.  *)
(* The chain is chosen guard by guard as it runs, so every chain of at     *)
(* most MaxGuards guards is covered; the context may be cancelled between  *)
(* two of them.                                                            *)
(***************************************************************************)
EXTENDS Naturals, Sequences, FiniteSets, SequencesExt, FiniteSetsExt

CONSTANTS
  MaxGuards,   \* length of a chain
  MaxWords,    \* words of the checked text
  LengthLimit, \* LengthConfig.MaxLength, 0 for none
  ScanLimit    \* MaxScanBytes

\* A length limit that is not positive means none, and such a scan limit the
\* default one.
ASSUME GuardsAssumption ==
  MaxGuards \in Nat /\ MaxWords \in Nat /\ LengthLimit \in Nat /\ ScanLimit \in Nat \ {0}

GuardWord == {"plain", "pii", "bad", "low", "high"}
GuardText == UNION {[1..n -> GuardWord] : n \in 1..MaxWords}
Position == {"input", "run", "stream", "tool"}

VARIABLE guarded   \* [pos, partial, shape, orig, content, rewritten, hits, checked, outcome]

Has(text, w) == \E i \in 1..Len(text) : text[i] = w

\* A guard: its kind and, for the scan of tool results, the configured action
\* and severity; a custom guard may answer anything.
ScanAction == {"log", "rewrite", "block"}
GuardKind ==
  [kind : {"length", "pii", "filter", "topic", "injection"}, action : {"log"}, blockOn : {3}]
    \cup [kind : {"scan"}, action : ScanAction, blockOn : {1, 3}]
    \cup [kind : {"custom"}, action : {"pass", "log", "rewrite", "block", "error", "nil", "unknown"},
          blockOn : {3}]

Pass == [action |-> "pass", content |-> <<>>, hits |-> {}]
Observed(hits) == [Pass EXCEPT !.hits = hits]
Block(hits) == [Pass EXCEPT !.action = "block", !.hits = hits]
Rewrite(content, hits) == [action |-> "rewrite", content |-> content, hits |-> hits]

---------------------------------------------------------------------------
(* The guards' Check *)

LengthCheck(text) == IF LengthLimit > 0 /\ Len(text) > LengthLimit THEN Block({}) ELSE Pass

Redact(text) == [i \in 1..Len(text) |-> IF text[i] = "pii" THEN "redacted" ELSE text[i]]
PIICheck(text) == IF Redact(text) # text THEN Rewrite(Redact(text), {"pii"}) ELSE Pass

ContentFilterCheck(text) == IF Has(text, "bad") THEN Block({"bad"}) ELSE Pass

\* Blocked topics first, then the list of allowed ones.
TopicCheck(text) ==
  IF Has(text, "bad") THEN Block({"bad"})
  ELSE IF Has(text, "plain") THEN Pass ELSE Block({})

InjectionCheck(pos, text) ==
  LET hits == {w \in {"low", "high"} : Has(text, w)} IN
  IF pos = "input" /\ hits # {} THEN Block(hits) ELSE Pass

Severity(w) == IF w = "high" THEN 3 ELSE IF w = "low" THEN 1 ELSE 0

\* The envelope goes around the whole text, scanned or not.
Quarantine(text) == <<"untrusted">> \o text

\* ToolResultInjectionGuard.Check: only the first ScanLimit words are scanned,
\* a truncation is reported and never counts as a hit, and a hit of the given
\* severity blocks whatever the action is.
ScanCheck(g, pos, text) ==
  LET marker == IF Len(text) > ScanLimit THEN {"truncated"} ELSE {}
      hits == {w \in {"low", "high"} : \E i \in 1..Len(text) : i <= ScanLimit /\ text[i] = w} IN
  IF pos # "tool" THEN Pass
  ELSE IF hits = {} THEN Observed(marker)
  ELSE IF \E w \in hits : Severity(w) >= g.blockOn THEN Block(hits \cup marker)
  ELSE CASE g.action = "block" -> Block(hits \cup marker)
         [] g.action = "rewrite" -> Rewrite(Quarantine(text), hits \cup marker)
         [] OTHER -> Observed(hits \cup marker)

\* External: what a host's own guard may do.  A nil result, an unknown action
\* and an error all end the chain.
CustomCheck(g) ==
  CASE g.action = "log" -> Observed({"custom"})
    [] g.action = "rewrite" -> Rewrite(<<"custom">>, {"custom"})
    [] g.action = "block" -> Block({"custom"})
    [] g.action \in {"error", "nil", "unknown"} -> [Pass EXCEPT !.action = "error"]
    [] OTHER -> Pass

Check(g, pos, text) ==
  CASE g.kind = "length" -> LengthCheck(text)
    [] g.kind = "pii" -> PIICheck(text)
    [] g.kind = "filter" -> ContentFilterCheck(text)
    [] g.kind = "topic" -> TopicCheck(text)
    [] g.kind = "injection" -> InjectionCheck(pos, text)
    [] g.kind = "scan" -> ScanCheck(g, pos, text)
    [] OTHER -> CustomCheck(g)

---------------------------------------------------------------------------
(* RunGuards and its three callers *)

Open == [action |-> "none", text |-> <<>>, event |-> "none", hits |-> {}]

\* A message without a user turn, an answer without messages, and a tool result
\* that is an error or has no text are not checked ("skip").
GuardsInit ==
  \E pos \in Position, partial \in BOOLEAN, shape \in {"text", "skip"}, text \in GuardText :
    /\ partial => pos \in {"run", "stream"}
    /\ guarded = [pos |-> pos, partial |-> partial, shape |-> shape, orig |-> text, content |-> text,
                  rewritten |-> FALSE, hits |-> {}, checked |-> <<>>, outcome |-> Open]

Running == guarded.outcome = Open

\* A rewritten text reaches the caller but not the guards that follow.
NextContent_Stale(r) == guarded.content

NextContent(r) == IF r.action = "rewrite" THEN r.content ELSE guarded.content

\* The chain is over: what the caller does with the result.  finalizeRun keeps
\* the answer it has when an output guard blocks or fails, finalizeStream does
\* so only for a partial answer; a tool result becomes an error.
Finish(g, action, content, hits) ==
  LET keeps == g.pos = "run" \/ (g.pos = "stream" /\ g.partial)
      text == IF action = "rewrite" THEN content ELSE g.orig
      event == IF action # "pass" THEN action ELSE IF hits = {} THEN "none" ELSE "log"
      delivered == IF action \in {"pass", "rewrite"} \/ keeps THEN "text" ELSE "error" IN
  [g EXCEPT !.outcome =
     [action |-> action, text |-> IF delivered = "text" THEN text ELSE <<delivered>>,
      event |-> IF g.pos = "tool" THEN event ELSE "none",
      hits |-> IF g.pos = "tool" THEN hits ELSE {}]]

\* One turn of the loop of RunGuards.
CheckNext(guard) ==
  /\ Running /\ guarded.shape = "text" /\ Len(guarded.checked) < MaxGuards
  /\ LET r == Check(guard, guarded.pos, guarded.content)
         g == [guarded EXCEPT !.checked = Append(@, guard)] IN
     guarded' = CASE r.action = "error" -> Finish(g, "error", <<>>, {})
                  [] r.action = "block" -> Finish(g, "block", <<>>, r.hits)
                  [] OTHER -> [g EXCEPT !.content = NextContent(r),
                                        !.rewritten = @ \/ r.action = "rewrite",
                                        !.hits = @ \cup r.hits]

CancelChain ==
  /\ Running /\ guarded.shape = "text" /\ Len(guarded.checked) < MaxGuards
  /\ guarded' = Finish(guarded, "error", <<>>, {})

EndOfChain ==
  /\ Running /\ guarded.shape = "text"
  /\ guarded' = Finish(guarded, IF guarded.rewritten THEN "rewrite" ELSE "pass",
                       guarded.content, guarded.hits)

NothingToCheck ==
  /\ Running /\ guarded.shape = "skip"
  /\ guarded' = Finish(guarded, "pass", <<>>, {})

GuardsStep ==
  \/ \E g \in GuardKind : CheckNext(g)
  \/ CancelChain \/ EndOfChain \/ NothingToCheck

GuardsSpec == GuardsInit /\ [][GuardsStep]_guarded

---------------------------------------------------------------------------
(* What a caller uses has been through every guard, each having seen what   *)
(* those before it made of the text: after a chain that let it through no   *)
(* personal datum is left that an earlier redaction missed, no keyword a    *)
(* filter refuses, no scanned hit outside an envelope where the action is   *)
(* to rewrite, and every guard that flagged something is named in the event *)
(* of the tool result.  A text some guard refused is used in one case only: *)
(* an answer of Run, or a partial one of RunStream, and then it is the      *)
(* original, with none of the rewrites made before the refusal.             *)
GuardsHold ==
  LET g == guarded  o == g.outcome
      ran(kind) == \E i \in 1..Len(g.checked) : g.checked[i].kind = kind
      scan == {i \in 1..Len(g.checked) : g.checked[i].kind = "scan"}
      own == \E i \in 1..Len(g.checked) : g.checked[i].kind = "custom" /\ g.checked[i].action = "rewrite" IN
  o # Open =>
    /\ o.action \in {"pass", "rewrite"} =>
         /\ ran("pii") => ~ Has(o.text, "pii")
         /\ ran("filter") \/ ran("topic") => ~ Has(o.text, "bad")
         /\ ran("injection") /\ g.pos = "input" => ~ Has(o.text, "low") /\ ~ Has(o.text, "high")
         /\ g.pos = "tool" /\ ~own => \A i \in scan :
              o.text[1] # "high" /\ (g.checked[i].action # "log" => o.text[1] # "low")
         /\ own => o.text = <<"custom">>
         /\ g.pos = "tool" => (o.event = "none") = (o.action = "pass" /\ g.hits = {})
    /\ o.action \in {"block", "error"} =>
         \/ o.text = <<"error">> /\ (g.pos = "tool" => o.event = o.action)
         \/ o.text = g.orig /\ (g.pos = "run" \/ (g.pos = "stream" /\ g.partial))
=============================================================================
