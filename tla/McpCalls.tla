------------------------------ MODULE McpCalls ------------------------------
(***************************************************************************)
(* A tool call over MCP: a client with a credential scanner, a session     *)
(* that may be closed or replaced at any time, and a server with a scanner *)
(* of its own.  A scanner looks at what goes out and at what comes in and  *)
(* leaves it alone, replaces what its rules find, or refuses the call.     *)
(*                                                                         *)
(* A text is a sequence of letters.  Three rules stand for the list of     *)
(* patterns: 1 finds "st", 2 finds "tt", and 3 finds "s" and "x" when the  *)
(* keyword "t" is within the window before them; "x" is allowed.           *)
(***************************************************************************)
EXTENDS Integers, Sequences, FiniteSets, FiniteSetsExt, SequencesExt

CONSTANTS
  MaxText,      \* length of a text
  MaxScan,      \* MaxScanBytes
  KeyWindow,    \* KeywordWindow
  MaxSessions   \* bound on Connect

Letter == {"x", "s", "t"}
ScrubText == UNION {[1..n -> Letter] : n \in 0..MaxText}
ScrubRule == 1..3
ScrubAction == {"none", "log", "redact", "block"}     \* "none": no scanner

VARIABLES mcpSession,   \* the client's session, 0 for none
          sessions,     \* sessions opened so far
          closed,       \* those that were closed
          mcp           \* the call

mcpVars == <<mcpSession, sessions, closed, mcp>>

---------------------------------------------------------------------------
(* Scanner *)

\* Length of the match of a rule at position i of a text, 0 for none.
MatchAt(r, text, i) ==
  LET two == i < Len(text) IN
  CASE r = 1 -> IF two /\ text[i] = "s" /\ text[i + 1] = "t" THEN 2 ELSE 0
    [] r = 2 -> IF two /\ text[i] = "t" /\ text[i + 1] = "t" THEN 2 ELSE 0
    [] r = 3 -> IF text[i] \in {"s", "x"} THEN 1 ELSE 0

\* FindAllStringIndex: the leftmost match, then the next behind its end.
FindAll(r, text) ==
  LET start[i \in 1 .. Len(text) + 1] ==
        IF i > Len(text) THEN {}
        ELSE LET n == MatchAt(r, text, i) IN
             IF n = 0 THEN start[i + 1] ELSE {i} \cup start[i + n]
  IN start[1]

KeywordOK(r, text, i) ==
  r = 3 => \E j \in Max({1, i - KeyWindow}) .. i - 1 : text[j] = "t"

Allowlisted(r, text, i) == r = 3 /\ text[i] = "x"

\* The hits in the part that is scanned, by start, rules in their order.
ScanText(text) ==
  LET part == SubSeq(text, 1, Min({MaxScan, Len(text)}))
      hit(r, i) == [rule |-> r, first |-> i, last |-> i + MatchAt(r, part, i) - 1]
      hits == UNION {{hit(r, i) : i \in {i \in FindAll(r, part) :
                                          KeywordOK(r, part, i) /\ ~Allowlisted(r, part, i)}} :
                     r \in ScrubRule}
  IN SetToSortSeq(hits, LAMBDA g, h : g.first < h.first \/ (g.first = h.first /\ g.rule < h.rule))

Redacted == <<"redacted">>

\* The cursor stays behind the start of the hit.
RedactText_Inclusive(text, hits) ==
  LET step(acc, h) ==
        IF h.first < acc.cursor THEN acc
        ELSE [out |-> acc.out \o SubSeq(text, acc.cursor, h.first - 1) \o Redacted, cursor |-> h.last]
      end == FoldLeft(step, [out |-> <<>>, cursor |-> 1], hits)
  IN end.out \o SubSeq(text, end.cursor, Len(text))

\* The first of overlapping hits is replaced.
RedactText(text, hits) ==
  LET step(acc, h) ==
        IF h.first < acc.cursor THEN acc
        ELSE [out |-> acc.out \o SubSeq(text, acc.cursor, h.first - 1) \o Redacted,
              cursor |-> h.last + 1]
      end == FoldLeft(step, [out |-> <<>>, cursor |-> 1], hits)
  IN end.out \o SubSeq(text, end.cursor, Len(text))

Scanned(hit, text) == [hit |-> hit, text |-> text]

ScrubbedText(action, text) ==
  LET hits == ScanText(text) IN
  Scanned(hits # <<>>, IF action = "redact" THEN RedactText(text, hits) ELSE text)

\* A leaf of the arguments: a string under a key that a field rule names is a
\* hit as a whole, whatever it says; in a list under it, and under other keys,
\* the text rules apply.
ScrubbedLeaf(action, leaf) ==
  IF leaf.field /\ ~leaf.nested
    THEN Scanned(TRUE, IF action = "redact" THEN Redacted ELSE leaf.text)
    ELSE ScrubbedText(action, leaf.text)

---------------------------------------------------------------------------
(* Client and server *)

NoCall == [at |-> "new", via |-> 0, client |-> "none", server |-> "none", shape |-> "object",
           leaf |-> [field |-> FALSE, nested |-> FALSE, text |-> <<>>], args |-> <<>>,
           seen |-> <<>>, raw |-> FALSE, answer |-> <<>>, sent |-> <<>>, received |-> <<>>,
           fired |-> <<>>, end |-> "none"]

McpInit == mcpSession = 0 /\ sessions = 0 /\ closed = {} /\ mcp = NoCall

\* A session that is replaced is not closed.
ConnectClient ==
  /\ sessions < MaxSessions
  /\ \/ /\ sessions' = sessions + 1
        /\ mcpSession' = sessions + 1
     \/ UNCHANGED <<sessions, mcpSession>>
  /\ UNCHANGED <<closed, mcp>>

Disconnect ==
  /\ mcpSession # 0
  /\ mcpSession' = 0 /\ closed' = closed \cup {mcpSession}
  /\ UNCHANGED <<sessions, mcp>>

Ends(end) == [mcp EXCEPT !.at = "done", !.end = end]
Fires(v, direction) == IF v.hit THEN Append(mcp.fired, direction) ELSE mcp.fired

\* The session is read once; with none the call ends here.
StartCall ==
  /\ mcp = NoCall
  /\ \E client, server \in ScrubAction, shape \in {"object", "malformed"}, text \in ScrubText,
        field, nested \in BOOLEAN :
       /\ nested => field       \* a list elsewhere is scanned like its texts
       /\ shape = "malformed" => ~field
       /\ mcp' = [NoCall EXCEPT !.at = IF mcpSession = 0 THEN "done" ELSE "out",
                    !.end = IF mcpSession = 0 THEN "not connected" ELSE "none",
                    !.via = mcpSession, !.client = client, !.server = server, !.shape = shape,
                    !.leaf = [field |-> field, nested |-> nested, text |-> text]]
  /\ UNCHANGED <<mcpSession, sessions, closed>>

\* ScanJSON on the arguments, then Unmarshal: what is no JSON is scanned as a
\* text and refused after that.
ScanOutbound ==
  /\ mcp.at = "out"
  /\ LET v == IF mcp.client = "none" THEN Scanned(FALSE, mcp.leaf.text)
              ELSE ScrubbedLeaf(mcp.client, mcp.leaf) IN
     mcp' = [(IF v.hit /\ mcp.client = "block" THEN Ends("blocked")
              ELSE IF mcp.shape = "malformed" THEN Ends("error")
              ELSE [mcp EXCEPT !.at = "wire", !.args = v.text])
             EXCEPT !.fired = Fires(v, "outbound")]
  /\ UNCHANGED <<mcpSession, sessions, closed>>

\* The SDK may fail the call, and does when the session was closed meanwhile.
Deliver ==
  /\ mcp.at = "wire"
  /\ \/ /\ mcp.via \notin closed
        /\ mcp' = [mcp EXCEPT !.at = "in"]
     \/ mcp' = Ends("error")
  /\ UNCHANGED <<mcpSession, sessions, closed>>

\* applyInboundScan on the decoded arguments.
ScanServerInbound ==
  /\ mcp.at = "in"
  /\ LET v == IF mcp.server = "none" THEN Scanned(FALSE, mcp.args)
              ELSE ScrubbedLeaf(mcp.server, [mcp.leaf EXCEPT !.text = mcp.args]) IN
     mcp' = [(IF v.hit /\ mcp.server = "block" THEN [mcp EXCEPT !.at = "back", !.end = "refused"]
              ELSE [mcp EXCEPT !.at = "handle", !.seen = v.text])
             EXCEPT !.fired = Fires(v, "server-in")]
  /\ UNCHANGED <<mcpSession, sessions, closed>>

\* The tool's handler, or the agent with the text under "input"; an agent
\* called without that key gets the arguments as they came over the wire.  The
\* text of an error, which may quote what it likes, goes back unscanned.
Handle ==
  /\ mcp.at = "handle"
  /\ \E raw \in BOOLEAN :
       LET called == [mcp EXCEPT !.raw = raw, !.seen = IF raw THEN mcp.args ELSE @] IN
       \/ mcp' = [called EXCEPT !.at = "reply", !.answer = mcp.leaf.text]
       \/ mcp' = [called EXCEPT !.at = "back", !.end = "failed", !.sent = mcp.leaf.text]
  /\ UNCHANGED <<mcpSession, sessions, closed>>

ScanServerOutbound ==
  /\ mcp.at = "reply"
  /\ LET v == IF mcp.server = "none" \/ mcp.answer = <<>> THEN Scanned(FALSE, mcp.answer)
              ELSE ScrubbedText(mcp.server, mcp.answer) IN
     mcp' = [(IF v.hit /\ mcp.server = "block" THEN [mcp EXCEPT !.at = "back", !.end = "refused"]
              ELSE [mcp EXCEPT !.at = "back", !.sent = v.text])
             EXCEPT !.fired = Fires(v, "server-out")]
  /\ UNCHANGED <<mcpSession, sessions, closed>>

\* The text parts of the result, of an error too; the server's own refusals
\* hold nothing to find.
ScanInbound ==
  /\ mcp.at = "back"
  /\ LET v == IF mcp.client = "none" \/ mcp.sent = <<>> THEN Scanned(FALSE, mcp.sent)
              ELSE ScrubbedText(mcp.client, mcp.sent) IN
     mcp' = [(IF v.hit /\ mcp.client = "block" THEN Ends("blocked")
              ELSE [mcp EXCEPT !.at = "done", !.received = v.text,
                               !.end = IF @ = "none" THEN "result" ELSE @])
             EXCEPT !.fired = Fires(v, "inbound")]
  /\ UNCHANGED <<mcpSession, sessions, closed>>

McpStep ==
  \/ ConnectClient \/ Disconnect \/ StartCall \/ ScanOutbound \/ Deliver \/ ScanServerInbound
  \/ Handle \/ ScanServerOutbound \/ ScanInbound

McpSpec == McpInit /\ [][McpStep]_mcpVars

---------------------------------------------------------------------------
(* What crosses the boundary is what the rules leave of it.  Of a redacted  *)
(* text exactly the letters are gone that belong to hits which do not       *)
(* overlap, the first of overlapping ones: no hit is left whole, nothing    *)
(* else is lost, and what stays of a hit is the tail behind an earlier one. *)
(* A scanner that blocks lets no text with a hit pass; one that logs, and   *)
(* none, change nothing; what is refused was reported.  Two texts the       *)
(* server hands on unscanned: the arguments of an agent called without      *)
(* "input", and the text of an error, which the client still scans.         *)
ScrubExact ==
  LET overlap(g, h) == g.first <= h.last /\ h.first <= g.last
      without(text, set) ==
        FlattenSeq([i \in 1..Len(text) |->
          IF \E h \in set : h.first = i THEN Redacted
          ELSE IF \E h \in set : h.first < i /\ i <= h.last THEN <<>> ELSE <<text[i]>>])
      ok(action, from, to) ==
        LET hits == ToSet(ScanText(from)) IN
        CASE action = "redact" ->
               \E set \in SUBSET hits :
                 /\ \A g, h \in set : overlap(g, h) => g = h
                 /\ \A h \in hits : \E g \in set : overlap(g, h) /\ g.first <= h.first
                 /\ to = without(from, set)
          [] action = "block" -> hits = {} /\ to = from
          [] OTHER -> to = from
      okArgs(action, from, to) ==
        IF mcp.leaf.field /\ ~mcp.leaf.nested
          THEN action # "block" /\ to = (IF action = "redact" THEN Redacted ELSE from)
          ELSE ok(action, from, to)
      handled == mcp.at = "reply" \/ mcp.end \in {"result", "failed"}
  IN /\ mcp.at \in {"wire", "in", "handle"} \/ handled =>
          okArgs(mcp.client, mcp.leaf.text, mcp.args) /\ mcp.via # 0
     /\ mcp.at = "handle" \/ (handled /\ ~mcp.raw) => okArgs(mcp.server, mcp.args, mcp.seen)
     /\ handled /\ mcp.raw => mcp.seen = mcp.args
     /\ mcp.end = "result" => ok(mcp.server, mcp.answer, mcp.sent)
     /\ mcp.at = "done" /\ mcp.end \in {"result", "failed"} => ok(mcp.client, mcp.sent, mcp.received)
     /\ mcp.end \in {"blocked", "refused"} => mcp.fired # <<>>
=============================================================================
