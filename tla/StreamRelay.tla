---------------------------- MODULE StreamRelay ----------------------------
(***************************************************************************)
(* service.handleStream: an agent's goroutine produces events into a       *)
(* RunStream, a second goroutine forwards them into a channel, and the     *)
(* handler writes them to the client.  All three hang off one context,     *)
(* which ends when the client leaves or the handler returns; each of them  *)
(* may be blocked on the next one when that happens.                       *)
(*                                                                         *)
(* Events are numbered in the order they are produced.  Heartbeats change  *)
(* nothing here.  No agent of the repository produces an event that is     *)
(* itself of type error.                                                   *)
(***************************************************************************)
EXTENDS Integers, Sequences

CONSTANTS
  MaxStream,      \* bound: events of a run
  StreamBuffer,   \* buffer of the RunStream
  EventBuffer     \* buffer of the channel between the goroutines

ErrorItem == 0    \* the stream_error the forwarder appends

VARIABLES
  requestDone,  \* the request's context has ended
  relayDone,    \* the cancelable context of the handler has ended
  producer,     \* "running", "ok" or "failed"
  produced,     \* number of events it has sent
  stream,       \* events in the RunStream
  forwarder,    \* "recv", "send", "report" or "ended"
  held,         \* the event the forwarder is about to send
  events,       \* the channel
  handler,      \* "new", "refused", "writing" or "returned"
  written       \* what the client was sent

relayVars == <<requestDone, relayDone, producer, produced, stream, forwarder, held, events,
               handler, written>>

RelayInit ==
  /\ requestDone = FALSE /\ relayDone = FALSE
  /\ producer = "running" /\ produced = 0 /\ stream = <<>>
  /\ forwarder = "recv" /\ held = ErrorItem /\ events = <<>>
  /\ handler = "new" /\ written = <<>>

-----------------------------------------------------------------------------
\* The stream's producer: RunToStream, or the agent's own RunStream.

\* A send into the stream; with a context that has ended it may still succeed.
Produce ==
  /\ handler # "new" /\ producer = "running" /\ produced < MaxStream
  /\ Len(stream) < StreamBuffer
  /\ produced' = produced + 1
  /\ stream' = Append(stream, produced + 1)
  /\ UNCHANGED <<requestDone, relayDone, producer, forwarder, held, events, handler, written>>

\* The agent returns, with an error of its own or that of a send.
ProducerEnds ==
  /\ handler # "new" /\ producer = "running"
  /\ \/ produced > 0 /\ producer' = "ok"
     \/ producer' = "failed"
  /\ UNCHANGED <<requestDone, relayDone, produced, stream, forwarder, held, events, handler,
                 written>>

-----------------------------------------------------------------------------
\* The forwarding goroutine

\* ForEach takes the next event.
Receive ==
  /\ handler # "new" /\ forwarder = "recv" /\ stream # <<>>
  /\ held' = Head(stream) /\ stream' = Tail(stream)
  /\ forwarder' = "send"
  /\ UNCHANGED <<requestDone, relayDone, producer, produced, events, handler, written>>

\* ForEach returns: the stream is at its end, or its context is.  An error is
\* reported unless the context has ended.
EndOfStream ==
  /\ handler # "new" /\ forwarder = "recv"
  /\ \/ /\ stream = <<>> /\ producer = "ok"
        /\ forwarder' = "ended"
     \/ /\ stream = <<>> /\ producer = "failed"
        /\ forwarder' = IF relayDone THEN "ended" ELSE "report"
     \/ relayDone /\ forwarder' = "ended"
  /\ UNCHANGED <<requestDone, relayDone, producer, produced, stream, held, events, handler, written>>

\* Wrong variant: a send that only the reader can end.
Forward_Blocking ==
  /\ forwarder \in {"send", "report"} /\ Len(events) < EventBuffer
  /\ events' = Append(events, IF forwarder = "send" THEN held ELSE ErrorItem)
  /\ forwarder' = IF forwarder = "send" THEN "recv" ELSE "ended"
  /\ UNCHANGED <<requestDone, relayDone, producer, produced, stream, held, handler, written>>

\* send: into the channel, or not at all once the context has ended.  The
\* channel is closed when the goroutine ends.
Forward ==
  /\ forwarder \in {"send", "report"}
  /\ \/ /\ Len(events) < EventBuffer
        /\ events' = Append(events, IF forwarder = "send" THEN held ELSE ErrorItem)
        /\ forwarder' = IF forwarder = "send" THEN "recv" ELSE "ended"
     \/ relayDone /\ forwarder' = "ended" /\ UNCHANGED events
  /\ UNCHANGED <<requestDone, relayDone, producer, produced, stream, held, handler, written>>

-----------------------------------------------------------------------------
\* The handler

\* An unknown agent, a body that cannot be read, and a stream that cannot be
\* made are answered at once.
StartStream ==
  /\ handler = "new"
  /\ \/ handler' = "writing" /\ UNCHANGED <<relayDone, producer, forwarder>>
     \/ /\ handler' = "refused" /\ relayDone' = TRUE
        /\ producer' = "failed" /\ forwarder' = "ended"
  /\ UNCHANGED <<requestDone, produced, stream, held, events, written>>

\* The deferred cancel.
ReturnStream == handler' = "returned" /\ relayDone' = TRUE

\* One turn of the select.  A closed channel is read to its end.
WriteItem ==
  /\ handler = "writing"
  /\ \/ /\ events # <<>>
        /\ written' = Append(written, Head(events)) /\ events' = Tail(events)
        /\ IF Head(events) = ErrorItem THEN ReturnStream ELSE UNCHANGED <<handler, relayDone>>
     \/ /\ events = <<>> /\ forwarder = "ended"
        /\ ReturnStream /\ UNCHANGED <<events, written>>
     \/ relayDone /\ ReturnStream /\ UNCHANGED <<events, written>>
  /\ UNCHANGED <<requestDone, producer, produced, stream, forwarder, held>>

\* The client closes the connection, or the server shuts down.
ClientLeaves ==
  /\ handler = "writing" /\ ~requestDone
  /\ requestDone' = TRUE /\ relayDone' = TRUE
  /\ UNCHANGED <<producer, produced, stream, forwarder, held, events, handler, written>>

RelayGoroutine == Receive \/ EndOfStream \/ Forward
RelayStep ==
  Produce \/ ProducerEnds \/ RelayGoroutine \/ StartStream \/ WriteItem \/ ClientLeaves

-----------------------------------------------------------------------------
\* Properties

\* The client is sent the events in order, without gaps, and nothing after an
\* error; a client that stays is sent all of them, and the error exactly if the
\* run failed.
StreamComplete ==
  LET n == Len(written)
      failed == n > 0 /\ written[n] = ErrorItem
      count == IF failed THEN n - 1 ELSE n
  IN  /\ \A i \in 1..count : written[i] = i
      /\ count <= produced
      /\ handler = "returned" /\ ~requestDone =>
           count = produced /\ failed = (producer = "failed")

\* Nobody is left behind: whoever leaves first, the handler returns and the
\* forwarder ends, although its buffer may be full and its reader gone.
StreamsEnd == (handler = "writing") ~> (handler = "returned" /\ forwarder = "ended")
=============================================================================
