----------------------------- MODULE ModelStream -----------------------------
(***************************************************************************)
(* One streamed request to a model: InvokeStream of the adapters           *)
(* (model/anthropic.go, model/openai.go, model/openai_chat.go), the relay  *)
(* of the logger (model/logging.go) and consumeStream (engine/stream.go).  *)
(*                                                                         *)
(* A goroutine reads the events of the server and puts chunks into a       *)
(* bounded channel; another relays them, when the model is logged; the     *)
(* caller puts the reply together again.  The caller may be cancelled, and *)
(* the timer of the response headers may fire, at any moment.              *)
(*                                                                         *)
(* A reply is a sequence of blocks, each a number of tokens <<block, i>>.  *)
(* An event of the server is <<block, i>>, too: the delta with that token, *)
(* the start of the block, 0, or its end.  A chunk carries at most one     *)
(* block's tokens; usage, finish reasons and names of tools are left out.  *)
(***************************************************************************)
EXTENDS Naturals, Sequences, SequencesExt

CONSTANTS
    Adapters,  \* the adapters of this instance
    Replies,   \* the replies a server may have for the request
    Cap,       \* capacity of the channel (64 in the code)
    None

Kinds == {"text", "thinking", "call"}

ASSUME StreamAssumption ==
    /\ Adapters \subseteq {"anthropic", "openai", "chat"}
    /\ Replies \subseteq Seq([kind : Kinds, size : Nat])
    /\ Cap \in Nat \ {0}
    \* A call of the Chat API has a delta that names it.
    /\ "chat" \in Adapters =>
          \A r \in Replies : \A b \in DOMAIN r : r[b].kind = "call" => r[b].size > 0

VARIABLES
    adapter, logged, reply,  \* the request: which model, with a logger?
    ctxDone,                 \* has the caller's context ended?
    timer,                   \* the timer of the response headers
    producer,                \* the goroutine of the adapter
    read,                    \* the last event that it has read
    acc,                     \* what it has accumulated of each block
    channel, closed,         \* its channel
    relay,                   \* the goroutine of the logger
    consumer                 \* consumeStream and its builders

request == <<adapter, logged, reply>>
streamVars == <<request, ctxDone, timer, producer, read, acc, channel, closed, relay, consumer>>

-----------------------------------------------------------------------------
(* Replies, events and chunks *)

Tokens(b) == [i \in 1..reply[b].size |-> <<b, i>>]
EndOf(b) == reply[b].size + 1

\* The events of one block.  The Responses API sends a call, and the state of
\* the reasoning, in one piece at its end; the Chat API has no such state.
EventsOf(b) ==
    CASE adapter = "anthropic" -> 0..EndOf(b)
      [] adapter = "openai" /\ reply[b].kind = "text" -> 1..reply[b].size
      [] adapter = "openai" /\ reply[b].kind = "thinking" -> 1..EndOf(b)
      [] adapter = "openai" /\ reply[b].kind = "call" -> {EndOf(b)}
      [] adapter = "chat" -> 1..reply[b].size

\* The last event says that the reply is finished.
Final == <<Len(reply) + 1, 0>>
Wire == {Final} \cup UNION {{b} \X EventsOf(b) : b \in DOMAIN reply}

Before(e, f) == e[1] < f[1] \/ (e[1] = f[1] /\ e[2] < f[2])
Follows(e, f) == Before(e, f) /\ \A g \in Wire : Before(e, g) => g = f \/ Before(f, g)

IsDelta(e) == e[2] \in 1..reply[e[1]].size
Ends(e) == e[2] = EndOf(e[1])

NoChunk == [text |-> <<>>, reasoning |-> <<>>, state |-> None, call |-> None,
            done |-> FALSE, error |-> FALSE]
ErrorChunk == [NoChunk EXCEPT !.error = TRUE]
Terminal(chunk) == chunk.done \/ chunk.error

Piece(id, tokens) == [id |-> id, tokens |-> tokens]

-----------------------------------------------------------------------------

Pieces == [id : Nat \cup {None}, tokens : Seq(Nat \X Nat)]
ChunkType ==
    [text : Seq(Nat \X Nat), reasoning : Seq(Nat \X Nat), state : Pieces \cup {None},
     call : Pieces \cup {None}, done : BOOLEAN, error : BOOLEAN]

ASSUME NoneAssumption == None \notin Nat /\ None \notin Pieces /\ None \notin ChunkType

StreamTypeOK ==
    /\ adapter \in Adapters /\ logged \in BOOLEAN /\ reply \in Replies
    /\ ctxDone \in BOOLEAN
    /\ timer \in {"armed", "fired", "acted", "stopped"}
    /\ producer \in [pc : {"connecting", "headers", "read", "emit", "closing", "ended"}, chunk : ChunkType]
    /\ read \in Wire \cup {<<0, 0>>}
    /\ acc \in [DOMAIN reply -> Seq(Nat \X Nat)]
    /\ channel \in Seq(ChunkType) /\ Len(channel) <= Cap /\ closed \in BOOLEAN
    /\ relay \in [pc : {"off", "take", "give", "ended"}, chunk : ChunkType]
    /\ consumer \in [pc : {"waiting", "select", "ok", "error", "cancelled"},
                     text : Seq(Nat \X Nat), reasoning : Seq(Nat \X Nat),
                     states : Seq(Pieces), calls : Seq(Pieces)]

StreamInit ==
    /\ adapter \in Adapters /\ logged \in BOOLEAN /\ reply \in Replies
    /\ ctxDone = FALSE
    /\ timer = "armed"
    /\ producer = [pc |-> "connecting", chunk |-> NoChunk]
    /\ read = <<0, 0>>
    /\ acc = [b \in DOMAIN reply |-> <<>>]
    /\ channel = <<>> /\ closed = FALSE
    /\ relay = [pc |-> "off", chunk |-> NoChunk]
    /\ consumer = [pc |-> "waiting", text |-> <<>>, reasoning |-> <<>>,
                   states |-> <<>>, calls |-> <<>>]

\* The context of the request: the caller's, or its own cancel.
StreamCancelled == ctxDone \/ timer = "acted"

-----------------------------------------------------------------------------
(* beginStreamingRequest *)

TimerFires ==
    /\ timer = "armed" /\ producer.pc \in {"connecting", "headers"}
    /\ timer' = "fired"
    /\ UNCHANGED <<request, ctxDone, producer, read, acc, channel, closed, relay, consumer>>

\* Its goroutine may run after Stop, which does not wait for it.
TimerActs ==
    /\ timer = "fired"
    /\ timer' = "acted"
    /\ UNCHANGED <<request, ctxDone, producer, read, acc, channel, closed, relay, consumer>>

\* The headers arrive.
Headers ==
    /\ producer.pc = "connecting"
    /\ producer' = [producer EXCEPT !.pc = "headers"]
    /\ UNCHANGED <<request, ctxDone, timer, read, acc, channel, closed, relay, consumer>>

Refused(reason) ==
    /\ producer' = [producer EXCEPT !.pc = "ended"]
    /\ consumer' = [consumer EXCEPT !.pc = reason]
    /\ UNCHANGED <<request, ctxDone, read, acc, channel, closed, relay>>

\* The request fails before.
NoHeaders ==
    /\ producer.pc = "connecting"
    /\ timer' = IF timer = "armed" THEN "stopped" ELSE timer
    /\ Refused(IF ctxDone THEN "cancelled" ELSE "error")

TooLate ==
    /\ producer.pc = "headers" /\ timer = "acted"
    /\ UNCHANGED timer
    /\ Refused("error")

\* The response begins: its goroutine, and that of the logger.
Begin(status) ==
    /\ producer.pc = "headers" /\ timer # "acted"
    /\ timer' = IF timer = "armed" THEN "stopped" ELSE timer
    /\ producer' = IF status = "ok" THEN [producer EXCEPT !.pc = "read"]
                                    ELSE [pc |-> "emit", chunk |-> ErrorChunk]
    /\ relay' = IF logged THEN [relay EXCEPT !.pc = "take"] ELSE relay
    /\ consumer' = [consumer EXCEPT !.pc = "select"]
    /\ UNCHANGED <<request, ctxDone, read, acc, channel, closed>>

-----------------------------------------------------------------------------
(* The goroutine of the adapter *)

\* The token of a delta as text, or as reasoning.
DeltaChunk(e) ==
    IF reply[e[1]].kind = "text" THEN [NoChunk EXCEPT !.text = <<e>>]
                                 ELSE [NoChunk EXCEPT !.reasoning = <<e>>]

\* The chunks of an adapter for an event; None: it only adds to an accumulator.
\* Anthropic: the state of a thinking block and a call leave at the block's end.
AnthropicChunks(e) ==
    LET kind == reply[e[1]].kind
        whole == Piece(e[1], acc[e[1]])
    IN
    CASE IsDelta(e) /\ kind # "call" -> {DeltaChunk(e)}
      [] Ends(e) /\ kind = "thinking" -> {[NoChunk EXCEPT !.state = whole]}
      [] Ends(e) /\ kind = "call" -> {[NoChunk EXCEPT !.call = whole]}
      [] OTHER -> {None}

OpenAIChunks(e) ==
    LET item == Piece(e[1], Tokens(e[1])) IN
    CASE IsDelta(e) -> {DeltaChunk(e)}
      [] Ends(e) /\ reply[e[1]].kind = "thinking" -> {[NoChunk EXCEPT !.state = item]}
      [] Ends(e) /\ reply[e[1]].kind = "call" -> {[NoChunk EXCEPT !.call = item]}

\* Chat: the deltas of a call leave one by one; only the first need have its id.
ChatChunks(e) ==
    IF reply[e[1]].kind # "call" THEN {DeltaChunk(e)}
    ELSE {[NoChunk EXCEPT !.call = Piece(id, <<e>>)] :
            id \in IF e[2] = 1 THEN {e[1]} ELSE {e[1], None}}

Chunks(e) ==
    CASE e = Final -> {[NoChunk EXCEPT !.done = TRUE]}
      [] e # Final /\ adapter = "anthropic" -> AnthropicChunks(e)
      [] e # Final /\ adapter = "openai" -> OpenAIChunks(e)
      [] e # Final /\ adapter = "chat" -> ChatChunks(e)

Accumulated(e) ==
    IF e # Final /\ IsDelta(e) THEN [acc EXCEPT ![e[1]] = Append(@, e)] ELSE acc

\* The scanner has the next event.  Nothing makes the server send it.
ReadEvent ==
    /\ producer.pc = "read"
    /\ \E e \in Wire :
        /\ Follows(read, e)
        /\ read' = e
        /\ acc' = Accumulated(e)
        /\ \E chunk \in Chunks(e) :
             producer' = IF chunk = None THEN producer ELSE [pc |-> "emit", chunk |-> chunk]
    /\ UNCHANGED <<request, ctxDone, timer, channel, closed, relay, consumer>>

\* A plausible bug: the end of the body is the end of the reply.
EndOfBody ==
    /\ producer.pc = "read"
    /\ producer' = [producer EXCEPT !.pc = "closing"]
    /\ UNCHANGED <<request, ctxDone, timer, read, acc, channel, closed, relay, consumer>>

\* The body ends early or breaks, an event is malformed or reports an error,
\* or the context of the request ends the read.
ReadFails ==
    /\ producer.pc = "read"
    /\ producer' = [pc |-> "emit", chunk |-> ErrorChunk]
    /\ UNCHANGED <<request, ctxDone, timer, read, acc, channel, closed, relay, consumer>>

\* emitResponseChunk: the select of the channel and the caller's context.
Emitted == [producer EXCEPT !.pc = IF Terminal(producer.chunk) THEN "closing" ELSE "read"]

EmitChunk ==
    /\ producer.pc = "emit" /\ Len(channel) < Cap
    /\ channel' = Append(channel, producer.chunk)
    /\ producer' = Emitted
    /\ UNCHANGED <<request, ctxDone, timer, read, acc, closed, relay, consumer>>

\* A plausible bug: the goroutine only sends.
EmitAnyway == producer.pc = "emit" /\ ctxDone /\ UNCHANGED streamVars

EmitCancelled ==
    /\ producer.pc = "emit" /\ ctxDone
    /\ producer' = [producer EXCEPT !.pc = "closing"]
    /\ UNCHANGED <<request, ctxDone, timer, read, acc, channel, closed, relay, consumer>>

\* The deferred calls: the body, the context of the request, the channel.
Close ==
    /\ producer.pc = "closing"
    /\ producer' = [producer EXCEPT !.pc = "ended"]
    /\ closed' = TRUE
    /\ UNCHANGED <<request, ctxDone, timer, read, acc, channel, relay, consumer>>

-----------------------------------------------------------------------------
(* The relay of the logger, whose channel is unbuffered *)

RelayTakes ==
    /\ relay.pc = "take" /\ channel # <<>>
    /\ relay' = [pc |-> "give", chunk |-> Head(channel)]
    /\ channel' = Tail(channel)
    /\ UNCHANGED <<request, ctxDone, timer, producer, read, acc, closed, consumer>>

RelayEnds ==
    /\ \/ relay.pc = "take" /\ channel = <<>> /\ closed
       \/ relay.pc = "give" /\ ctxDone
    /\ relay' = [relay EXCEPT !.pc = "ended"]
    /\ UNCHANGED <<request, ctxDone, timer, producer, read, acc, channel, closed, consumer>>

-----------------------------------------------------------------------------
(* consumeStream *)

\* mergeToolCall: a delta with a known id, or without one, extends a call.
Extended(calls, i, delta) == [calls EXCEPT ![i].tokens = @ \o delta.tokens]

\* A plausible bug: a delta without an id is a call of its own.
MergedById(calls, delta) ==
    IF \E i \in DOMAIN calls : calls[i].id = delta.id
    THEN Extended(calls, CHOOSE i \in DOMAIN calls : calls[i].id = delta.id, delta)
    ELSE Append(calls, delta)

Merged(calls, delta) ==
    IF delta.id = None /\ calls # <<>> THEN Extended(calls, Len(calls), delta)
    ELSE IF delta.id # None /\ \E i \in DOMAIN calls : calls[i].id = delta.id
    THEN Extended(calls, CHOOSE i \in DOMAIN calls : calls[i].id = delta.id, delta)
    ELSE Append(calls, delta)

\* The consumer takes a chunk.
Consumed(chunk) ==
    IF chunk.error THEN [consumer EXCEPT !.pc = "error"]
    ELSE [pc |-> IF chunk.done THEN "ok" ELSE "select",
          text |-> consumer.text \o chunk.text,
          reasoning |-> consumer.reasoning \o chunk.reasoning,
          states |-> IF chunk.state = None THEN consumer.states ELSE Append(consumer.states, chunk.state),
          calls |-> IF chunk.call = None THEN consumer.calls ELSE Merged(consumer.calls, chunk.call)]

TakeRelayed ==
    /\ consumer.pc = "select" /\ logged /\ relay.pc = "give"
    /\ consumer' = Consumed(relay.chunk)
    /\ relay' = [relay EXCEPT !.pc = "take"]
    /\ UNCHANGED <<request, ctxDone, timer, producer, read, acc, channel, closed>>

TakeChunk ==
    /\ consumer.pc = "select" /\ ~logged /\ channel # <<>>
    /\ consumer' = Consumed(Head(channel))
    /\ channel' = Tail(channel)
    /\ UNCHANGED <<request, ctxDone, timer, producer, read, acc, closed, relay>>

\* A closed channel is the end of the reply.
TakeClosed ==
    /\ consumer.pc = "select"
    /\ IF logged THEN relay.pc = "ended" ELSE closed /\ channel = <<>>
    /\ consumer' = [consumer EXCEPT !.pc = "ok"]
    /\ UNCHANGED <<request, ctxDone, timer, producer, read, acc, channel, closed, relay>>

TakeDone ==
    /\ consumer.pc = "select" /\ ctxDone
    /\ consumer' = [consumer EXCEPT !.pc = "cancelled"]
    /\ UNCHANGED <<request, ctxDone, timer, producer, read, acc, channel, closed, relay>>

Returned == consumer.pc \in {"ok", "error", "cancelled"}

\* The Task is stopped, or its process shuts down.
CancelCall ==
    /\ ~ctxDone /\ ~Returned
    /\ ctxDone' = TRUE
    /\ UNCHANGED <<request, timer, producer, read, acc, channel, closed, relay, consumer>>

-----------------------------------------------------------------------------

Producing == EmitChunk \/ EmitCancelled \/ Close \/ TooLate \/ (\E status \in {"ok", "error"} : Begin(status))
CutOff == StreamCancelled /\ (ReadFails \/ NoHeaders)
Relaying == RelayTakes \/ RelayEnds
Consuming == TakeRelayed \/ TakeChunk \/ TakeClosed \/ TakeDone

StreamNext ==
    \/ TimerFires \/ TimerActs \/ Headers \/ NoHeaders
    \/ ReadEvent \/ ReadFails \/ Producing \/ Relaying \/ Consuming \/ CancelCall

\* Goroutines that can go on do, and net/http ends a call whose context has
\* ended.  Nothing makes a server answer.
StreamFairness ==
    /\ WF_streamVars(Producing) /\ WF_streamVars(CutOff) /\ WF_streamVars(Relaying) /\ WF_streamVars(Consuming)
    /\ WF_streamVars(TimerActs)

StreamSpec == StreamInit /\ [][StreamNext]_streamVars /\ StreamFairness

-----------------------------------------------------------------------------
(* Properties *)

\* These are all tokens of the kind, each once and in the order of the reply.
Spells(tokens, kind) ==
    /\ \A i, j \in DOMAIN tokens : i < j => Before(tokens[i], tokens[j])
    /\ \A b \in DOMAIN reply : reply[b].kind = kind => ToSet(Tokens(b)) \subseteq ToSet(tokens)
    /\ \A e \in ToSet(tokens) : e[1] \in DOMAIN reply /\ reply[e[1]].kind = kind /\ IsDelta(e)

\* These are all blocks of the kind, in their order and each with its tokens.
Collects(pieces, kind) ==
    /\ {pieces[i].id : i \in DOMAIN pieces} = {b \in DOMAIN reply : reply[b].kind = kind}
    /\ \A i, j \in DOMAIN pieces : i < j => pieces[i].id < pieces[j].id
    /\ \A i \in DOMAIN pieces : pieces[i].tokens = Tokens(pieces[i].id)

\* Comment of consumeStream (engine/stream.go:12): it drains a stream "into a
\* complete InvokeResponse".  Whatever the server and the timer do, a caller
\* that goes on gets an error or the whole reply: every token once and in
\* order, and each call with its own arguments.
ReplyIsWhole ==
    consumer.pc = "ok" /\ ~ctxDone =>
        /\ Spells(consumer.text, "text")
        /\ Spells(consumer.reasoning, "thinking")
        /\ Collects(consumer.calls, "call")
        /\ IF adapter = "chat" THEN consumer.states = <<>> ELSE Collects(consumer.states, "thinking")

\* A call that is cancelled returns, and one that has returned leaves nothing
\* behind: the goroutines of the adapter and of the logger end, and with them
\* the connection, although the channel may be full and nobody reads it.
StreamEnds ==
    ctxDone \/ Returned ~> /\ Returned
                             /\ producer.pc = "ended"
                             /\ relay.pc \in {"off", "ended"}

=============================================================================
