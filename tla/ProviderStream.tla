---------------------------- MODULE ProviderStream ----------------------------
(***************************************************************************)
(* The two HTTP provider adapters of the daemon (Anthropic Messages and    *)
(* OpenAI Responses): one dispatched request whose answer is read as       *)
(* server-sent events, or as one body.  The endpoint may send any events   *)
(* in any order, end the stream anywhere, fail or stall.  The connectivity *)
(* probe of mealyctl judges the same answer.                               *)
(***************************************************************************)
EXTENDS Naturals, Sequences, FiniteSets, SequencesExt

CONSTANTS
    Indexes,             \* content block indexes, natural numbers
    Visible, Blank,      \* pieces of text, one unit of bytes each
    MaximumOutputTokens, \* of the request
    MaxFinalText,        \* MAXIMUM_FINAL_TEXT_BYTES
    MaxProbeText,        \* PROVIDER_PROBE_MAXIMUM_TEXT_BYTES
    MaxStreamEvents      \* bound: events the endpoint sends

ASSUME StreamBounds ==
    Indexes \subseteq Nat /\ Visible \cap Blank = {} /\ MaxProbeText <= MaxFinalText

VARIABLES
    protocol,   \* the adapter of the endpoint
    streaming,  \* its streaming capability
    wire,       \* history: the events the adapter took
    stream,     \* AnthropicStreamState, or the Responses streamed_text
    answer,     \* what complete_with_progress returns
    phase,      \* where the provider thread is
    emitted,    \* the text handed to the progress sink
    probe       \* the probe's verdict on the same stream

streamVars == <<protocol, streaming, wire, stream, answer, phase, emitted, probe>>

Pieces == Visible \cup Blank
IsBlank(text) == \A i \in DOMAIN text : text[i] \in Blank

NoAnswer == [kind |-> "none", text |-> <<>>, class |-> "none", known |-> TRUE,
             retryable |-> FALSE]

ProviderError(class, retryable) ==
    [NoAnswer EXCEPT !.kind = "error", !.class = class, !.retryable = retryable]

OutcomeUnknown(class, retryable) ==
    [ProviderError(class, retryable) EXCEPT !.known = FALSE]

InvalidStream == ProviderError("invalid_response", FALSE)
Final(text) == [NoAnswer EXCEPT !.kind = "final", !.text = text]
ToolCall == [NoAnswer EXCEPT !.kind = "tool"]

EmptyStream == [started |-> FALSE, blocks |-> <<>>, stopped |-> {},
                reason |-> "none", output |-> 0, bytes |-> 0, text |-> <<>>]
NoProbe == [started |-> FALSE, block |-> "none", stopped |-> FALSE,
            text |-> <<>>, reason |-> FALSE, verdict |-> "open"]
StreamInit ==
    /\ protocol \in {"anthropic", "responses"} /\ streaming \in BOOLEAN
    /\ wire = <<>> /\ stream = EmptyStream /\ answer = NoAnswer
    /\ phase = "sending" /\ emitted = <<>>
    /\ probe = NoProbe

-----------------------------------------------------------------------------
(***************************************************************************)
(* Anthropic Messages events.  `valid' stands for the identity, content    *)
(* and usage checks of message_start; a tool block's input is "empty"      *)
(* until a fragment arrives, an "object" if the fragments make one.        *)
(***************************************************************************)
Event(type, fields) == fields @@ [type |-> type]

AnthropicEvents ==
    {Event("message_start", [valid |-> v]) : v \in BOOLEAN}
    \cup {Event("content_block_start", [index |-> i, block |-> "text", text |-> t]) :
             i \in Indexes, t \in {<<>>} \cup {<<p>> : p \in Visible}}
    \cup {Event("content_block_start", [index |-> i, block |-> b, text |-> <<>>]) :
             i \in Indexes, b \in {"tool", "unsupported"}}
    \cup {Event("content_block_delta", [index |-> i, delta |-> p]) :
             i \in Indexes, p \in Pieces \cup {"object", "fragment"}}
    \cup {Event("content_block_stop", [index |-> i]) : i \in Indexes}
    \cup {Event("message_delta", [reason |-> r, output |-> 1]) :
             r \in {"none", "end_turn", "tool_use", "max_tokens"}}
    \cup {Event("message_delta", [reason |-> "end_turn", output |-> n]) :
             n \in {0, MaximumOutputTokens + 1}}
    \cup {Event("message_stop", <<>>), Event("ping", <<>>),
          Event("malformed", <<>>)}
    \cup {Event("error", [kind |-> k]) : k \in {"overloaded", "permission"}}

Started(s) == s.started

MessageStart(s, e) ==
    IF s.started \/ ~e.valid THEN [state |-> s, answer |-> InvalidStream]
    ELSE [state |-> [s EXCEPT !.started = TRUE, !.output = 1],
          answer |-> NoAnswer]

ContentBlockStart(s, e) ==
    IF ~Started(s) \/ e.index \in DOMAIN s.blocks
          \/ s.bytes + Len(e.text) > MaxFinalText
    THEN [state |-> s, answer |-> InvalidStream]
    ELSE [state |-> [s EXCEPT
              !.blocks = @ @@ (e.index :> [kind |-> e.block, text |-> e.text,
                                           input |-> "empty"]),
              !.bytes = @ + Len(e.text)],
          answer |-> NoAnswer]

\* The delta must fit the block it names; fragments for a block of an
\* unsupported kind are ignored.
DeltaFits(s, e) ==
    /\ e.index \in DOMAIN s.blocks
    /\ \/ s.blocks[e.index].kind = "unsupported"
       \/ s.blocks[e.index].kind = "text" /\ e.delta \in Pieces
       \/ s.blocks[e.index].kind = "tool" /\ e.delta \notin Pieces

TextDelta(s, e) ==
    IF e.index \in DOMAIN s.blocks /\ s.blocks[e.index].kind = "text"
          /\ e.delta \in Pieces
    THEN <<e.delta>> ELSE <<>>

ContentBlockDelta(s, e) ==
    IF ~Started(s) \/ e.index \in s.stopped \/ ~DeltaFits(s, e)
          \/ s.bytes + Len(TextDelta(s, e)) > MaxFinalText
    THEN [state |-> s, answer |-> InvalidStream]
    ELSE [state |-> [s EXCEPT
              !.blocks[e.index].text = @ \o TextDelta(s, e),
              !.blocks[e.index].input =
                  IF s.blocks[e.index].kind # "tool" THEN @
                  ELSE IF @ = "empty" THEN e.delta ELSE "fragment",
              !.bytes = @ + Len(TextDelta(s, e))],
          answer |-> NoAnswer]

ContentBlockStop(s, e) ==
    IF ~Started(s) \/ e.index \notin DOMAIN s.blocks \/ e.index \in s.stopped
    THEN [state |-> s, answer |-> InvalidStream]
    ELSE [state |-> [s EXCEPT !.stopped = @ \cup {e.index}],
          answer |-> NoAnswer]

MessageDelta(s, e) ==
    IF ~Started(s) \/ (e.reason # "none" /\ s.reason \notin {"none", e.reason})
          \/ e.output < s.output
    THEN [state |-> s, answer |-> InvalidStream]
    ELSE [state |-> [s EXCEPT !.reason = IF e.reason = "none" THEN @ ELSE e.reason,
                              !.output = e.output],
          answer |-> NoAnswer]

-----------------------------------------------------------------------------
\* decode_stream_decision reads the blocks in index order.
BlockOrder(blocks) == SetToSortSeq(DOMAIN blocks, <)

DecodeStreamDecision(s) ==
    LET order == BlockOrder(s.blocks)
        text  == FlattenSeq([i \in DOMAIN order |-> s.blocks[order[i]].text])
        tools == {i \in DOMAIN s.blocks : s.blocks[i].kind = "tool"}
    IN  IF \/ \E i \in DOMAIN s.blocks : s.blocks[i].kind = "unsupported"
           \/ Cardinality(tools) > 1
           \/ \E i \in tools : s.blocks[i].input # "object"
        THEN [decided |-> FALSE, tool |-> FALSE, text |-> text]
        ELSE [decided |-> TRUE, tool |-> tools # {}, text |-> text]

\* normalized_finish_reason: the stop reason must match the decision.
FinishReasonFits(reason, tool) ==
    \/ reason = "tool_use" /\ tool
    \/ reason = "end_turn" /\ ~tool

DecisionFromParts(d, reason) ==
    IF IsBlank(d.text) # d.tool \/ ~FinishReasonFits(reason, d.tool)
    THEN InvalidStream
    ELSE IF d.tool THEN ToolCall ELSE Final(d.text)

ValidateUsage(output) == output <= MaximumOutputTokens

MessageStop(s, e) ==
    LET d == DecodeStreamDecision(s)
    IN  [state |-> s,
         answer |-> IF \/ ~Started(s) \/ DOMAIN s.blocks # s.stopped
                       \/ s.reason = "none" \/ ~d.decided
                       \/ ~ValidateUsage(s.output)
                    THEN InvalidStream
                    ELSE DecisionFromParts(d, s.reason)]

\* A terminal Messages body: `valid' stands for its JSON, its identity and
\* its usage.
ContentBlocks ==
    [kind : {"text"}, text : {<<>>} \cup {<<p>> : p \in Pieces}]
    \cup [kind : {"tool", "undeclared_tool", "unsupported"}, text : {<<>>}]

AnthropicBodies ==
    [valid : BOOLEAN, reason : {"none", "end_turn", "tool_use", "max_tokens"},
     content : UNION {[1..k -> ContentBlocks] : k \in 0..2}]

\* decode_decision of the Messages content blocks.
DecodeContent(content) ==
    LET text  == FlattenSeq([i \in DOMAIN content |-> content[i].text])
        Of(k) == {i \in DOMAIN content : content[i].kind = k}
    IN  [decided |-> /\ Of("unsupported") = {} /\ Of("undeclared_tool") = {}
                     /\ Cardinality(Of("tool")) <= 1 /\ Len(text) <= MaxFinalText,
         tool |-> Of("tool") # {}, text |-> text]

\* decode_response of the Anthropic adapter.
DecodeAnthropicBody(r) ==
    LET d == DecodeContent(r.content)
    IN  IF ~r.valid \/ r.reason = "none" \/ ~d.decided THEN InvalidStream
        ELSE DecisionFromParts(d, r.reason)

\* error_from_stream_kind: after dispatch the outcome is never known.
ErrorFromStreamKind(kind) ==
    IF kind = "overloaded" THEN OutcomeUnknown("unavailable", TRUE)
    ELSE OutcomeUnknown("invalid_request", FALSE)

DecodeAnthropicEvent(s, e) ==
    CASE e.type = "message_start" -> MessageStart(s, e)
      [] e.type = "content_block_start" -> ContentBlockStart(s, e)
      [] e.type = "content_block_delta" -> ContentBlockDelta(s, e)
      [] e.type = "content_block_stop" -> ContentBlockStop(s, e)
      [] e.type = "message_delta" -> MessageDelta(s, e)
      [] e.type = "message_stop" -> MessageStop(s, e)
      [] e.type = "error" -> [state |-> s, answer |-> ErrorFromStreamKind(e.kind)]
      [] e.type = "malformed" -> [state |-> s, answer |-> InvalidStream]
      [] OTHER -> [state |-> s, answer |-> NoAnswer]

-----------------------------------------------------------------------------
(***************************************************************************)
(* OpenAI Responses events.  A terminal event carries the whole response:  *)
(* its validity (identity, status, usage), an error code, and its output   *)
(* items, here the text of its messages and the number of function calls.  *)
(***************************************************************************)
Texts(n) == UNION {[1..k -> Pieces] : k \in 0..n}

Envelopes ==
    [valid : BOOLEAN, code : {"none"}, text : Texts(2), calls : 0..2]
    \cup [valid : {TRUE}, code : {"server_error", "other"}, text : {<<>>},
          calls : {0}]

ResponsesEvents ==
    {Event("delta", [delta |-> p]) : p \in Pieces}
    \cup {Event("completed", [response |-> r]) : r \in Envelopes}
    \cup {Event("failed", [response |-> r]) : r \in {x \in Envelopes : ~x.valid \/ x.code # "none"}}
    \cup {Event("ping", <<>>), Event("malformed", <<>>)}
    \cup {Event("error", [kind |-> k]) : k \in {"server_error", "other"}}

ErrorFromCode(code) ==
    IF code = "server_error" THEN ProviderError("unavailable", TRUE)
    ELSE InvalidStream

\* decode_decision of the Responses output items.
DecodeDecision(r) ==
    IF r.calls > 1 \/ Len(r.text) > MaxFinalText \/ (r.calls = 1) # IsBlank(r.text)
    THEN InvalidStream
    ELSE IF r.calls = 1 THEN ToolCall ELSE Final(r.text)

DecodeResponse(r) ==
    IF r.code # "none" THEN ErrorFromCode(r.code)
    ELSE IF ~r.valid THEN InvalidStream
    ELSE DecodeDecision(r)

\* Mutant of ResponseCompleted: the streamed text is not compared.
ResponseCompletedUnchecked(s, r) == DecodeResponse(r)

\* response.completed: the terminal text is the streamed text.
ResponseCompleted(s, r) ==
    LET a == DecodeResponse(r)
    IN  IF s.text # <<>> /\ (a.kind = "tool" \/ (a.kind = "final" /\ a.text # s.text))
        THEN InvalidStream ELSE a

DecodeResponsesEvent(s, e) ==
    CASE e.type = "delta" ->
            IF Len(s.text) + 1 > MaxFinalText
            THEN [state |-> s, answer |-> InvalidStream]
            ELSE [state |-> [s EXCEPT !.text = Append(@, e.delta)],
                  answer |-> NoAnswer]
      [] e.type = "completed" ->
            [state |-> s, answer |-> ResponseCompleted(s, e.response)]
      [] e.type = "failed" -> [state |-> s, answer |-> DecodeResponse(e.response)]
      [] e.type = "error" -> [state |-> s, answer |-> ErrorFromCode(e.kind)]
      [] e.type = "malformed" -> [state |-> s, answer |-> InvalidStream]
      [] OTHER -> [state |-> s, answer |-> NoAnswer]

Events == IF protocol = "anthropic" THEN AnthropicEvents ELSE ResponsesEvents

DecodeStreamEvent(s, e) ==
    IF protocol = "anthropic" THEN DecodeAnthropicEvent(s, e)
    ELSE DecodeResponsesEvent(s, e)

\* The text an accepted event hands to the progress sink: deltas only, not
\* the text a block starts with.
ProgressOf(s, e) ==
    CASE e.type = "content_block_delta" -> TextDelta(s, e)
      [] e.type = "delta" -> <<e.delta>>
      [] OTHER -> <<>>

-----------------------------------------------------------------------------
(***************************************************************************)
(* The connectivity probe of mealyctl reads the same stream.               *)
(***************************************************************************)
Refused(p) == [p EXCEPT !.verdict = "refused"]

ProbeAnthropicEvent(p, e) ==
    CASE e.type = "message_start" ->
            IF p.started \/ ~e.valid THEN Refused(p)
            ELSE [p EXCEPT !.started = TRUE]
      [] e.type = "content_block_start" ->
            IF ~p.started \/ p.block # "none" \/ p.reason \/ e.block # "text"
                  \/ Len(e.text) > MaxProbeText
            THEN Refused(p)
            ELSE [p EXCEPT !.block = ToString(e.index), !.text = e.text]
      [] e.type = "content_block_delta" ->
            IF p.block # ToString(e.index) \/ p.stopped \/ e.delta \notin Pieces
                  \/ Len(p.text) + 1 > MaxProbeText
            THEN Refused(p)
            ELSE [p EXCEPT !.text = Append(@, e.delta)]
      [] e.type = "content_block_stop" ->
            IF p.block # ToString(e.index) \/ p.stopped THEN Refused(p)
            ELSE [p EXCEPT !.stopped = TRUE]
      [] e.type = "message_delta" ->
            IF ~p.started \/ ~p.stopped \/ p.reason \/ e.reason # "end_turn"
                  \/ e.output \notin 1..MaximumOutputTokens
            THEN Refused(p)
            ELSE [p EXCEPT !.reason = TRUE]
      [] e.type = "message_stop" ->
            IF p.started /\ p.stopped /\ p.text # <<>> /\ p.reason
            THEN [p EXCEPT !.verdict = "accepted"] ELSE Refused(p)
      [] e.type \in {"error", "malformed"} -> Refused(p)
      [] OTHER -> p

ProbeResponseText(r) ==
    /\ r.valid /\ r.code = "none" /\ r.calls = 0
    /\ Len(r.text) <= MaxProbeText /\ ~IsBlank(r.text)

ProbeResponsesEvent(p, e) ==
    CASE e.type = "delta" ->
            IF Len(p.text) + 1 > MaxProbeText THEN Refused(p)
            ELSE [p EXCEPT !.text = Append(@, e.delta)]
      [] e.type = "completed" ->
            IF ProbeResponseText(e.response)
                  /\ (p.text = <<>> \/ p.text = e.response.text)
            THEN [p EXCEPT !.verdict = "accepted", !.text = e.response.text]
            ELSE Refused(p)
      [] e.type \in {"failed", "error", "malformed"} -> Refused(p)
      [] OTHER -> p

\* validate_anthropic_probe_envelope
ProbeAnthropicBody(r) ==
    LET text == FlattenSeq([i \in DOMAIN r.content |-> r.content[i].text])
    IN  /\ r.valid /\ r.content # <<>> /\ text # <<>> /\ Len(text) <= MaxProbeText
        /\ \A i \in DOMAIN r.content : r.content[i].kind = "text"
        /\ r.reason = "end_turn"

ProbeBody(r) ==
    IF protocol = "anthropic"
    THEN IF ProbeAnthropicBody(r)
         THEN [NoProbe EXCEPT !.verdict = "accepted",
                 !.text = FlattenSeq([i \in DOMAIN r.content |-> r.content[i].text])]
         ELSE Refused(NoProbe)
    ELSE IF ProbeResponseText(r)
         THEN [NoProbe EXCEPT !.verdict = "accepted", !.text = r.text]
         ELSE Refused(NoProbe)

ProbeEvent(p, e) ==
    IF p.verdict # "open" THEN p
    ELSE IF protocol = "anthropic" THEN ProbeAnthropicEvent(p, e)
    ELSE ProbeResponsesEvent(p, e)

-----------------------------------------------------------------------------
\* The adapter returns; after an error its state is dropped.
Return(a) == answer' = a /\ phase' = "over"

ReturnError(a) == Return(a) /\ stream' = EmptyStream /\ wire' = <<>>

\* send(): the response head, an error status, or a transport failure.
StatusErrors == {ProviderError("timeout", TRUE), ProviderError("rate_limited", TRUE),
                 ProviderError("unavailable", TRUE),
                 ProviderError("invalid_request", FALSE), InvalidStream}

ConnectFailure == ProviderError("unavailable", TRUE)

TransportErrors == {OutcomeUnknown("timeout", TRUE), OutcomeUnknown("unavailable", TRUE)}

Send ==
    /\ phase = "sending"
    /\ \/ phase' = "reading" /\ UNCHANGED <<answer, wire, stream>>
       \/ \E a \in StatusErrors \cup TransportErrors \cup {ConnectFailure} : ReturnError(a)
    /\ UNCHANGED <<protocol, streaming, emitted, probe>>

Deliver(e) ==
    /\ phase = "reading" /\ streaming /\ Len(wire) < MaxStreamEvents
    /\ LET d == DecodeStreamEvent(stream, e)
       IN  \/ /\ d.answer = NoAnswer
              /\ stream' = d.state
              /\ wire' = IF e.type = "ping" THEN wire ELSE Append(wire, e)
              /\ emitted' = emitted \o ProgressOf(stream, e)
              /\ UNCHANGED <<answer, phase>>
           \/ /\ d.answer.kind \in {"final", "tool"}
              /\ Return(d.answer)
              /\ stream' = d.state /\ wire' = Append(wire, e)
              /\ UNCHANGED emitted
           \/ /\ d.answer.kind = "error"
              /\ ReturnError(d.answer)
              /\ UNCHANGED emitted
    /\ probe' = ProbeEvent(probe, e)
    /\ UNCHANGED <<protocol, streaming>>

\* The peer closes the stream: at an event boundary no terminal event came;
\* inside an event the remainder is not JSON.
StreamEnds(inside) ==
    /\ phase = "reading" /\ streaming
    /\ ReturnError(IF inside THEN InvalidStream ELSE OutcomeUnknown("unavailable", TRUE))
    /\ probe' = IF probe.verdict = "open" THEN Refused(probe) ELSE probe
    /\ UNCHANGED <<protocol, streaming, emitted>>

\* read_response_body_async came to the end of the body; a truncated or
\* malformed one is not valid.
BodyArrives(r) ==
    /\ phase = "reading" /\ ~streaming
    /\ Return(IF protocol = "anthropic" THEN DecodeAnthropicBody(r)
              ELSE DecodeResponse(r))
    /\ probe' = ProbeBody(r)
    /\ UNCHANGED <<protocol, streaming, wire, stream, emitted>>

Bodies == IF protocol = "anthropic" THEN AnthropicBodies ELSE Envelopes

TransportFails ==
    /\ phase = "reading"
    /\ \E a \in TransportErrors : ReturnError(a)
    /\ UNCHANGED <<protocol, streaming, emitted, probe>>

\* The 50 ms poll sees the local timeout or the durable cancellation request.
ObserveCancellation ==
    /\ phase \in {"sending", "reading"}
    /\ ReturnError(OutcomeUnknown("cancelled", FALSE))
    /\ UNCHANGED <<protocol, streaming, emitted, probe>>

StreamNext ==
    \/ Send \/ TransportFails \/ ObserveCancellation
    \/ \E e \in Events : Deliver(e)
    \/ \E inside \in BOOLEAN : StreamEnds(inside)
    \/ \E r \in Bodies : BodyArrives(r)

-----------------------------------------------------------------------------
(***************************************************************************)
(* Properties.                                                             *)
(***************************************************************************)

\* Type correctness: a stream has an answer exactly when it is over.
StreamTypeOK ==
    /\ answer.kind \in {"none", "final", "tool", "error"}
    /\ phase \in {"sending", "reading", "over"}
    /\ (answer = NoAnswer) <=> (phase # "over")
    /\ stream.stopped \subseteq DOMAIN stream.blocks
    /\ stream.bytes <= MaxFinalText /\ Len(stream.text) <= MaxFinalText

Sent(type) == {i \in DOMAIN wire : wire[i].type = type}
SentFor(i) == {k \in DOMAIN wire :
                 /\ wire[k].type \in {"content_block_start", "content_block_delta",
                                      "content_block_stop"}
                 /\ wire[k].index = i}

\* The text a complete Anthropic stream means: for each block in index
\* order, the text it starts with and its deltas.
BlockText(i) ==
    FlattenSeq([k \in DOMAIN wire |->
        IF k \notin SentFor(i) THEN <<>>
        ELSE IF wire[k].type = "content_block_start" THEN wire[k].text
        ELSE IF wire[k].type = "content_block_delta" /\ wire[k].delta \in Pieces
        THEN <<wire[k].delta>> ELSE <<>>])

MeantText ==
    LET started == {wire[k].index : k \in Sent("content_block_start")}
        order   == SetToSortSeq(started, <)
    IN  FlattenSeq([k \in DOMAIN order |-> BlockText(order[k])])

\* A stream becomes an answer only if it was whole: one message_start before
\* everything else that counts, every block started once, then fed, then
\* stopped once, a stop reason, and message_stop last; and the answer is the
\* text that stream means (docs/QUICKSTART.md: a truncated or inconsistent
\* stream cannot become the final answer).
AnswerIsWhole ==
    protocol = "anthropic" /\ streaming /\ answer.kind \in {"final", "tool"} =>
        /\ Sent("message_stop") = {Len(wire)}
        /\ Sent("message_start") = {1}
        /\ \A k \in Sent("content_block_start") :
              /\ SentFor(wire[k].index) \subseteq k..Len(wire)
              /\ \E m \in SentFor(wire[k].index) \cap Sent("content_block_stop") :
                    /\ SentFor(wire[k].index) \subseteq k..m
                    /\ SentFor(wire[k].index) \cap Sent("content_block_stop") = {m}
        /\ \E k \in Sent("message_delta") : wire[k].reason # "none"
        /\ answer.kind = "final" => answer.text = MeantText
        /\ answer.kind = "tool" => IsBlank(MeantText)

\* Whatever was streamed to the owner is the answer: a Responses answer with
\* streamed text is exactly that text and never a tool call, and an Anthropic
\* answer contains every piece that was streamed.
ShownIsAnswer ==
    answer.kind \in {"final", "tool"} /\ emitted # <<>> =>
        IF protocol = "responses" THEN answer.kind = "final" /\ answer.text = emitted
        ELSE answer.kind = "final" =>
               \A p \in Pieces : Len(SelectSeq(emitted, LAMBDA x : x = p))
                                   <= Len(SelectSeq(answer.text, LAMBDA x : x = p))

\* An endpoint whose stream the connectivity probe of the setup commands
\* accepts would have given the daemon an answer from the same bytes (a
\* stream of blanks only is the exception: the probe counts bytes).
ProbeIsStricter ==
    probe.verdict = "accepted" /\ ~IsBlank(probe.text) /\ phase = "over" =>
        answer.kind = "final" /\ answer.text = probe.text

\* What an adapter promises of any event sequence: an accepted answer is whole,
\* it is the text that was shown, and the setup probe accepts nothing that the
\* daemon would refuse.
StreamSafety ==
  /\ StreamTypeOK
  /\ AnswerIsWhole
  /\ ShownIsAnswer
  /\ ProbeIsStricter
=============================================================================
