------------------------------ MODULE Provider ------------------------------
(***************************************************************************)
(* One request to a model provider and the reading of its answer           *)
(* (supra_llm).  Three transports share one contract: Anthropic messages   *)
(* read as typed stream events, OpenAI as one blocking answer with a       *)
(* stream as fallback, Google as a stream of candidate parts.  The server  *)
(* may send any event in any order, stop in the middle, or fail.  A piece  *)
(* is what one event adds to a block; "bad" is one that leaves a tool's    *)
(* input unparseable.  heard is history: what the server said, per block.  *)
(***************************************************************************)
EXTENDS Naturals, Sequences, FiniteSets

CONSTANTS
  Indices,      \* block indices the server uses
  Pieces,       \* what an event may carry
  MaxBlocks,    \* MAX_ANTHROPIC_BLOCKS (4096 in the code)
  MaxHeard      \* bound: pieces one answer carries

ASSUME ProviderAssumption ==
  Indices \subseteq Nat /\ MaxBlocks \in Nat /\ MaxHeard \in Nat /\ Pieces # {}

ProviderKind == {"Anthropic", "OpenAI", "Google"}
BlockKind == {"text", "thinking", "redacted", "tool_use", "unknown"}
Statuses == {200, 401, 403, 404, 429, 500}
StopReason == {"EndTurn", "ToolUse", "MaxTokens"}

VARIABLES
  client,     \* the provider this client is bound to
  stage,      \* "new", "ready", "blocking", "reading", "ok", or an error class
  requests,   \* history: how often the request went out
  open,       \* blocks still receiving, by index
  complete,   \* blocks finished, by position
  stop,       \* the stop reason seen, or "none"
  terminal,   \* whether the provider's end-of-message marker was seen
  sawTool,    \* a Google functionCall part was seen
  heard       \* history: pieces the server sent, by block

providerVars == <<client, stage, requests, open, complete, stop, terminal, sawTool, heard>>
reading == <<open, complete, stop, terminal, sawTool, heard>>

\* What names a block apart from its place: one of the text blocks of an OpenAI
\* stream, one of its tool calls, or the provider's own number.
Key == {"text", "call", "block"} \X Nat
Block == [kind : BlockKind, pieces : Seq(Pieces), key : Key]

ErrorClass == {"Unauthorized", "RateLimited", "Transport", "BadResponse",
               "ThinkingBudget", "ProviderMismatch", "Credential"}

ProviderTypeOK ==
  /\ client \in ProviderKind
  /\ stage \in {"new", "ready", "blocking", "reading", "ok"} \cup ErrorClass
  /\ requests \in 0..2
  /\ \A i \in DOMAIN open : open[i] \in Block
  /\ \A i \in DOMAIN complete : complete[i] \in Block
  /\ stop \in StopReason \cup {"none"}
  /\ terminal \in BOOLEAN /\ sawTool \in BOOLEAN

ProviderInit ==
  /\ client \in ProviderKind
  /\ stage = "new"
  /\ requests = 0
  /\ open = <<>> /\ complete = <<>> /\ heard = <<>>
  /\ stop = "none"
  /\ terminal = FALSE /\ sawTool = FALSE

Put(f, i, v) == [x \in DOMAIN f \cup {i} |-> IF x = i THEN v ELSE f[x]]
Drop(f, i) == [x \in DOMAIN f \ {i} |-> f[x]]
Said == LET Total[S \in SUBSET DOMAIN heard] ==
              IF S = {} THEN 0
              ELSE LET i == CHOOSE x \in S : TRUE IN Len(heard[i]) + Total[S \ {i}]
        IN Total[DOMAIN heard]

Fail(class) == stage' = class /\ UNCHANGED <<client, requests, reading>>

(***************************************************************************)
(* Before the wire: CachePolicy, Client::new, send_with_config             *)
(***************************************************************************)
min_thinking_tokens(k) == IF k = "Anthropic" THEN 1024 ELSE 0
thinking_allowed(k, budget) == budget = 0 \/ budget >= min_thinking_tokens(k)

\* Client::new and Request::check refuse a budget below the floor; check_provider
\* refuses a request for another provider before the credential is looked up.
Prepare(provider, budget, secret) ==
  /\ stage = "new"
  /\ stage' = CASE ~thinking_allowed(client, budget) -> "ThinkingBudget"
                [] provider # client -> "ProviderMismatch"
                [] ~secret -> "Credential"
                [] OTHER -> "ready"
  /\ UNCHANGED <<client, requests, reading>>

(***************************************************************************)
(* The answer's status line                                                *)
(***************************************************************************)
\* send_anthropic, send_legacy and map_openai, by status.
classify(k, status) ==
  CASE status \in {401, 403} -> "Unauthorized"
    [] status = 429 -> "RateLimited"
    [] status = 404 -> "BadResponse"
    [] status = 500 -> IF k = "Anthropic" THEN "BadResponse" ELSE "Transport"

Send(status) ==
  /\ stage = "ready"
  /\ requests' = 1
  /\ stage' = IF status # 200 THEN classify(client, status)
              ELSE IF client = "OpenAI" THEN "blocking" ELSE "reading"
  /\ UNCHANGED <<client, reading>>

\* The request never got an answer.  OpenAI goes on to the stream (blocks_streaming).
SendFails ==
  /\ stage = "ready"
  /\ requests' = 1
  /\ stage' = IF client = "OpenAI" THEN "blocking" ELSE "Transport"
  /\ UNCHANGED <<client, reading>>

(***************************************************************************)
(* OpenAI: one blocking answer, or the same request again as a stream      *)
(***************************************************************************)
Deltas == {"text", "tool_use"}
NextPosition == Cardinality(DOMAIN complete)

\* blocking_completion: an empty list of choices is refused, a missing finish reason
\* is the end of the turn.
BlockingAnswer(kinds, reason) ==
  /\ stage = "blocking" /\ requests = 1
  /\ stage' = "ok"
  /\ complete' = [i \in 0..Len(kinds) - 1 |->
                    [kind |-> kinds[i + 1], pieces |-> <<CHOOSE p \in Pieces : TRUE>>, key |-> <<"block", i>>]]
  /\ heard' = [k \in {"block"} \X (0..Len(kinds) - 1) |-> <<CHOOSE p \in Pieces : TRUE>>]
  /\ stop' = IF reason = "none" THEN "EndTurn" ELSE reason
  /\ terminal' = TRUE
  /\ UNCHANGED <<client, requests, open, sawTool>>

BlockingEmpty == stage = "blocking" /\ Fail("BadResponse")

\* Anything but an API error or an invalid argument is retried as a stream.
StreamInstead ==
  /\ stage = "blocking"
  /\ requests = 1
  /\ requests' = 2
  /\ stage' = "reading"
  /\ UNCHANGED <<client, reading>>

\* create_stream itself is refused.
StreamRefused(status) ==
  /\ stage = "blocking"
  /\ requests = 1
  /\ status # 200
  /\ requests' = 2
  /\ stage' = classify("OpenAI", status)
  /\ UNCHANGED <<client, reading>>

OpenAiText(p) ==
  LET key == <<"text", NextPosition>> IN
  /\ client = "OpenAI" /\ stage = "reading" /\ Said < MaxHeard
  /\ complete' = Put(complete, NextPosition, [kind |-> "text", pieces |-> <<p>>, key |-> key])
  /\ heard' = Put(heard, key, <<p>>)
  /\ UNCHANGED <<client, stage, requests, open, stop, terminal, sawTool>>

\* A tool call's deltas gather under their index.
OpenAiTool(i, p) ==
  LET b == IF i \in DOMAIN open THEN open[i]
           ELSE [kind |-> "tool_use", pieces |-> <<>>, key |-> <<"call", i>>] IN
  /\ client = "OpenAI" /\ stage = "reading" /\ Said < MaxHeard
  /\ open' = Put(open, i, [b EXCEPT !.pieces = Append(@, p)])
  /\ heard' = Put(heard, b.key, Append(IF b.key \in DOMAIN heard THEN heard[b.key] ELSE <<>>, p))
  /\ UNCHANGED <<client, stage, requests, complete, stop, terminal, sawTool>>

OpenAiFinish(reason) ==
  /\ client = "OpenAI" /\ stage = "reading"
  /\ stop' = reason /\ terminal' = TRUE
  /\ UNCHANGED <<client, stage, requests, open, complete, sawTool, heard>>

\* The stream ended: without a finish reason it is refused; otherwise the tool calls
\* follow the text in index order (their input parsed, or kept as text).
Below(i) == {j \in DOMAIN open : j < i}
\* Fault: a stream that ends after some text counts as an answer.
OpenAiClose_Partial ==
  /\ client = "OpenAI" /\ stage = "reading"
  /\ stage' = "ok"
  /\ UNCHANGED <<client, requests, reading>>

OpenAiClose ==
  /\ client = "OpenAI" /\ stage = "reading"
  /\ \/ stop = "none" /\ Fail("BadResponse")
     \/ /\ stop # "none"
        /\ stage' = "ok"
        /\ complete' = [n \in 0..NextPosition + Cardinality(DOMAIN open) - 1 |->
                          IF n < NextPosition THEN complete[n]
                          ELSE open[CHOOSE i \in DOMAIN open :
                                      Cardinality(Below(i)) = n - NextPosition]]
        /\ open' = <<>>
        /\ UNCHANGED <<client, requests, stop, terminal, sawTool, heard>>

(***************************************************************************)
(* Anthropic: AnthropicStream::event and read_anthropic_sse                *)
(***************************************************************************)
Anthropic == client = "Anthropic" /\ stage = "reading"

Full == Cardinality(DOMAIN open) + Cardinality(DOMAIN complete) >= MaxBlocks

\* message_start may carry finished blocks, numbered from zero.
MessageStart(n) ==
  /\ Anthropic /\ Said + n <= MaxHeard
  /\ \/ /\ \E i \in 0..n - 1 : i \in DOMAIN complete
        /\ Fail("BadResponse")
     \/ /\ \A i \in 0..n - 1 : i \notin DOMAIN complete
        /\ IF Cardinality(DOMAIN open \cup DOMAIN complete) + n > MaxBlocks
           THEN Fail("BadResponse")
           ELSE /\ complete' = [i \in DOMAIN complete \cup 0..n - 1 |->
                                  IF i \in DOMAIN complete THEN complete[i]
                                  ELSE [kind |-> "text", pieces |-> <<CHOOSE p \in Pieces : TRUE>>, key |-> <<"block", i>>]]
                /\ heard' = [k \in DOMAIN heard \cup ({"block"} \X (0..n - 1)) |->
                               IF k[2] < n THEN <<CHOOSE p \in Pieces : TRUE>> ELSE heard[k]]
                /\ UNCHANGED <<client, stage, requests, open, stop, terminal, sawTool>>

\* Fault: a second start of a block silently begins it again.
BlockStart_Again(i, k) ==
  /\ Anthropic
  /\ open' = Put(open, i, [kind |-> k, pieces |-> <<>>, key |-> <<"block", i>>])
  /\ heard' = IF <<"block", i>> \in DOMAIN heard THEN heard ELSE Put(heard, <<"block", i>>, <<>>)
  /\ UNCHANGED <<client, stage, requests, complete, stop, terminal, sawTool>>

BlockStart(i, k) ==
  /\ Anthropic
  /\ \/ /\ i \in DOMAIN open \cup DOMAIN complete \/ Full
        /\ Fail("BadResponse")
     \/ /\ i \notin DOMAIN open \cup DOMAIN complete /\ ~Full
        /\ open' = Put(open, i, [kind |-> k, pieces |-> <<>>, key |-> <<"block", i>>])
        /\ heard' = Put(heard, <<"block", i>>, <<>>)
        /\ UNCHANGED <<client, stage, requests, complete, stop, terminal, sawTool>>

\* apply_delta: which delta a block takes.
Takes(k) == CASE k = "text" -> {"text_delta", "citations_delta"}
              [] k = "thinking" -> {"thinking_delta", "signature_delta"}
              [] k = "redacted" -> {}
              [] k \in {"tool_use", "unknown"} -> {"input_json_delta"}

BlockDelta(i, delta, p) ==
  /\ Anthropic /\ Said < MaxHeard
  /\ \/ /\ i \notin DOMAIN open \/ (i \in DOMAIN open /\ delta \notin Takes(open[i].kind))
        /\ Fail("BadResponse")
     \/ /\ i \in DOMAIN open
        /\ delta \in Takes(open[i].kind)
        /\ open' = [open EXCEPT ![i].pieces = Append(@, p)]
        /\ heard' = [heard EXCEPT ![open[i].key] = Append(@, p)]
        /\ UNCHANGED <<client, stage, requests, complete, stop, terminal, sawTool>>

\* finish: the gathered input must parse.
ArgumentsParse(b) == b.kind \in {"tool_use", "unknown"} => \A n \in DOMAIN b.pieces : b.pieces[n] # "bad"

BlockStop(i) ==
  /\ Anthropic
  /\ \/ /\ i \notin DOMAIN open \/ i \in DOMAIN complete \/ (i \in DOMAIN open /\ ~ArgumentsParse(open[i]))
        /\ Fail("BadResponse")
     \/ /\ i \in DOMAIN open \ DOMAIN complete
        /\ ArgumentsParse(open[i])
        /\ open' = Drop(open, i)
        /\ complete' = Put(complete, i, open[i])
        /\ UNCHANGED <<client, stage, requests, stop, terminal, sawTool, heard>>

MessageDelta(reason) ==
  /\ Anthropic
  /\ stop' = reason
  /\ UNCHANGED <<client, stage, requests, open, complete, terminal, sawTool, heard>>

\* message_stop, or the [DONE] payload; ping changes nothing and is no step.
MessageStop ==
  /\ Anthropic
  /\ terminal' = TRUE
  /\ UNCHANGED <<client, stage, requests, open, complete, stop, sawTool, heard>>

\* The body ended.  tail: bytes of an unfinished event are left in the buffer.
AnthropicClose(tail) ==
  /\ Anthropic
  /\ \/ /\ tail \/ ~terminal \/ DOMAIN open # {} \/ stop = "none"
        /\ Fail("BadResponse")
     \/ /\ ~tail /\ terminal /\ DOMAIN open = {} /\ stop # "none"
        /\ stage' = "ok"
        /\ UNCHANGED <<client, requests, reading>>

(***************************************************************************)
(* Google: GoogleStreamState::apply_event and read_google_sse              *)
(***************************************************************************)
Google == client = "Google" /\ stage = "reading"

GooglePart(k, p) ==
  /\ Google /\ Said < MaxHeard
  /\ complete' = Put(complete, NextPosition,
                      [kind |-> k, pieces |-> <<p>>, key |-> <<"block", NextPosition>>])
  /\ heard' = Put(heard, <<"block", NextPosition>>, <<p>>)
  /\ sawTool' = (sawTool \/ k = "tool_use")
  /\ UNCHANGED <<client, stage, requests, open, stop, terminal>>

\* finishReason; the end of a turn that called a function is a tool use.
GoogleFinish(reason) ==
  /\ Google
  /\ stop' = IF sawTool /\ reason = "EndTurn" THEN "ToolUse" ELSE reason
  /\ terminal' = TRUE
  /\ UNCHANGED <<client, stage, requests, open, complete, sawTool, heard>>

\* [DONE] ends the answer even without a finish reason.
GoogleDone ==
  /\ Google
  /\ stop' = IF stop # "none" THEN stop ELSE IF sawTool THEN "ToolUse" ELSE "EndTurn"
  /\ terminal' = TRUE
  /\ stage' = "ok"
  /\ UNCHANGED <<client, requests, open, complete, sawTool, heard>>

\* The body ended; an unfinished event left in the buffer is not looked at.
GoogleClose ==
  /\ Google
  /\ \/ stop = "none" /\ Fail("BadResponse")
     \/ stop # "none" /\ stage' = "ok" /\ UNCHANGED <<client, requests, reading>>

(***************************************************************************)
(* All transports                                                          *)
(***************************************************************************)
\* An error event, an event that does not parse or is unknown, an oversized event or
\* stream, a function call without a name.
Malformed == stage = "reading" /\ Fail("BadResponse")

\* The connection breaks in the middle; OpenAI's SDK reports that as a stream error.
Cut == stage = "reading" /\ Fail(IF client = "OpenAI" THEN "BadResponse" ELSE "Transport")

ProviderNext ==
  \/ \E k \in ProviderKind, budget \in {0, 512, 2048}, secret \in BOOLEAN : Prepare(k, budget, secret)
  \/ \E s \in Statuses : Send(s) \/ StreamRefused(s)
  \/ SendFails
  \/ \E kinds \in {<<"text">>, <<"text", "tool_use">>}, r \in StopReason \cup {"none"} : BlockingAnswer(kinds, r)
  \/ BlockingEmpty
  \/ StreamInstead
  \/ \E p \in Pieces : OpenAiText(p) \/ (\E i \in Indices : OpenAiTool(i, p))
  \/ \E r \in StopReason : OpenAiFinish(r) \/ MessageDelta(r) \/ GoogleFinish(r)
  \/ OpenAiClose
  \/ \E n \in 0..1 : MessageStart(n)
  \/ \E i \in Indices, k \in BlockKind : BlockStart(i, k)
  \/ \E i \in Indices, d \in {"text_delta", "signature_delta", "input_json_delta"}, p \in Pieces :
       BlockDelta(i, d, p)
  \/ \E i \in Indices : BlockStop(i)
  \/ MessageStop
  \/ \E tail \in BOOLEAN : AnthropicClose(tail)
  \/ \E k \in Deltas, p \in Pieces : GooglePart(k, p)
  \/ GoogleDone \/ GoogleClose
  \/ Malformed \/ Cut

ProviderSpec == ProviderInit /\ [][ProviderNext]_providerVars

-----------------------------------------------------------------------------
\* A completion is whole: the provider said it was done, no block was left open, and
\* every block is there once, in order, with exactly the pieces that were sent for it
\* ("partial text returned as a success is a wrong answer wearing a green light").
CompletionWhole ==
  stage = "ok" =>
    /\ terminal /\ stop # "none" /\ DOMAIN open = {}
    /\ {complete[i].key : i \in DOMAIN complete} = DOMAIN heard
    /\ \A i, j \in DOMAIN complete : i # j => complete[i].key # complete[j].key
    /\ \A i \in DOMAIN complete : complete[i].pieces = heard[complete[i].key]

\* client.rs, send: "The error contract is identical on every path".
SameContract ==
  \A status \in Statuses \ {200} : classify(client, status) = classify("Google", status)
=============================================================================
