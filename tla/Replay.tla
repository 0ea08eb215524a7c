------------------------------- MODULE Replay -------------------------------
(***************************************************************************)
(* Requests as each provider is sent them (supra_llm client and            *)
(* providers): a conversation of typed blocks, rendered anew every turn.   *)
(*                                                                         *)
(* A block is [kind, value, id, mark]: its text or payload; the id of the  *)
(* tool use it is or answers; and what is written only when set, a text's  *)
(* citations or a result's error.  A tool use's value is the tool's name.  *)
(***************************************************************************)
EXTENDS Integers, Sequences, FiniteSets, FiniteSetsExt, SequencesExt, Functions, TLC

(***************************************************************************)
(* The wire form of a block, kept and read back by checkpoints and the     *)
(* Anthropic body                                                          *)
(***************************************************************************)
\* Fault: only the mark of a text is written.
wire_value_NoError(block) ==
  ("type" :> block.kind) @@ ("value" :> block.value)
  @@ (IF block.kind \in {"tool_use", "tool_result"} THEN "id" :> block.id ELSE <<>>)
  @@ (IF block.kind = "text" /\ block.mark THEN "mark" :> TRUE ELSE <<>>)

\* ContentBlock::wire_value; a block not understood is its own raw object.
wire_value(block) ==
  ("type" :> block.kind) @@ ("value" :> block.value)
  @@ (IF block.kind \in {"tool_use", "tool_result"} THEN "id" :> block.id ELSE <<>>)
  @@ (IF block.mark THEN "mark" :> TRUE ELSE <<>>)

\* ContentBlock::from_wire_value; an unread field is dropped, unless the block
\* is not understood at all.
from_wire_value(value) ==
  [kind |-> value["type"], value |-> value["value"],
   id |-> IF "id" \in DOMAIN value THEN value["id"] ELSE "",
   mark |-> "mark" \in DOMAIN value]

messages_value(messages) ==
  [m \in DOMAIN messages |-> [role |-> messages[m].role,
     content |-> [b \in DOMAIN messages[m].content |-> wire_value(messages[m].content[b])]]]

(***************************************************************************)
(* Anthropic: the wire form, with cache marks on the last tool and on the  *)
(* last block                                                              *)
(***************************************************************************)
MAX_BREAKPOINTS == 4
ttl_for(breakpoint) == IF breakpoint = "Bp4PreviousTurn" THEN 5 ELSE 60
effective_breakpoints(planned) == SubSeq(planned, 1, Min({MAX_BREAKPOINTS, Len(planned)}))

\* apply_anthropic_cache_controls: <<place, minutes>>, in the order of the body.
CacheControls(request) ==
  LET placed == SelectSeq(effective_breakpoints(request.breakpoints), LAMBDA b :
        \/ b = "Bp1Tools" /\ request.tools # <<>>
        \/ b = "Bp4PreviousTurn" /\ request.messages # <<>> /\ Last(request.messages).content # <<>>) IN
  [i \in DOMAIN placed |->
     <<IF placed[i] = "Bp1Tools" THEN <<"tools", Len(request.tools)>>
       ELSE <<"messages", Len(request.messages)>>, ttl_for(placed[i])>>]

render_anthropic(request) ==
  [messages |-> messages_value(request.messages), tools |-> request.tools,
   marks |-> CacheControls(request)]

(***************************************************************************)
(* OpenAI: text and calls of an assistant's message, then results and text *)
(* of a user's each as a message of its own                                *)
(***************************************************************************)
Unreplayable == <<[role |-> "refused"]>>

openai_assistant_message(message) ==
  LET texts == SelectSeq(message.content, LAMBDA b : b.kind = "text")
      calls == SelectSeq(message.content, LAMBDA b : b.kind = "tool_use")
      text == FlattenSeq([i \in DOMAIN texts |-> texts[i].value]) IN
  IF (\E i \in DOMAIN message.content :
        message.content[i].kind \notin {"text", "tool_use"}
        \/ (message.content[i].kind = "text" /\ message.content[i].mark))
     \/ (text = <<>> /\ calls = <<>>)
  THEN Unreplayable
  ELSE <<[role |-> "assistant", text |-> text,
          calls |-> [i \in DOMAIN calls |-> <<calls[i].id, calls[i].value>>]]>>

\* Fault: text is held back to the end of the message.
openai_user_messages_TextLast(message) ==
  LET texts == SelectSeq(message.content, LAMBDA b : b.kind = "text")
      results == SelectSeq(message.content, LAMBDA b : b.kind = "tool_result")
      text == FlattenSeq([i \in DOMAIN texts |-> texts[i].value]) IN
  [i \in DOMAIN results |-> [role |-> "tool", id |-> results[i].id, text |-> results[i].value]]
  \o (IF text = <<>> THEN <<>> ELSE <<[role |-> "user", text |-> text]>>)

\* Text gathers until a result or the end flushes it.
openai_user_messages(message) ==
  LET flush(state) == IF state.text = <<>> THEN state.out
                      ELSE Append(state.out, [role |-> "user", text |-> state.text])
      step(state, b) ==
        IF b.kind = "text" THEN [state EXCEPT !.text = @ \o b.value]
        ELSE [text |-> <<>>, out |-> Append(flush(state), [role |-> "tool", id |-> b.id, text |-> b.value])]
      sent == flush(FoldLeft(step, [text |-> <<>>, out |-> <<>>], message.content)) IN
  IF (\E i \in DOMAIN message.content :
        message.content[i].kind \notin {"text", "tool_result"}
        \/ (message.content[i].kind = "text" /\ message.content[i].mark))
     \/ sent = <<>>
  THEN Unreplayable ELSE sent

openai_message(message) ==
  IF message.role = "assistant" THEN openai_assistant_message(message) ELSE openai_user_messages(message)
openai_tools(tools) == [i \in DOMAIN tools |-> [name |-> tools[i].name, parameters |-> tools[i].schema]]

\* openai_request: one message refused refuses the request.
openai_request(request) ==
  LET sent == [m \in DOMAIN request.messages |-> openai_message(request.messages[m])] IN
  IF \E m \in DOMAIN sent : sent[m] = Unreplayable
  THEN [messages |-> Unreplayable, tools |-> <<>>]
  ELSE [messages |-> FlattenSeq(sent), tools |-> openai_tools(request.tools)]

(***************************************************************************)
(* Google: results carry the name of the call they answer                  *)
(***************************************************************************)
\* The last call of an id names it.
function_names(messages) ==
  LET calls == FlattenSeq([m \in DOMAIN messages |->
        IF messages[m].role # "assistant" THEN <<>>
        ELSE SelectSeq(messages[m].content, LAMBDA b : b.kind = "tool_use")]) IN
  FoldLeft(LAMBDA names, c : (c.id :> c.value) @@ names, <<>>, calls)

GooglePart(names, block) ==
  CASE block.kind = "text" -> <<[text |-> block.value]>>
    [] block.kind = "tool_use" -> <<[call |-> block.value, id |-> block.id]>>
    [] block.kind = "tool_result" -> <<[response |-> names[block.id], id |-> block.id, content |-> block.value]>>
    [] OTHER -> <<>>

google_tools_value(tools) == [i \in DOMAIN tools |-> [name |-> tools[i].name, parameters |-> tools[i].schema]]

render_google(request) ==
  LET names == function_names(request.messages)
      messages == request.messages IN
  IF \E m \in DOMAIN messages : \E b \in DOMAIN messages[m].content :
       messages[m].content[b].kind = "tool_result" /\ messages[m].content[b].id \notin DOMAIN names
  THEN [messages |-> Unreplayable, tools |-> <<>>]
  ELSE [messages |-> [m \in DOMAIN messages |->
          [role |-> messages[m].role,
           parts |-> FlattenSeq([b \in DOMAIN messages[m].content |->
                                   GooglePart(names, messages[m].content[b])])]],
        tools |-> google_tools_value(request.tools)]

(***************************************************************************)
(* What a turn must not change of the turns before                         *)
(***************************************************************************)
Until(request, n) == [request EXCEPT !.messages = SubSeq(request.messages, 1, n)]

\* Blocks survive the wire exactly, error and citation marks included; and the
\* request of every earlier turn is a prefix of a later one, so that what a
\* provider has cached stays valid, when ids name one call each.
ReplayStable(request) ==
  LET blocks == UNION {Range(request.messages[m].content) : m \in DOMAIN request.messages} IN
  /\ \A b \in blocks : from_wire_value(wire_value(b)) = b
  /\ \A n \in 0..Len(request.messages) :
       LET before == Until(request, n) IN
       /\ IsPrefix(render_anthropic(before).messages, render_anthropic(request).messages)
       /\ (openai_request(before).messages # Unreplayable /\ openai_request(request).messages # Unreplayable)
            => IsPrefix(openai_request(before).messages, openai_request(request).messages)
       /\ (render_google(before).messages # Unreplayable /\ render_google(request).messages # Unreplayable)
            => IsPrefix(render_google(before).messages, render_google(request).messages)

\* What is said reaches OpenAI in the order it was said: a user's text and tool
\* results as they stood, and nothing that cannot be sent is silently dropped.
SaidInOrder(request) ==
  LET sent == openai_request(request).messages
      user == FlattenSeq([m \in DOMAIN request.messages |->
                IF request.messages[m].role = "user" THEN request.messages[m].content ELSE <<>>])
      told(list, pick(_), is(_)) == FlattenSeq([i \in DOMAIN list |-> IF is(list[i]) THEN pick(list[i]) ELSE <<>>]) IN
  sent # Unreplayable =>
    told(sent, LAMBDA s : IF s.role = "tool" THEN <<s.id>> \o s.text ELSE s.text, LAMBDA s : s.role # "assistant")
    = told(user, LAMBDA b : IF b.kind = "tool_result" THEN <<b.id>> \o b.value ELSE b.value, LAMBDA b : TRUE)
=============================================================================
