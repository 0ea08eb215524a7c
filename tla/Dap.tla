--------------------------------- MODULE Dap ---------------------------------
(***************************************************************************)
(* The debug-adapter client (supra_dap): one synchronous caller, an        *)
(* adapter that answers requests and pushes events when it likes, and a    *)
(* pipe read with a deadline (supra_ffi::piped).  Requests carry a         *)
(* sequence number; the reader skips what it was not asked to wait for.    *)
(***************************************************************************)
EXTENDS Naturals, Sequences

CONSTANTS
  AnswersInOrder,  \* whether the adapter answers requests in the order it got them
  MaxSeq,          \* bound: requests of one session
  MaxPushed        \* bound: events the adapter pushes

ASSUME DapAssumption == AnswersInOrder \in BOOLEAN /\ MaxSeq \in Nat /\ MaxPushed \in Nat

VARIABLES
  debugger,   \* Client: what it waits for, next_seq, initialized, held events
  adapter,    \* the process: alive, requests it has, events it pushed
  dapPipe,    \* frames on the way to the client
  consumed,   \* history: requests whose response was read
  dapReturn   \* the last operation's outcome

dapVars == <<debugger, adapter, dapPipe, consumed, dapReturn>>

Commands == {"initialize", "launch", "configurationDone", "setBreakpoints", "stackTrace"}
DapEvents == {"initialized", "stopped", "output"}

\* What read_frame tells apart: a response by its success, an event (reverse requests
\* are one), and what does not parse.
FrameForms ==
  [kind : {"response", "refusal"}, seq : 1..MaxSeq, name : {"none"}]
  \cup [kind : {"event", "malformed"}, seq : {0}, name : DapEvents]

\* What the caller is inside of: a request (seq of `command`) or wait_event(name).
Resting == [op |-> "none", command |-> "none", seq |-> 0, event |-> "none"]
DapNone == [result |-> "none", asked |-> 0, of |-> 0]

DapTypeOK ==
  /\ debugger.wait.command \in Commands \cup {"none"}
  /\ debugger.next_seq \in 0..MaxSeq /\ debugger.initialized \in BOOLEAN
  /\ debugger.events \in Seq(DapEvents)
  /\ \A i \in DOMAIN adapter.todo : adapter.todo[i].command \in Commands
  /\ \A i \in DOMAIN dapPipe : dapPipe[i] \in FrameForms
  /\ consumed \subseteq 1..MaxSeq
  /\ dapReturn.result \in {"none", "ok", "Protocol", "Transport"}

DapInit ==
  /\ debugger = [wait |-> Resting, next_seq |-> 0, initialized |-> FALSE, events |-> <<>>]
  /\ adapter = [alive |-> TRUE, todo |-> <<>>, pushed |-> 0, seen |-> {}]
  /\ dapPipe = <<>>
  /\ consumed = {}
  /\ dapReturn = DapNone

(***************************************************************************)
(* Client::send, await_response, wait_event                                *)
(***************************************************************************)
\* `commands` are written one after the other, then the first is awaited.
SendAll(op, commands) ==
  LET n == debugger.next_seq IN
  /\ adapter.alive /\ n + Len(commands) <= MaxSeq
  /\ adapter' = [adapter EXCEPT
       !.todo = @ \o [i \in DOMAIN commands |-> [seq |-> n + i, command |-> commands[i]]],
       !.seen = @ \cup {commands[i] : i \in DOMAIN commands}]
  /\ debugger' = [debugger EXCEPT !.next_seq = n + Len(commands),
                    !.wait = [op |-> op, command |-> commands[1], seq |-> n + 1, event |-> "none"]]
  /\ dapReturn' = DapNone
  /\ UNCHANGED <<dapPipe, consumed>>

Requesting == debugger.wait.seq # 0
Listening == debugger.wait.event # "none"
Return(result, of) ==
  dapReturn' = [result |-> result, asked |-> debugger.wait.seq, of |-> of]
Quit(result) ==
  /\ debugger' = [debugger EXCEPT !.wait = Resting]
  /\ Return(result, 0)

\* Fault: configurationDone is awaited under launch's number.
Continue_SameSeq ==
  LET w == debugger.wait IN
  CASE w.op = "handshake" /\ w.command = "initialize" ->
         [debugger EXCEPT !.wait = [w EXCEPT !.command = "none", !.seq = 0, !.event = "initialized"]]
    [] w.op = "handshake" /\ w.command = "launch" ->
         [debugger EXCEPT !.wait = [w EXCEPT !.command = "configurationDone"]]
    [] w.op = "handshake" /\ w.command = "configurationDone" ->
         [debugger EXCEPT !.wait = Resting, !.initialized = TRUE]
    [] OTHER -> [debugger EXCEPT !.wait = Resting]

\* initialize goes on: the event, then launch and configurationDone written
\* together, then their responses, launch first.
Continue ==
  LET w == debugger.wait IN
  CASE w.op = "handshake" /\ w.command = "initialize" ->
         [debugger EXCEPT !.wait = [w EXCEPT !.command = "none", !.seq = 0, !.event = "initialized"]]
    [] w.op = "handshake" /\ w.command = "launch" ->
         [debugger EXCEPT !.wait = [w EXCEPT !.command = "configurationDone", !.seq = w.seq + 1]]
    [] w.op = "handshake" /\ w.command = "configurationDone" ->
         [debugger EXCEPT !.wait = Resting, !.initialized = TRUE]
    [] OTHER -> [debugger EXCEPT !.wait = Resting]

\* The event the handshake waited for.
LaunchAndConfigure ==
  /\ debugger.wait.op = "handshake" /\ debugger.wait.event = "none" /\ debugger.wait.seq = 0
  /\ SendAll("handshake", <<"launch", "configurationDone">>)

\* Fault: the next response is taken, whoever asked.
Mine_Any(frame) == TRUE

\* Whether a response is the awaited one.
Mine(frame) == frame.seq = debugger.wait.seq

await_response ==
  LET frame == Head(dapPipe) IN
  /\ Requesting /\ dapPipe # <<>>
  /\ dapPipe' = Tail(dapPipe)
  /\ \/ /\ frame.kind \in {"response", "refusal"} /\ Mine(frame)
        /\ \/ frame.kind = "response" /\ debugger' = Continue /\ Return("ok", frame.seq)
           \/ frame.kind = "refusal" /\ Quit("Protocol")
        /\ consumed' = consumed \cup {frame.seq}
     \/ /\ frame.kind \in {"response", "refusal"} /\ ~Mine(frame)
        /\ consumed' = consumed \cup {frame.seq}
        /\ UNCHANGED <<debugger, dapReturn>>
     \/ /\ frame.kind = "event"
        /\ debugger' = [debugger EXCEPT !.events = Append(@, frame.name)]
        /\ UNCHANGED <<consumed, dapReturn>>
     \/ frame.kind = "malformed" /\ Quit("Protocol") /\ UNCHANGED consumed
  /\ UNCHANGED adapter

\* The wait ends with the event; the handshake then has launch to send.
Heard(events) ==
  LET w == debugger.wait IN
  /\ debugger' = [debugger EXCEPT !.events = events,
       !.wait = IF w.op = "handshake" THEN [w EXCEPT !.event = "none"] ELSE Resting]
  /\ Return("ok", 0)

FirstOf(name, events) == {i \in DOMAIN events : events[i] = name /\ \A j \in 1..i - 1 : events[j] # name}

\* wait_event empties the queue up to the event it looks for...
WaitFromQueue ==
  /\ Listening /\ debugger.events # <<>>
  /\ LET name == debugger.wait.event
         hits == FirstOf(name, debugger.events) IN
     \/ /\ hits # {}
        /\ \E i \in hits : Heard(SubSeq(debugger.events, i + 1, Len(debugger.events)))
     \/ /\ hits = {}
        /\ debugger' = [debugger EXCEPT !.events = <<>>]
        /\ UNCHANGED dapReturn
  /\ UNCHANGED <<adapter, dapPipe, consumed>>

\* ...and then reads.  An event of another name is pushed, and popped by the next turn.
WaitFromPipe ==
  LET frame == Head(dapPipe) IN
  /\ Listening /\ debugger.events = <<>> /\ dapPipe # <<>>
  /\ dapPipe' = Tail(dapPipe)
  /\ \/ frame.kind = "event" /\ frame.name = debugger.wait.event /\ Heard(<<>>) /\ UNCHANGED consumed
     \/ /\ frame.kind = "event" /\ frame.name # debugger.wait.event
        /\ debugger' = [debugger EXCEPT !.events = <<frame.name>>]
        /\ UNCHANGED <<consumed, dapReturn>>
     \/ /\ frame.kind \in {"response", "refusal"}
        /\ consumed' = consumed \cup {frame.seq}
        /\ UNCHANGED <<debugger, dapReturn>>
     \/ frame.kind = "malformed" /\ Quit("Protocol") /\ UNCHANGED consumed
  /\ UNCHANGED adapter

\* read_one on a closed pipe, or past the step deadline: the child is killed.
PipeEndsOrStalls ==
  /\ Requesting \/ (Listening /\ debugger.events = <<>>)
  /\ dapPipe = <<>>
  /\ Quit("Transport")
  /\ adapter' = [adapter EXCEPT !.alive = FALSE]
  /\ UNCHANGED <<dapPipe, consumed>>

(***************************************************************************)
(* The public operations                                                   *)
(***************************************************************************)
Ready == debugger.wait = Resting
initialize == Ready /\ SendAll("handshake", <<"initialize">>)
set_breakpoint == Ready /\ SendAll("call", <<"setBreakpoints">>)
stack_trace == Ready /\ SendAll("call", <<"stackTrace">>)
wait_event(name) ==
  /\ Ready
  /\ debugger' = [debugger EXCEPT !.wait = [Resting EXCEPT !.op = "call", !.event = name]]
  /\ dapReturn' = DapNone
  /\ UNCHANGED <<adapter, dapPipe, consumed>>

\* A write to an adapter that is gone fails every one of them.
WriteFails ==
  /\ Ready \/ (debugger.wait.op = "handshake" /\ debugger.wait.seq = 0 /\ ~Listening)
  /\ ~adapter.alive /\ debugger.next_seq < MaxSeq
  /\ debugger' = [debugger EXCEPT !.next_seq = @ + 1, !.wait = Resting]
  /\ dapReturn' = [result |-> "Transport", asked |-> debugger.next_seq + 1, of |-> 0]
  /\ UNCHANGED <<adapter, dapPipe, consumed>>

(***************************************************************************)
(* The adapter                                                             *)
(***************************************************************************)
AdapterAnswers(i, kind) ==
  /\ adapter.alive /\ i \in DOMAIN adapter.todo
  /\ AnswersInOrder => i = 1
  /\ dapPipe' = Append(dapPipe, [kind |-> kind, seq |-> adapter.todo[i].seq, name |-> "none"])
  /\ adapter' = [adapter EXCEPT !.todo = SubSeq(@, 1, i - 1) \o SubSeq(@, i + 1, Len(@))]
  /\ UNCHANGED <<debugger, consumed, dapReturn>>

AdapterPushes(kind, name) ==
  /\ adapter.alive /\ adapter.pushed < MaxPushed
  /\ name = "initialized" => "initialize" \in adapter.seen
  /\ name = "stopped" => "configurationDone" \in adapter.seen
  /\ kind = "malformed" => name = "output"
  /\ dapPipe' = Append(dapPipe, [kind |-> kind, seq |-> 0, name |-> name])
  /\ adapter' = [adapter EXCEPT !.pushed = @ + 1]
  /\ UNCHANGED <<debugger, consumed, dapReturn>>

AdapterDies ==
  /\ adapter.alive
  /\ adapter' = [adapter EXCEPT !.alive = FALSE]
  /\ UNCHANGED <<debugger, dapPipe, consumed, dapReturn>>

DapNext ==
  \/ initialize \/ LaunchAndConfigure \/ set_breakpoint \/ stack_trace
  \/ \E name \in DapEvents : wait_event(name)
  \/ await_response \/ WriteFails \/ WaitFromQueue \/ WaitFromPipe \/ PipeEndsOrStalls
  \/ \E i \in 1..MaxSeq, kind \in {"response", "refusal"} : AdapterAnswers(i, kind)
  \/ \E kind \in {"event", "malformed"}, name \in DapEvents : AdapterPushes(kind, name)
  \/ AdapterDies

DapSpec == DapInit /\ [][DapNext]_dapVars

-----------------------------------------------------------------------------
\* A request's result is the adapter's answer to that request, whatever was left
\* in the pipe by one that failed on a malformed frame (client.rs, await_response).
DapAnswerIsMine ==
  dapReturn.result = "ok" /\ dapReturn.asked # 0 => dapReturn.of = dapReturn.asked

\* Against an adapter that answers in order, the client never waits for a response
\* it has already read: initialize awaits launch before configurationDone.
NeverStarves == Requesting => debugger.wait.seq \notin consumed
=============================================================================
