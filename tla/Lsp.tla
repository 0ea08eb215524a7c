--------------------------------- MODULE Lsp ---------------------------------
(***************************************************************************)
(* The language-server client (supra_lsp): references asked of a child     *)
(* process that may stall, break the framing, die cleanly or in the middle *)
(* of a frame.  A server seen to close its pipe while it owes the          *)
(* references is replaced once, and the fresh one is initialized first.    *)
(* Frames are read whole, each read under a deadline (supra_ffi::piped).   *)
(***************************************************************************)
EXTENDS Naturals, Sequences

CONSTANTS
  MaxLspIds,     \* bound: request ids
  MaxSpawns      \* bound: server processes

ASSUME LspAssumption == MaxLspIds \in Nat /\ MaxSpawns \in Nat \ {0}

VARIABLES
  lsp,        \* Client: where a call is, next_id, initialized
  server,     \* the child: which one, alive, requests it owes, what it was told
  lspPipe,    \* frames on the way to the client
  lspReturn   \* the last call's outcome and what its answer answered

lspVars == <<lsp, server, lspPipe, lspReturn>>

\* A call: idle; "initialize" or "references", the first time or (again) on a fresh server.
Idling == [at |-> "idle", id |-> 0, again |-> FALSE]
NewServer(n) == [spawn |-> n, alive |-> TRUE, owes |-> {}, handshaken |-> FALSE, asked |-> FALSE]
LspNone == [result |-> "none", asked |-> <<0, 0>>, of |-> <<0, 0>>, restarted |-> FALSE]

\* What a frame is to read_frame.  A request of the server's own carries an id and
\* is classed as a response without a result; so is an error response.
FrameKind == {"response", "empty", "notification", "malformed", "cut"}

LspTypeOK ==
  /\ lsp.call.at \in {"idle", "initialize", "references"}
  /\ lsp.next_id \in 0..MaxLspIds + 3 /\ lsp.initialized \in BOOLEAN
  /\ server.spawn \in 1..MaxSpawns /\ server.owes \subseteq 0..MaxLspIds + 3
  /\ \A i \in DOMAIN lspPipe : lspPipe[i].kind \in FrameKind
  /\ lspReturn.result \in {"none", "ok", "Transport", "Protocol", "Crashed"}

LspInit ==
  /\ lsp = [call |-> Idling, next_id |-> 0, initialized |-> FALSE]
  /\ server = NewServer(1)
  /\ lspPipe = <<>>
  /\ lspReturn = LspNone

Awaiting == lsp.call.at # "idle"

Give(result, of) ==
  /\ lsp' = [lsp EXCEPT !.call = Idling]
  /\ lspReturn' = [result |-> result, asked |-> <<server.spawn, lsp.call.id>>, of |-> of,
                   restarted |-> lsp.call.again]

\* On the second try every failure of the references request reads as Crashed.
Class(class) == IF lsp.call.again /\ lsp.call.at = "references" THEN "Crashed" ELSE class

\* initialize uses next_id and then moves it; references_once moves it first.
InitializeCall(n, again) == [call |-> [at |-> "initialize", id |-> n, again |-> again],
                             next_id |-> n + 1, initialized |-> FALSE]
ReferencesCall(l, again) == [l EXCEPT !.next_id = @ + 1,
                                      !.call = [at |-> "references", id |-> l.next_id + 1, again |-> again]]

(***************************************************************************)
(* Client::references                                                      *)
(***************************************************************************)
references ==
  LET next == IF lsp.initialized THEN ReferencesCall(lsp, FALSE) ELSE InitializeCall(lsp.next_id, FALSE) IN
  /\ ~Awaiting /\ lsp.next_id < MaxLspIds
  /\ \/ /\ server.alive
        /\ lsp' = next
        /\ server' = [server EXCEPT !.owes = @ \cup {next.call.id},
                                    !.asked = @ \/ next.call.at = "references"]
        /\ lspReturn' = LspNone
     \/ /\ ~server.alive   \* write_framed fails: Transport
        /\ lsp' = [next EXCEPT !.call = Idling]
        /\ lspReturn' = [LspNone EXCEPT !.result = "Transport"]
        /\ UNCHANGED server
  /\ UNCHANGED lspPipe

\* The handshake's answer: `initialized` is sent, and the references request.
Proceed(frame) ==
  LET next == ReferencesCall([lsp EXCEPT !.initialized = TRUE], lsp.call.again) IN
  \/ /\ lsp.call.at = "initialize" /\ server.alive
     /\ lsp' = next
     /\ server' = [server EXCEPT !.owes = @ \cup {next.call.id}, !.handshaken = TRUE, !.asked = TRUE]
     /\ lspReturn' = LspNone
  \/ /\ lsp.call.at = "initialize" /\ ~server.alive
     /\ Give("Transport", <<0, 0>>)
     /\ UNCHANGED server
  \/ /\ lsp.call.at = "references"
     /\ IF frame.kind = "response" THEN Give("ok", <<frame.spawn, frame.id>>)
        ELSE Give(Class("Protocol"), <<0, 0>>)
     /\ UNCHANGED server

\* Fault: any response is taken for the awaited one.
Expected_Any(frame) == frame.kind \in {"response", "empty"}

\* Whether a frame carries the awaited id.
Expected(frame) == frame.kind \in {"response", "empty"} /\ frame.id = lsp.call.id

send_and_expect ==
  LET frame == Head(lspPipe) IN
  /\ Awaiting /\ lspPipe # <<>>
  /\ lspPipe' = Tail(lspPipe)
  /\ \/ Expected(frame) /\ Proceed(frame)
     \/ /\ frame.kind \in {"response", "empty", "notification"} /\ ~Expected(frame)
        /\ UNCHANGED <<lsp, server, lspReturn>>
     \/ /\ frame.kind = "malformed"
        /\ Give(Class("Protocol"), <<0, 0>>)
        /\ UNCHANGED server
     \/ /\ frame.kind = "cut"   \* the body ends early: read_exact_to fails
        /\ Give(Class("Transport"), <<0, 0>>)
        /\ server' = [server EXCEPT !.alive = FALSE]

\* No byte before the deadline: the child is killed.
ReadStalls ==
  /\ Awaiting /\ lspPipe = <<>> /\ server.alive
  /\ Give(Class("Transport"), <<0, 0>>)
  /\ server' = [server EXCEPT !.alive = FALSE]
  /\ UNCHANGED lspPipe

Dead == Awaiting /\ lspPipe = <<>> /\ ~server.alive

\* Fault: the fresh server is asked for references at once.
Restart_Unannounced ==
  /\ Dead /\ lsp.call.at = "references" /\ ~lsp.call.again
  /\ server.spawn < MaxSpawns
  /\ server' = [NewServer(server.spawn + 1) EXCEPT !.owes = {lsp.next_id + 1}, !.asked = TRUE]
  /\ lsp' = ReferencesCall(lsp, TRUE)
  /\ UNCHANGED <<lspPipe, lspReturn>>

\* The pipe closed between frames.  The first time and while references are owed,
\* a fresh server is spawned and initialized; otherwise Crashed is the answer.
Restart ==
  /\ Dead /\ lsp.call.at = "references" /\ ~lsp.call.again
  /\ server.spawn < MaxSpawns
  /\ server' = [NewServer(server.spawn + 1) EXCEPT !.owes = {lsp.next_id}]
  /\ lsp' = InitializeCall(lsp.next_id, TRUE)
  /\ UNCHANGED <<lspPipe, lspReturn>>

RestartFails ==
  /\ Dead /\ lsp.call.at = "references" /\ ~lsp.call.again
  /\ lsp' = [lsp EXCEPT !.call = Idling, !.initialized = FALSE]
  /\ lspReturn' = [LspNone EXCEPT !.result = "Transport", !.restarted = TRUE]
  /\ UNCHANGED <<server, lspPipe>>

Crashed ==
  /\ Dead /\ (lsp.call.at = "initialize" \/ lsp.call.again)
  /\ Give("Crashed", <<0, 0>>)
  /\ UNCHANGED <<server, lspPipe>>

(***************************************************************************)
(* The server                                                              *)
(***************************************************************************)
ServerSays(kind, id) ==
  /\ server.alive /\ Len(lspPipe) < 2   \* bound: frames in the pipe
  /\ kind = "response" => id \in server.owes
  /\ kind \in {"notification", "malformed", "cut"} => id = 0
  /\ lspPipe' = Append(lspPipe, [kind |-> kind, id |-> id, spawn |-> server.spawn])
  /\ server' = [server EXCEPT !.owes = IF kind = "response" THEN @ \ {id} ELSE @,
                              !.alive = kind # "cut"]
  /\ UNCHANGED <<lsp, lspReturn>>

ServerExits ==
  /\ server.alive
  /\ server' = [server EXCEPT !.alive = FALSE]
  /\ UNCHANGED <<lsp, lspPipe, lspReturn>>

LspNext ==
  \/ references \/ send_and_expect \/ ReadStalls
  \/ Restart \/ RestartFails \/ Crashed
  \/ \E kind \in FrameKind, id \in 0..MaxLspIds + 3 : ServerSays(kind, id)
  \/ ServerExits

LspSpec == LspInit /\ [][LspNext]_lspVars

-----------------------------------------------------------------------------
\* References come from the answer to this very request by the process that runs
\* now, never from what an earlier request or an earlier process left behind; and no
\* process is asked for references before its handshake (client.rs, references).
LspAnswerIsMine ==
  /\ lspReturn.result = "ok" => lspReturn.of = lspReturn.asked
  /\ server.asked => server.handshaken

\* client.rs:10: "A server death is a restart, not a turn failure".
DeathIsARestart == lspReturn.result = "Transport" /\ ~server.alive => lspReturn.restarted
=============================================================================
