--------------------------------- MODULE Mcp ---------------------------------
(***************************************************************************)
(* The MCP gateway (supra_mcp): probe every configured server once, keep   *)
(* what each offers in an append-only table, then call.  A stdio server is *)
(* a child process writing newline-ended lines at its own pace: an answer  *)
(* may come after its call gave up, or arrive in two pieces around the     *)
(* deadline.  An HTTP server answers inside the exchange.                  *)
(***************************************************************************)
EXTENDS Naturals, Sequences, FiniteSets

CONSTANTS
  Configured,      \* the configured servers, in order
  StdioServers,    \* those run as children; the others answer over HTTP
  RemoteTools,     \* local tool names a server may list
  Unnameable,      \* the local names `namespaced` refuses
  Descriptions,    \* what a server may say of a tool: its description and schema
  Oversized,       \* those longer than the table's CHECKs allow (4096, 65536)
  Namespaced,      \* <<server, local name>> |-> the joined name; a name may hold "_" itself
  Pages,           \* the pages a server may answer with
  MaxListPages,    \* MAX_LIST_PAGES (32 in the code)
  ToolsPerServer,  \* TOOLS_PER_SERVER (256 in the code)
  MaxMcpIds,       \* bound: requests on one transport
  MaxSessions      \* bound: gateways built over one store

McpServers == {Configured[i] : i \in DOMAIN Configured}
HttpServers == McpServers \ StdioServers
Tool == [local : RemoteTools, description : Descriptions]

ASSUME McpAssumption ==
  /\ Configured \in Seq(McpServers) /\ StdioServers \subseteq McpServers
  /\ \A i, j \in DOMAIN Configured : Configured[i] = Configured[j] => i = j
  /\ Unnameable \subseteq RemoteTools /\ Oversized \subseteq Descriptions
  /\ DOMAIN Namespaced = McpServers \X RemoteTools
  /\ Pages \subseteq Seq(Tool)
  /\ {MaxListPages, ToolsPerServer, MaxMcpIds, MaxSessions} \subseteq Nat

VARIABLES
  mcpCache,    \* table mcp_tool: the joined name |-> the rest of its row
  gateway,     \* the Gateway and the probe that builds it
  transport,   \* per server: next id, what stdout holds, whether the child lives
  mcpReturn    \* the last call's outcome, and the request its answer was for

mcpVars == <<mcpCache, gateway, transport, mcpReturn>>

\* A row the table holds: its CHECKs pass, and its name was one `namespaced` takes.
Row == [server : McpServers, local : RemoteTools \ Unnameable, description : Descriptions \ Oversized]

\* What a line is to the reader.  "garbage" is refused as Protocol: not JSON, an id
\* without the JSON-RPC claim, or longer than MAX_LINE_BYTES.
LineKind == {"answer", "error", "note", "garbage", "blank"}
Line == [kind : LineKind,
         id : Nat, part : {"whole", "head", "tail"}]
Transport == [id : Nat, stdout : Seq(Line), partial : BOOLEAN, alive : BOOLEAN]
Fresh == [id |-> 0, stdout |-> <<>>, partial |-> FALSE, alive |-> TRUE]
NoReturn == [result |-> "none", asked |-> 0, of |-> 0]

McpTypeOK ==
  /\ \A t \in DOMAIN mcpCache :
       /\ mcpCache[t] \in Row
       /\ t = Namespaced[<<mcpCache[t].server, mcpCache[t].local>>]
  /\ gateway.at \in {"down", "probing", "up"}
  /\ gateway.live \subseteq McpServers /\ gateway.todo \in Seq(McpServers)
  /\ transport \in [McpServers -> Transport]
  /\ mcpReturn.result \in {"none", "ok", "Transport", "Protocol"}

McpInit ==
  /\ mcpCache = <<>>
  /\ gateway = [at |-> "down", todo |-> <<>>, live |-> {}, server |-> "none", method |-> "none",
                listed |-> <<>>, pages |-> 0, sessions |-> 0]
  /\ transport = [s \in McpServers |-> Fresh]
  /\ mcpReturn = NoReturn

(***************************************************************************)
(* Transport::call                                                         *)
(***************************************************************************)
\* Fault: any response counts.
is_response_for_Any(line, n) == line.kind \in {"answer", "error"}

\* Whether a value answers request n: it claims JSON-RPC 2.0 and carries n.
is_response_for(line, n) == line.kind \in {"answer", "error"} /\ line.id = n

\* A request is written; the caller waits for a line.
Ask(s, method) ==
  /\ transport' = [transport EXCEPT ![s].id = @ + 1]
  /\ gateway' = [gateway EXCEPT !.server = s, !.method = method]
  /\ mcpReturn' = NoReturn

Waiting(s) == s \in StdioServers /\ gateway.server = s /\ gateway.method # "none"

\* What the caller of `call` does with its outcome: the probe goes on or is
\* abandoned, a gateway call just returns it.
Abandon(g) == IF g.at = "probing"
              THEN [g EXCEPT !.method = "none", !.server = "none", !.listed = <<>>, !.pages = 0,
                             !.at = IF g.todo = <<>> THEN "up" ELSE "probing"]
              ELSE [g EXCEPT !.method = "none", !.server = "none"]

Refuse(s, class) ==
  /\ gateway' = Abandon(gateway)
  /\ mcpReturn' = [result |-> class, asked |-> transport[s].id, of |-> 0]
  /\ UNCHANGED mcpCache

\* read_bounded_line takes one line, or the first piece of one, off stdout.
Consume(s, stillPartial) ==
  transport' = [transport EXCEPT ![s].stdout = Tail(@), ![s].partial = stillPartial]

\* A head is kept in the local buffer of this call and joined by its tail.
Joined(s) == LET t == transport[s] IN t.partial /\ t.stdout[1].part = "tail"

ReadLine(s) ==
  LET line == Head(transport[s].stdout)
      broken == line.part = "tail" /\ ~transport[s].partial IN
  /\ Waiting(s) /\ transport[s].stdout # <<>>
  /\ \/ /\ line.part = "head"
        /\ Consume(s, TRUE)
        /\ UNCHANGED <<mcpCache, gateway, mcpReturn>>
     \/ /\ line.part # "head"
        /\ broken \/ line.kind = "garbage"
        /\ Consume(s, FALSE) /\ Refuse(s, "Protocol")
     \/ /\ line.kind = "blank"    \* an empty line reads like a closed pipe
        /\ Consume(s, FALSE) /\ Refuse(s, "Transport")
     \/ /\ line.part # "head" /\ ~broken /\ line.kind \in {"note", "answer", "error"}
        /\ ~is_response_for(line, transport[s].id)
        /\ Consume(s, FALSE)
        /\ UNCHANGED <<mcpCache, gateway, mcpReturn>>
     \/ /\ line.part # "head" /\ ~broken /\ line.kind = "error"
        /\ is_response_for(line, transport[s].id)
        /\ Consume(s, FALSE) /\ Refuse(s, "Protocol")

\* The line answers the request: what `answer` hands to the caller.
Answered(s) ==
  LET line == Head(transport[s].stdout) IN
  /\ Waiting(s) /\ transport[s].stdout # <<>>
  /\ line.kind = "answer" /\ is_response_for(line, transport[s].id)
  /\ line.part = "whole" \/ Joined(s)
  /\ Consume(s, FALSE)
  /\ mcpReturn' = [result |-> "ok", asked |-> transport[s].id, of |-> line.id]

\* The deadline passes; a partly read line is forgotten, its rest is still to come.
CallTimesOut(s) ==
  /\ Waiting(s)
  /\ transport' = [transport EXCEPT ![s].partial = FALSE]
  /\ Refuse(s, "Transport")

\* stdout ended: nothing more (Transport) or an unfinished line (not JSON).
StdoutEnds(s) ==
  /\ Waiting(s) /\ ~transport[s].alive /\ transport[s].stdout = <<>>
  /\ Refuse(s, IF transport[s].partial THEN "Protocol" ELSE "Transport")
  /\ transport' = [transport EXCEPT ![s].partial = FALSE]

(***************************************************************************)
(* Gateway::probe, one server after another                                *)
(***************************************************************************)
\* A new process builds a Gateway over the store it shares with earlier ones.
probe ==
  /\ gateway.at \in {"down", "up"} /\ gateway.method = "none"
  /\ gateway.sessions < MaxSessions
  /\ gateway' = [gateway EXCEPT !.at = "probing", !.todo = Configured, !.live = {},
                                !.sessions = @ + 1]
  /\ transport' = [s \in McpServers |-> Fresh]
  /\ mcpReturn' = NoReturn
  /\ UNCHANGED mcpCache

\* probe_one spawns the child (or a client) and asks for the handshake.
ProbeStart(s) ==
  /\ gateway.at = "probing" /\ gateway.method = "none" /\ s = Head(gateway.todo)
  /\ transport' = [transport EXCEPT ![s] = [Fresh EXCEPT !.id = 1]]
  /\ gateway' = [gateway EXCEPT !.todo = Tail(@), !.server = s, !.method = "initialize",
                                !.listed = <<>>]
  /\ mcpReturn' = NoReturn
  /\ UNCHANGED mcpCache

\* The handshake's answer names a version; ours or refused.  The initialized
\* notification follows, then the first page.
Initialized(s, version) ==
  /\ gateway.method = "initialize"
  /\ IF version THEN gateway' = [gateway EXCEPT !.method = "notify"] ELSE gateway' = Abandon(gateway)
  /\ UNCHANGED mcpCache

NotifyThenList(s) ==
  /\ gateway.server = s /\ gateway.method = "notify"
  /\ transport[s].alive
  /\ Ask(s, "tools/list")
  /\ UNCHANGED mcpCache

\* Transport::notify fails on a closed pipe, or when the POST cannot be sent.
NotifyFails(s) ==
  /\ gateway.server = s /\ gateway.method = "notify"
  /\ s \in HttpServers \/ ~transport[s].alive
  /\ Refuse(s, "Transport")
  /\ UNCHANGED transport

\* The listed tools the table's CHECKs let in.
Admitted(tools) == {i \in DOMAIN tools : tools[i].description \notin Oversized}

\* One server's rows, in order and in one transaction, INSERT OR IGNORE: a row whose
\* name is taken is left alone, and one a CHECK refuses is passed over without an error.
append(cache, s, tools) ==
  LET name(i) == Namespaced[<<s, tools[i].local>>]
      new == {name(i) : i \in Admitted(tools)}
      first(k) == CHOOSE i \in Admitted(tools) :
                    name(i) = k /\ \A j \in Admitted(tools) : name(j) = k => i <= j IN
  [k \in DOMAIN cache \cup new |->
     IF k \in DOMAIN cache THEN cache[k]
     ELSE [server |-> s, local |-> tools[first(k)].local, description |-> tools[first(k)].description]]

\* namespaced, over every listed tool before any row is written.
Registrable(tools) == \A i \in DOMAIN tools : tools[i].local \notin Unnameable

\* A page arrives.  The cursor is followed to its end, the budget counts every
\* page, and one bad name abandons the probe before anything is written.
Listed(s, tools, more) ==
  LET all == gateway.listed \o tools
      pages == gateway.pages + 1
      follow == more /\ pages < MaxListPages
      keep == ~more /\ Len(all) <= ToolsPerServer /\ Registrable(all)
      done == Abandon(gateway) IN
  /\ gateway.method = "tools/list"
  /\ mcpCache' = IF keep THEN append(mcpCache, s, all) ELSE mcpCache
  /\ gateway' = IF follow THEN [gateway EXCEPT !.listed = all, !.pages = pages, !.method = "page"]
                ELSE IF keep THEN [done EXCEPT !.live = @ \cup {s}, !.listed = all] ELSE done

NextPage(s) ==
  /\ gateway.server = s /\ gateway.method = "page"
  /\ transport[s].id < MaxMcpIds
  /\ Ask(s, "tools/list")
  /\ UNCHANGED mcpCache

(***************************************************************************)
(* Gateway::call                                                           *)
(***************************************************************************)
call(s) ==
  /\ gateway.at = "up" /\ gateway.method = "none" /\ s \in gateway.live
  /\ transport[s].id < MaxMcpIds
  /\ transport[s].alive
  /\ Ask(s, "tools/call")
  /\ UNCHANGED mcpCache

\* The request cannot be written: the child is gone.
CallWriteFails(s) ==
  /\ gateway.at = "up" /\ gateway.method = "none" /\ s \in gateway.live
  /\ transport[s].id < MaxMcpIds
  /\ ~transport[s].alive
  /\ transport' = [transport EXCEPT ![s].id = @ + 1]
  /\ mcpReturn' = [result |-> "Transport", asked |-> transport[s].id + 1, of |-> 0]
  /\ UNCHANGED <<mcpCache, gateway>>

CallReturns == gateway.method = "tools/call" /\ gateway' = Abandon(gateway) /\ UNCHANGED mcpCache

\* What an answer means to the method that asked.
Deliver(s) ==
  \/ \E version \in BOOLEAN : Initialized(s, version)
  \/ \E tools \in Pages, more \in BOOLEAN : Listed(s, tools, more)
  \/ CallReturns

StdioAnswer(s) == Answered(s) /\ Deliver(s)

\* One HTTP exchange: no answer or a failing status, a body that does not hold
\* this request's response, or the response, alone or among other events (parse_sse).
\* The session header the server assigns is carried along and decides nothing here.
HttpExchange(s) ==
  LET n == transport[s].id IN
  /\ s \in HttpServers /\ gateway.server = s
  /\ gateway.method \in {"initialize", "tools/list", "tools/call"}
  /\ \/ Refuse(s, "Transport") /\ UNCHANGED transport
     \/ Refuse(s, "Protocol") /\ UNCHANGED transport
     \/ /\ Deliver(s)
        /\ mcpReturn' = [result |-> "ok", asked |-> n, of |-> n]
        /\ UNCHANGED transport

(***************************************************************************)
(* The servers                                                             *)
(***************************************************************************)
\* A child writes a line for a request it got, or one of its own, whole or in two pieces.
ServerWrites(s, kind, id, whole) ==
  /\ transport[s].alive /\ id \in 1..transport[s].id
  /\ Len(transport[s].stdout) < 2   \* bound: what the pipe holds
  /\ kind \notin {"answer", "error"} => id = 1
  /\ kind # "answer" => whole
  /\ transport' = [transport EXCEPT ![s].stdout = @ \o
       IF whole THEN <<[kind |-> kind, id |-> id, part |-> "whole"]>>
       ELSE <<[kind |-> kind, id |-> id, part |-> "head"], [kind |-> kind, id |-> id, part |-> "tail"]>>]
  /\ UNCHANGED <<mcpCache, gateway, mcpReturn>>

ServerDies(s) ==
  /\ transport[s].alive /\ transport[s].id > 0
  /\ transport' = [transport EXCEPT ![s].alive = FALSE]
  /\ UNCHANGED <<mcpCache, gateway, mcpReturn>>

McpNext ==
  \/ probe
  \/ \E s \in McpServers :
       ProbeStart(s) \/ NotifyThenList(s) \/ NotifyFails(s) \/ NextPage(s) \/ call(s) \/ CallWriteFails(s)
  \/ \E s \in StdioServers :
       \/ ReadLine(s) \/ StdioAnswer(s) \/ CallTimesOut(s) \/ StdoutEnds(s) \/ ServerDies(s)
       \/ \E kind \in LineKind, id \in 1..MaxMcpIds, whole \in BOOLEAN :
            ServerWrites(s, kind, id, whole)
  \/ \E s \in HttpServers : HttpExchange(s)

McpSpec == McpInit /\ [][McpNext]_mcpVars

-----------------------------------------------------------------------------
\* A call that returns a result returns the server's answer to that very
\* request: not one that came after an earlier call gave up, and not one whose
\* first half an earlier call took (transport.rs, call and read_bounded_line).
AnswerIsMine == mcpReturn.result = "ok" => mcpReturn.of = mcpReturn.asked

\* A row stays what it was.  Rows are only added as their server comes up; then every
\* tool it listed whose text the table admits has a row of its name, and every row that
\* is new says what the server listed.
TableGrows ==
  /\ \A t \in DOMAIN mcpCache : t \in DOMAIN mcpCache' /\ mcpCache'[t] = mcpCache[t]
  /\ mcpCache' # mcpCache =>
       /\ gateway.server \in gateway'.live \ gateway.live
       /\ \A i \in Admitted(gateway'.listed) :
            Namespaced[<<gateway.server, gateway'.listed[i].local>>] \in DOMAIN mcpCache'
       /\ \A t \in DOMAIN mcpCache' \ DOMAIN mcpCache :
            /\ mcpCache'[t].server = gateway.server
            /\ \E i \in DOMAIN gateway'.listed :
                 /\ gateway'.listed[i].local = mcpCache'[t].local
                 /\ gateway'.listed[i].description = mcpCache'[t].description

\* The manifest a session was shown never changes or shrinks under a later probe, and
\* a probe adds what its own server listed, all of it that fits (gateway.rs, probe_one;
\* cache.rs, append).
ManifestKept == [][TableGrows]_mcpVars

\* All or nothing: what building every row before any is written is for (gateway.rs,
\* probe_one: the cache "never holds half a manifest"; cache.rs, append: "Insert one tool
\* row if absent").  The code refutes it: a row a CHECK refuses, or whose name a row of
\* another server has, is passed over, and the probe succeeds with the rest.
NoHalfManifest ==
  [][mcpCache' # mcpCache =>
       \A i \in DOMAIN gateway'.listed :
         LET t == Namespaced[<<gateway.server, gateway'.listed[i].local>>] IN
         t \in DOMAIN mcpCache' /\ mcpCache'[t].server = gateway.server]_mcpVars
=============================================================================
