------------------------------- MODULE MCPeers ------------------------------
(***************************************************************************)
(* Whom the program deals with: providers, MCP, language and debug         *)
(* servers, the tools a model calls, the processes it starts and what they *)
(* print, plugins, skills and the project's gate.  They share no state, so *)
(* each is explored in a scene of its own while the others stay as they    *)
(* begin.                                                                  *)
(***************************************************************************)
EXTENDS Provider, Mcp, Lsp, Dap, ToolGate, Spawn, Shaper, Plugin, Skills, Gate, TLC

CONSTANT Scenes
VARIABLE scene

AllScenes == {"provider", "mcp", "lsp", "dap", "tools", "spawn", "shaper", "plugin", "skills", "gate"}
ASSUME ScenesAssumption == Scenes \subseteq AllScenes

(***************************************************************************)
(* Instances                                                               *)
(***************************************************************************)
\* Two servers one of whose tools have the same joined name; and pages: a tool beside one
\* no row may hold, the same described otherwise beside the tool of the shared name, and a
\* bad name.
McConfigured == <<"s", "s_">>
McNamespaced == [p \in McpServers \X RemoteTools |-> p[1] \o "__" \o p[2]]
Listing(local, description) == [local |-> local, description |-> description]
McPages ==
  {<<Listing("x", "d"), Listing("_x", "big")>>, <<Listing("x", "e"), Listing("_x", "d")>>,
   <<Listing("a b", "d")>>}

\* What a startup offers: a shell whose effect is in what it is told, to turn a guard
\* off among it, a structural editor, the MCP gateway, a tool whose schema repeats a
\* field, and a second one of a name that is taken.
Field(name, required) == [name |-> name, type |-> "string", required |-> required, described |-> TRUE]
Offer(name, class, plain, wild, off, precondition) ==
  [name |-> name,
   tool |-> [class |-> class, resolver |-> [plain |-> plain, wild |-> wild, off |-> off],
             precondition |-> precondition, fields |-> <<Field("path", TRUE)>>]]
McOffers ==
  <<Offer("shell", "Host", "Read", "Remove", "EscapeHatch", FALSE),
    Offer("splice", "Agent", "StructuralEdit", "BlindEdit", "BlindEdit", TRUE),
    [name |-> "mcp", tool |-> gateway_tool],
    [name |-> "odd", tool |-> [gateway_tool EXCEPT !.fields = <<Field("a", TRUE), Field("a", FALSE)>>]],
    Offer("splice", "User", "Read", "Read", "Read", FALSE)>>
Sent(shape, gist, given) == [shape |-> shape, path |-> "f", gist |-> gist, given |-> given]
McCalls ==
  {Sent("object", gist, [path |-> "string"]) : gist \in {"plain", "wild", "off"}}
  \cup {Sent("object", "plain", [path |-> "number"]), Sent("array", "plain", [path |-> "string"]),
        Sent("uncanonical", "plain", [path |-> "string"]),
        Sent("object", "plain", [server |-> "string", tool |-> "string", arguments |-> "string"])}
Under(mode, rules) == [mode |-> mode, rules |-> rules]
McConsents ==
  {Under("Ask", <<>>), Under("Auto", <<>>), Under("Yolo", <<>>),
   Under("Plan", <<"Allow">>), Under("Yolo", <<"Allow", "Deny">>)}

Ask1(lineage, marker, consent) ==
  [program |-> "tool", lineage |-> lineage, vote |-> "none", marker |-> marker, consent |-> consent]
McRequests == {Ask1("peer", "none", "Refuse"), Ask1("self", "foreign", "Run")}

\* Plugins that keep to their interfaces, ask for the host's, name an import by
\* path, and are no runnable component.
McComponents ==
  [good |-> [imports |-> {Interface("agent-tools", {"read-file"})}, runs |-> TRUE],
   bold |-> [imports |-> {Bare("search"), Interface("host-tools", {"spawn"})}, runs |-> TRUE],
   old |-> [imports |-> {Path("search")}, runs |-> TRUE],
   odd |-> [imports |-> {}, runs |-> FALSE]]

\* Sessions are alike, and so are process ids.
Symmetry == Permutations(ShellSessions) \cup Permutations(Pids)

McSkillPaths == <<"p", "q">>
McSkillNames == <<"x", "y">>

(***************************************************************************)
(* Scenes                                                                  *)
(***************************************************************************)
Init ==
  /\ scene \in Scenes
  /\ ProviderInit /\ McpInit /\ LspInit /\ DapInit /\ ToolGateInit
  /\ SpawnInit /\ ShaperInit /\ PluginInit /\ SkillsInit /\ GateInit
  /\ scene # "provider" => client = CHOOSE kind \in ProviderKind : TRUE
  /\ scene = "spawn" => platform.granular = (platform.tier = "Landlock")
  /\ scene # "spawn" => platform = [tier |-> CHOOSE t \in DOMAIN Tiers : TRUE, granular |-> TRUE]

Others == <<mcpVars, lspVars, dapVars, toolGateVars>>
Processes == <<spawnVars, shaperVars, runGateVars>>
Extensions == <<pluginVars, skillVars>>
allVars == <<providerVars, Others, Processes, Extensions, scene>>

Next ==
  \/ /\ scene = "provider" /\ ProviderNext /\ UNCHANGED <<Others, Processes, Extensions, scene>>
  \/ /\ scene = "mcp" /\ McpNext
     /\ UNCHANGED <<providerVars, lspVars, dapVars, toolGateVars, Processes, Extensions, scene>>
  \/ /\ scene = "lsp" /\ LspNext
     /\ UNCHANGED <<providerVars, mcpVars, dapVars, toolGateVars, Processes, Extensions, scene>>
  \/ /\ scene = "dap" /\ DapNext
     /\ UNCHANGED <<providerVars, mcpVars, lspVars, toolGateVars, Processes, Extensions, scene>>
  \/ /\ scene = "tools" /\ ToolGateNext
     /\ UNCHANGED <<providerVars, mcpVars, lspVars, dapVars, Processes, Extensions, scene>>
  \/ /\ scene = "spawn" /\ SpawnNext
     /\ UNCHANGED <<providerVars, Others, shaperVars, runGateVars, Extensions, scene>>
  \/ /\ scene = "shaper" /\ ShaperNext
     /\ UNCHANGED <<providerVars, Others, spawnVars, runGateVars, Extensions, scene>>
  \/ /\ scene = "gate" /\ GateNext
     /\ UNCHANGED <<providerVars, Others, spawnVars, shaperVars, Extensions, scene>>
  \/ /\ scene = "plugin" /\ PluginNext
     /\ UNCHANGED <<providerVars, Others, Processes, skillVars, scene>>
  \/ /\ scene = "skills" /\ SkillsNext
     /\ UNCHANGED <<providerVars, Others, Processes, pluginVars, scene>>

Spec == Init /\ [][Next]_allVars

(***************************************************************************)
(* What must hold                                                          *)
(***************************************************************************)
\* The state of the component that moves is of its type.
TypesOK ==
  CASE scene = "provider" -> ProviderTypeOK [] scene = "mcp" -> McpTypeOK
    [] scene = "lsp" -> LspTypeOK           [] scene = "dap" -> DapTypeOK
    [] scene = "tools" -> ToolGateTypeOK    [] scene = "spawn" -> SpawnTypeOK
    [] scene = "shaper" -> ShaperTypeOK     [] scene = "plugin" -> PluginTypeOK
    [] scene = "skills" -> SkillsTypeOK     [] scene = "gate" -> GateTypeOK

\* What a call to an MCP, language or debug server returns is that server's
\* answer to that call, and no debug call waits for an answer already consumed,
\* through deaths, restarts, timeouts and late lines; and what an MCP server was
\* once seen to offer is neither changed nor taken back (Transport::call,
\* references, request, append).
AnswersAreMine ==
  /\ [](CASE scene = "mcp" -> AnswerIsMine
          [] scene = "lsp" -> LspAnswerIsMine
          [] scene = "dap" -> DapAnswerIsMine /\ NeverStarves
          [] OTHER -> TRUE)
  /\ ManifestKept

\* A session beside whose start no other forked has its output end with its child;
\* signals reach only its own child, every child was vetted and leaks nothing its audit
\* could see, and the text shown does not depend on how the reads cut the stream (Spawner,
\* ShellSession, AnsiShaper).  A gate whose group was killed is held up by nothing
\* outside it and loses no output (run_gate).
ProcessesContained ==
  CASE scene = "spawn" -> OutputEnds /\ SignalsOwnChild /\ ChildrenVetted
    [] scene = "shaper" -> ChunksDoNotMatter
    [] scene = "gate" -> GateBounded
    [] OTHER -> TRUE

\* A plugin reaches no more than its interfaces; the skills on offer resolve, and
\* are those of the directory once its events are applied (dispatch, apply_event).
ExtensionsContained ==
  CASE scene = "plugin" -> PluginContained
    [] scene = "skills" -> SkillsResolve /\ SkillsFollowDisk
    [] OTHER -> TRUE
=============================================================================
