------------------------------- MODULE Config -------------------------------
(***************************************************************************)
(* Layered configuration (supra_config).  load reads the user's file, the  *)
(* nearest project file, the environment, the flags and the session, in    *)
(* this order, refuses the first layer that is not valid, and resolves the *)
(* rest field by field, each value with the source it came from.  A layer  *)
(* is a record whose fields are Unset where the layer says nothing.        *)
(***************************************************************************)
EXTENDS Naturals, Sequences, SequencesExt, FiniteSets, FiniteSetsExt, Functions

CONSTANTS
  Unset,     \* None
  Invalid    \* an error

\* ConfigSource, ascending by precedence, and Mode, from the strictest on.
ConfigSources == <<"builtin", "user", "project", "env", "cli", "session">>
ModesStrictestFirst == <<"plan", "ask", "auto", "yolo">>
PeerCeiling == 80
Defaults == [budget |-> 0, limit |-> 16, mode |-> "auto", threshold |-> 93]
Scalars == DOMAIN Defaults

Place(seq, x) == CHOOSE i \in 1..Len(seq) : seq[i] = x
Outranks(a, b) == Place(ConfigSources, a) > Place(ConfigSources, b)
is_operator_controlled(source) == source # "project"
strictness(mode) == Len(ModesStrictestFirst) - Place(ModesStrictestFirst, mode)

Silent == [budget |-> Unset, limit |-> Unset, mode |-> Unset, threshold |-> Unset,
           providers |-> Unset]

(***************************************************************************)
(* Reading a layer                                                         *)
(***************************************************************************)
\* authority_host: none where a user name stands before it, nor where what follows
\* a closing bracket is not a port; a host without brackets ends at the first
\* colon, whatever comes after.
Loopback == {"localhost", "127.0.0.1", "[::1]"}
authority_host(e) == IF e.userinfo \/ (e.host = "[::1]" /\ e.port = "malformed") THEN "" ELSE e.host
\* check_endpoint: https with anything behind it, or http to a loopback host.
check_endpoint(e) ==
  \/ e.scheme = "https" /\ (e.host # "" \/ e.userinfo \/ e.port # "none")
  \/ e.scheme = "http" /\ authority_host(e) \in Loopback

\* check_env_var_name: upper case, digits and underscores; a pasted key is not.
check_env_var_name(name) == name = "NAME"

\* validate_provider: at most one credential source, each well named.
validate_provider(p) ==
  /\ p.env = Unset \/ p.keyring = Unset
  /\ p.env = Unset \/ check_env_var_name(p.env)
  /\ p.keyring # "" /\ p.model # ""
  /\ p.endpoint = Unset \/ check_endpoint(p.endpoint)

validate_provider_name(name) == name \notin {"", "has space"}

\* validate_providers: a layer the operator does not control names none at all.
validate_providers(layer, source) ==
  layer.providers = Unset \/
    /\ is_operator_controlled(source)
    /\ \A name \in DOMAIN layer.providers :
         validate_provider_name(name) /\ validate_provider(layer.providers[name])

validate_cohort(layer) == layer.limit = Unset \/ layer.limit \in 1..PeerCeiling
validate_prompt(layer) == layer.threshold = Unset \/ layer.threshold \in 92..95

\* validate, after parse: a text that does not parse, has an unknown key or a
\* literal credential is no layer.
validate(layer, source) ==
  /\ layer # Invalid
  /\ validate_cohort(layer) /\ validate_prompt(layer) /\ validate_providers(layer, source)

\* open_regular with read_private or read_shared: what reading a file gives.
open_regular(file) ==
  CASE file.kind = "absent" -> Unset
    [] file.kind \in {"other", "unreadable"} -> Invalid
    [] file.kind = "file" -> file.layer
\* check_private: no bit set for group or other.
check_private(file) == file.mode = "private"
read_private(file) == IF file.kind = "file" /\ ~check_private(file) THEN Invalid ELSE open_regular(file)
read_shared(file) == open_regular(file)

\* project_config_path: the nearest directory, walking up, that has the file; one
\* that cannot be inspected stops the walk.
project_config_path(directories) ==
  LET stops == {i \in 1..Len(directories) : directories[i].kind # "absent"} IN
  IF stops = {} THEN [kind |-> "absent"] ELSE directories[Min(stops)]

\* env_layer, apply_env: one variable at a time, the later of two wins; an unknown
\* name or a value that does not parse refuses the load.
env_layer(variables) ==
  IF variables = <<>> THEN Unset
  ELSE FoldLeft(LAMBDA layer, v :
         IF layer = Invalid \/ v.name \notin Scalars \/ v.value = Invalid THEN Invalid
         ELSE [layer EXCEPT ![v.name] = v.value], Silent, variables)

(***************************************************************************)
(* resolve                                                                 *)
(***************************************************************************)
\* Fault: the project layer's mode takes part in plain precedence.
OperatorMode_Anyone(config, source, layer) ==
  IF layer.mode # Unset THEN [config EXCEPT !.mode = [value |-> layer.mode, source |-> source]] ELSE config

\* A mode from a layer the operator controls.
OperatorMode(config, source, layer) ==
  IF layer.mode # Unset /\ is_operator_controlled(source)
  THEN [config EXCEPT !.mode = [value |-> layer.mode, source |-> source]] ELSE config

Named(layer) == IF layer.providers = Unset THEN {} ELSE DOMAIN layer.providers
Says(config, source, layer) ==
  [field \in Scalars \cup {"providers"} |->
     CASE field = "mode" -> OperatorMode(config, source, layer).mode
       [] field = "providers" ->
            [name \in Named(layer) \cup DOMAIN config.providers |->
               IF name \in Named(layer)
               THEN [value |-> layer.providers[name], source |-> source] ELSE config.providers[name]]
       [] OTHER -> IF layer[field] # Unset THEN [value |-> layer[field], source |-> source] ELSE config[field]]

\* The second pass: a layer the operator does not control may only be stricter.
Tightens(config, source, layer) ==
  IF ~is_operator_controlled(source) /\ layer.mode # Unset
     /\ strictness(layer.mode) > strictness(config.mode.value)
  THEN [config EXCEPT !.mode = [value |-> layer.mode, source |-> source]] ELSE config

Builtin == [field \in Scalars \cup {"providers"} |->
  IF field = "providers" THEN <<>> ELSE [value |-> Defaults[field], source |-> "builtin"]]

\* layers: a sequence of [source, layer], in any order.
resolve(layers) ==
  LET ordered == SortSeq(layers, LAMBDA a, b : Outranks(b.source, a.source))
      said == FoldLeft(LAMBDA config, l : Says(config, l.source, l.layer), Builtin, ordered) IN
  FoldLeft(LAMBDA config, l : Tightens(config, l.source, l.layer), said, ordered)

\* load: every layer that is there is validated before any is combined.
load(input) ==
  LET found == SelectSeq(<<[source |-> "user", layer |-> read_private(input.user)],
                           [source |-> "project", layer |-> read_shared(project_config_path(input.project))],
                           [source |-> "env", layer |-> env_layer(input.env)],
                           [source |-> "cli", layer |-> input.cli],
                           [source |-> "session", layer |-> input.session]>>,
                         LAMBDA l : l.layer # Unset) IN
  IF \A i \in 1..Len(found) : validate(found[i].layer, found[i].source) THEN resolve(found) ELSE Invalid

\* provider_secret: the one source the provider names; an unset or empty variable
\* is an error, never a reason to look elsewhere.
provider_secret(config, name, environment, keyring) ==
  IF name \notin DOMAIN config.providers THEN Invalid
  ELSE LET p == config.providers[name].value IN
       CASE p.env # Unset -> IF environment[p.env] \in {Unset, ""} THEN Invalid ELSE environment[p.env]
         [] p.env = Unset /\ p.keyring # Unset ->
              IF keyring[p.keyring] = Unset THEN Invalid ELSE keyring[p.keyring]
         [] OTHER -> Invalid

\* select_provider (the command line): the one asked for, if it is configured and
\* known, and otherwise the first known one that is configured.
KnownProviders == <<"anthropic", "openai", "google">>
select_provider(config, requested) ==
  LET known == SelectSeq(KnownProviders, LAMBDA name : name \in DOMAIN config.providers) IN
  CASE requested # Unset -> IF requested \in DOMAIN config.providers \cap ToSet(KnownProviders) THEN requested ELSE Invalid
    [] requested = Unset -> IF known = <<>> THEN Invalid ELSE known[1]

(***************************************************************************)
(* Startup: where a process looks, and what its flags do.  A variable that *)
(* names a directory is Unset, "" or a relative or an absolute path; a     *)
(* place is the root it hangs under and whether that root is absolute.     *)
(***************************************************************************)
HomePlace(home) == IF home \in {Unset, ""} THEN Unset ELSE [root |-> "home", is |-> home]

\* Both: the XDG variable if it is absolute, else under a HOME that says something.
user_config_path(world) ==
  IF world.xdg = "absolute" THEN [root |-> "xdg", is |-> "absolute"] ELSE HomePlace(world.home)
default_log_path(world) ==
  IF world.state = "absolute" THEN [root |-> "state", is |-> "absolute"] ELSE HomePlace(world.home)

\* default_config_dir of the vault: the variables as they are, then the working directory.
default_config_dir(world) ==
  CASE world.xdg # Unset -> [root |-> "xdg", is |-> world.xdg]
    [] world.xdg = Unset /\ world.home # Unset -> [root |-> "home", is |-> world.home]
    [] OTHER -> [root |-> "cwd", is |-> "relative"]

\* Loader::from_environment: an unreadable working directory is no project, and
\* of the variables only the program's own, and of these only what is UTF-8.
from_environment(world) ==
  [user |-> IF user_config_path(world) = Unset THEN [kind |-> "absent"] ELSE world.user,
   project |-> IF world.cwd THEN world.project ELSE <<>>,
   env |-> SelectSeq(world.variables, LAMBDA v : v.prefixed /\ v.utf8)]

\* discover_resolve: the flags are one layer, there even when no flag is.
discover_resolve(world, flags) ==
  LET found == from_environment(world) IN
  load([user |-> found.user, env |-> found.env, session |-> Unset,
        project |-> IF flags.ignore_project THEN <<>> ELSE found.project,
        cli |-> [Silent EXCEPT !.mode = flags.mode, !.budget = flags.think]])

\* init and refuse_blocking_target: a pipe is refused before it is opened.
init(place, world) ==
  CASE place = Unset -> Invalid
    [] place # Unset /\ world.target \in {"fifo", "directory"} -> Invalid
    [] OTHER -> IF world.installed THEN "AlreadyInstalled" ELSE "handle"

\* init_logging: a subscriber that is there already is not an error.
init_logging(world, flags) ==
  LET answer == init(IF flags.log THEN [root |-> "flag", is |-> "absolute"] ELSE default_log_path(world), world) IN
  IF answer = "AlreadyInstalled" THEN Unset ELSE answer

\* Cli::validate, then run: what a command's settings are.
Confirmed(flags) == (flags.ignore_project \/ flags.sandbox = "off") => flags.yes
Settings(world, flags) == IF Confirmed(flags) THEN discover_resolve(world, flags) ELSE Invalid

\* Client::new: Anthropic refuses a thinking budget between none and its floor.
Buildable(config, name) ==
  name = "anthropic" => config.budget.value = 0 \/ config.budget.value >= 1024

\* live_probe: one request to each of these that is configured and has its key;
\* the first that cannot be made or fails ends it.  The flags are parsed anew
\* from a fixed command line, so those that were given count for nothing.
NoFlags == [mode |-> Unset, think |-> Unset, ignore_project |-> FALSE, sandbox |-> "on", yes |-> FALSE, log |-> FALSE]
Probed == <<"anthropic", "openai">>
live_probe(world, keyring, answers) ==
  LET config == discover_resolve(world, NoFlags)
      ready == SelectSeq(Probed, LAMBDA name : provider_secret(config, name, world.secrets, keyring) # Invalid)
      broken == {i \in 1..Len(ready) : ~Buildable(config, ready[i]) \/ ~answers[ready[i]]} IN
  CASE config = Invalid -> [ok |-> FALSE, asked |-> <<>>]
    [] config # Invalid /\ broken = {} -> [ok |-> TRUE, asked |-> ready]
    [] OTHER -> [ok |-> FALSE, asked |-> SelectSeq(SubSeq(ready, 1, Min(broken)), LAMBDA name : Buildable(config, name))]

(***************************************************************************)
(* What a load promises                                                    *)
(***************************************************************************)
Layers(input) == [user |-> read_private(input.user), project |-> read_shared(project_config_path(input.project)),
                  env |-> env_layer(input.env), cli |-> input.cli, session |-> input.session]
Speaks(layers, field) == {s \in DOMAIN layers : layers[s] # Unset /\ layers[s][field] # Unset}
Top(sources) == CHOOSE s \in sources : \A t \in sources \ {s} : Outranks(s, t)

\* Every setting is the highest layer's that sets it, the mode the operator's
\* unless the project's is stricter, a provider whole from one layer; each with
\* the source that says it; and a repository adds no provider, has no say in
\* which one is asked, and loosens nothing about consent.  No key is taken from
\* a source other than the one the provider names, and none leaves the machine in
\* clear, whatever stands around the host's name in the endpoint.
ConfigLayered(input) ==
  LET config == load(input)
      layers == Layers(input)
      alone == load([input EXCEPT !.project = <<>>]) IN
  config # Invalid =>
    /\ \A field \in Scalars \ {"mode"} :
         LET who == Speaks(layers, field) IN
         config[field] = IF who = {} THEN [value |-> Defaults[field], source |-> "builtin"]
                         ELSE [value |-> layers[Top(who)][field], source |-> Top(who)]
    /\ alone # Invalid /\ strictness(config.mode.value) >= strictness(alone.mode.value)
    /\ config.mode.source = "builtin" \/ layers[config.mode.source].mode = config.mode.value
    /\ \A name \in DOMAIN config.providers :
         /\ config.providers[name].source # "project"
         /\ config.providers[name] = alone.providers[name]
         /\ LET p == config.providers[name].value IN
            /\ (p.endpoint # Unset /\ p.endpoint.scheme = "http") =>
                 p.endpoint.host \in Loopback /\ ~p.endpoint.userinfo
            /\ p.env # Unset => provider_secret(config, name, [v \in {p.env} |-> ""], [k \in {p.keyring} |-> "key"]) = Invalid
    /\ \A requested \in {Unset} \cup {"openai", "google", "other"} :
         LET chosen == select_provider(config, requested) IN
         /\ chosen = select_provider(alone, requested)
         /\ chosen # Invalid => chosen \in DOMAIN config.providers /\ requested \in {Unset, chosen}
         /\ (requested = Unset /\ chosen = Invalid) => DOMAIN config.providers \subseteq {"other"}

\* A start depends on what is the user's and nothing else: the user's file and
\* the log are never looked for under the working directory unless HOME itself
\* is relative, and the vault never apart from the configuration where XDG is
\* absolute or not set; a directory that cannot be read, variables of other
\* programs and a project told to be ignored, which takes a --yes, leave the
\* settings as if they were not there; a flag outranks all but a stricter
\* project; and a probe sends no request without that provider's own key or
\* after one that failed.
StartsAlike(world, flags, answers) ==
  LET config == Settings(world, flags)
      own == [world EXCEPT !.variables = SelectSeq(@, LAMBDA v : v.prefixed)]
      alone == Settings([world EXCEPT !.project = <<>>], flags)
      probe == live_probe(world, [k \in {Unset} |-> Unset], answers) IN
  /\ \A place \in {user_config_path(world), default_log_path(world)} :
       place = Unset \/ place.is = "absolute" \/ world.home = "relative"
  /\ world.xdg \in {Unset, "absolute"} /\ user_config_path(world) # Unset =>
       default_config_dir(world) = user_config_path(world)
  /\ config = Settings(own, flags)
  /\ flags.ignore_project \/ ~world.cwd => config = alone
  /\ flags.log /\ world.target = "file" => init_logging(world, flags) # Invalid
  /\ config # Invalid =>
       /\ flags.mode # Unset =>
            config.mode.value = flags.mode
              \/ (config.mode.source = "project" /\ strictness(config.mode.value) > strictness(flags.mode))
       /\ flags.think # Unset => config.budget = [value |-> flags.think, source |-> "cli"]
  /\ \A i \in 1..Len(probe.asked) :
       /\ world.secrets["NAME"] # "" /\ user_config_path(world) # Unset
       /\ answers[probe.asked[i]] \/ (i = Len(probe.asked) /\ ~probe.ok)
=============================================================================
