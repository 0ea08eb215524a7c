------------------------------- MODULE Plugin -------------------------------
(***************************************************************************)
(* A component plugin under the host (supra_plugin): verified against the  *)
(* imports of its class, instantiated with a fuel budget and a table of    *)
(* limits, then called.  The guest calls host functions in any order while *)
(* its start code or its export runs, and may run out of fuel, trap or     *)
(* answer too much.  A start that fails leaves no instance, and its Store  *)
(* goes with the calls recorded in it.  The component engine (wasmtime) is *)
(* external.                                                               *)
(***************************************************************************)
EXTENDS Naturals, Sequences

CONSTANTS
  Components,      \* Components[c]: declared imports, and whether run has the world's shape
  Fuel,            \* DEFAULT_FUEL
  MaxHostCalls,    \* HostLimits::max_calls
  MaxBytes         \* the byte limits of arguments and results

ASSUME PluginAssumption ==
  Fuel \in Nat /\ MaxHostCalls \in Nat /\ MaxBytes \in Nat /\ "none" \notin DOMAIN Components

VARIABLES
  plugin,       \* the instance: component, class, fuel left, where it is, whether it trapped
  host_calls,   \* HostState::calls
  dispatched,   \* calls the dispatcher really received from this Store
  lost,         \* and from the Stores of starts that failed
  plugin_said   \* what the last instantiate or call returned

pluginVars == <<plugin, host_calls, dispatched, lost, plugin_said>>

Classes == {"Agent", "Host", "User"}
HostFunctions == {"read-file", "search", "spawn", "snapshot", "ask-user"}

\* HostFunction::from_wit: the interface each function belongs to.
from_wit(function) ==
  CASE function \in {"read-file", "search"} -> "agent-tools"
    [] function \in {"spawn", "snapshot"}   -> "host-tools"
    [] function = "ask-user"                -> "user-tools"

\* imports_for: what a class may import.
imports_for(class) ==
  {"read-file", "search"}
    \cup (IF class \in {"Host", "User"} THEN {"spawn", "snapshot"} ELSE {})
    \cup (IF class = "User" THEN {"ask-user"} ELSE {})

\* A declared import is spelled as a path, an interface or a bare function.
Path(function)       == [spelling |-> "path", interface |-> from_wit(function), functions |-> {function}]
Interface(i, called) == [spelling |-> "interface", interface |-> i, functions |-> called]
Bare(function)       == [spelling |-> "bare", interface |-> "root", functions |-> {function}]

\* import_in_set: an interface is accepted by its name alone.
import_in_set(import, class) ==
  IF import.spelling = "interface"
  THEN import.interface \in {from_wit(f) : f \in imports_for(class)}
  ELSE import.functions \subseteq imports_for(class)

\* with_dispatcher_and_limits: a class's linker offers its interfaces, with and
\* without a version, and its bare functions; nothing under the path spelling.
Linked(import, class) ==
  /\ import.spelling # "path"
  /\ import.functions \subseteq imports_for(class)

HostCall == [class : Classes, function : HostFunctions]
NoPlugin == [component |-> "none", class |-> "Agent", fuel |-> 0, at |-> "nowhere", dead |-> FALSE]

\* Guest code runs: the start code, or the export.
Executing == plugin.at \in {"start", "run"}

PluginTypeOK ==
  /\ plugin.class \in Classes /\ plugin.fuel \in 0..Fuel
  /\ plugin.at \in {"nowhere", "start", "idle", "run"}
  /\ host_calls \in Seq(HostCall) /\ lost \subseteq HostCall
  /\ plugin_said \in {"none", "ready", "UnlistedImport", "WrongSignature", "FuelExhausted", "Engine",
                      "HostDispatch", "Trap", "ResourceLimit", "answer"}

PluginInit ==
  /\ plugin = NoPlugin /\ host_calls = <<>> /\ dispatched = <<>> /\ lost = {} /\ plugin_said = "none"

\* A Store of its own, with a full budget, in which the start code runs.
Starts(c, class) == plugin' = [component |-> c, class |-> class, fuel |-> Fuel, at |-> "start", dead |-> FALSE]

\* Fault: every class shares the widest linker, and a component is not verified.
instantiate_Unverified(c, class) ==
  /\ plugin.component = "none"
  /\ LET imports == Components[c].imports
         refusal == CASE ~Components[c].runs -> "WrongSignature"
                      [] \E i \in imports : ~Linked(i, "User") -> "Engine"
                      [] OTHER -> "none" IN
     /\ plugin_said' = refusal
     /\ IF refusal = "none" THEN Starts(c, class) ELSE UNCHANGED plugin
  /\ UNCHANGED <<host_calls, dispatched, lost>>

\* Host::instantiate: verify, validate_run_export, the class's linker, and then the
\* component's start code, in its own Store and with its imports linked.
instantiate(c, class) ==
  /\ plugin.component = "none"
  /\ LET imports == Components[c].imports
         refusal == CASE \E i \in imports : ~import_in_set(i, class) -> "UnlistedImport"
                      [] ~Components[c].runs -> "WrongSignature"
                      [] \E i \in imports : ~Linked(i, class) -> "Engine"
                      [] OTHER -> "none" IN
     /\ plugin_said' = refusal
     /\ IF refusal = "none" THEN Starts(c, class) ELSE UNCHANGED plugin
  /\ UNCHANGED <<host_calls, dispatched, lost>>

\* The start code is done: the caller gets the instance, with what its Store holds.
Instantiated ==
  /\ plugin.at = "start"
  /\ plugin' = [plugin EXCEPT !.at = "idle"] /\ plugin_said' = "ready"
  /\ UNCHANGED <<host_calls, dispatched, lost>>

\* Plugin::call enters run; an instance that trapped is never entered again.
call_run ==
  /\ plugin.at = "idle"
  /\ IF plugin.dead
     THEN plugin_said' = "Trap" /\ UNCHANGED plugin
     ELSE plugin' = [plugin EXCEPT !.at = "run"] /\ plugin_said' = "none"
  /\ UNCHANGED <<host_calls, dispatched, lost>>

\* classify_engine_error: there is no instance, and the Store is dropped after the
\* calls it made.
StartFails(why, made) ==
  /\ plugin.at = "start"
  /\ plugin' = NoPlugin /\ host_calls' = <<>> /\ dispatched' = <<>>
  /\ lost' = lost \cup {made[i] : i \in DOMAIN made}
  /\ plugin_said' = IF why = "Trap" THEN "Engine" ELSE why

\* classify_call_error: the instance is spent and keeps its Store.
CallFails(why, recorded, made) ==
  /\ plugin.at = "run"
  /\ plugin' = [plugin EXCEPT !.at = "idle", !.dead = TRUE]
  /\ host_calls' = recorded /\ dispatched' = made /\ UNCHANGED lost
  /\ plugin_said' = why

\* Why guest code stopped, after the calls recorded and made.
Stops(why, recorded, made) == StartFails(why, made) \/ CallFails(why, recorded, made)

\* Fuel is spent by running and never refilled.
Burn ==
  /\ Executing
  /\ \/ plugin.fuel = 0 /\ Stops("FuelExhausted", host_calls, dispatched)
     \/ /\ plugin.fuel # 0 /\ plugin' = [plugin EXCEPT !.fuel = @ - 1]
        /\ UNCHANGED <<host_calls, dispatched, lost, plugin_said>>

\* A guest can only name what its imports resolved to.
Imported(function) == \E i \in Components[plugin.component].imports : function \in i.functions

\* HostState::dispatch refuses before it records: too many calls, or too much said.
Declined(bytes) == Len(host_calls) >= MaxHostCalls \/ bytes > MaxBytes

\* Fault: the call is recorded after the dispatcher answered.
dispatch_LateRecord(function, bytes, answer) ==
  /\ Executing /\ Imported(function)
  /\ LET call == [class |-> plugin.class, function |-> function] IN
     \/ Declined(bytes) /\ Stops("HostDispatch", host_calls, dispatched)
     \/ /\ ~Declined(bytes) /\ answer \notin 0..MaxBytes
        /\ Stops("HostDispatch", host_calls, Append(dispatched, call))
     \/ /\ ~Declined(bytes) /\ answer \in 0..MaxBytes
        /\ host_calls' = Append(host_calls, call) /\ dispatched' = Append(dispatched, call)
        /\ UNCHANGED <<plugin, lost, plugin_said>>

\* HostState::dispatch: the number of calls, the argument, the record, the
\* dispatcher (which may refuse), the result.
dispatch(function, bytes, answer) ==
  /\ Executing /\ Imported(function)
  /\ LET call == [class |-> plugin.class, function |-> function] IN
     \/ Declined(bytes) /\ Stops("HostDispatch", host_calls, dispatched)
     \/ /\ ~Declined(bytes) /\ answer \notin 0..MaxBytes
        /\ Stops("HostDispatch", Append(host_calls, call), Append(dispatched, call))
     \/ /\ ~Declined(bytes) /\ answer \in 0..MaxBytes
        /\ host_calls' = Append(host_calls, call) /\ dispatched' = Append(dispatched, call)
        /\ UNCHANGED <<plugin, lost, plugin_said>>

\* The guest returns (its answer measured), or traps.
Returns(bytes) ==
  /\ plugin.at = "run"
  /\ plugin' = [plugin EXCEPT !.at = "idle"]
  /\ plugin_said' = IF bytes > MaxBytes THEN "ResourceLimit" ELSE "answer"
  /\ UNCHANGED <<host_calls, dispatched, lost>>

Traps == Executing /\ Stops("Trap", host_calls, dispatched)

PluginNext ==
  \/ \E c \in DOMAIN Components : \E class \in Classes : instantiate(c, class)
  \/ Instantiated \/ call_run \/ Burn \/ Traps
  \/ \E f \in HostFunctions : \E b, a \in 0..MaxBytes + 1 : dispatch(f, b, a)
  \/ \E b \in 0..MaxBytes + 1 : Returns(b)

PluginSpec == PluginInit /\ [][PluginNext]_pluginVars

\* Whatever a component declares and however its start and its calls end, the
\* dispatcher only ever ran functions of the class a component was instantiated under,
\* an instance never makes more calls than the limit, those of its start code
\* included, and every one of them is in the record its host keeps, in order, the last
\* one's failure included (Host::instantiate, HostState::dispatch).
PluginContained ==
  /\ host_calls = dispatched /\ Len(dispatched) <= MaxHostCalls
  /\ \A i \in DOMAIN dispatched :
       dispatched[i].class = plugin.class /\ dispatched[i].function \in imports_for(plugin.class)
  /\ \A call \in lost : call.function \in imports_for(call.class)

\* "Accepted attempts are recorded before the dispatcher runs, including dispatcher and
\* oversized-result failures ... Plugin::calls exposes the ordered HostCall records"
\* (README of supra_plugin): refuted by start code that calls the host and then fails,
\* as instantiate then returns no Plugin whose record could be read.
EveryCallAudited == lost = {}
=============================================================================
