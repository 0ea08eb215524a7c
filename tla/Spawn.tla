------------------------------- MODULE Spawn -------------------------------
(***************************************************************************)
(* Starting and ending a child process: the seven guard layers             *)
(* (supra_guard), the policy and the descriptor audit (supra_sandbox), the *)
(* process handle and the pseudo-terminal (supra_ffi) and the shell        *)
(* session that ties them together (supra_shell).  The kernel is the other *)
(* actor: it recycles a pid as soon as the child is reaped, and a fork     *)
(* copies every descriptor, the close-on-exec ones included, into the      *)
(* intermediate process that waits for the payload and never execs.        *)
(* Sessions spawn on threads of their own, in any interleaving, while      *)
(* other threads of the host open and close descriptors.                   *)
(***************************************************************************)
EXTENDS Naturals, FiniteSets

CONSTANTS
  ShellSessions,   \* sessions a host may open
  Pids,            \* process ids
  Requests,        \* spawn requests, see RequestOK
  MaxPaths,        \* SANDBOX_MAX_PATHS
  MaxChildren      \* bound: children started

\* argv[0] by what the guard can tell of it, the lineage and the vote; and what the
\* permission gate says of the request's mode and reversibility, if it is asked.
RequestOK(r) ==
  /\ r.program \in {"absent", "tool", "own_name", "own_file", "unresolvable"}
  /\ r.lineage \in {"none", "peer", "self", "deep", "rootless"}
  /\ r.vote \in {"none", "other", "own"}
  /\ r.marker \in {"none", "foreign"}
  /\ r.consent \in {"Run", "Ask", "Refuse"}

\* Who owns a pid that no session does.
NoSession == "nobody"

\* A pid is positive, and no session bears a name the owners of other pids have.
ASSUME SpawnAssumption ==
  /\ MaxPaths \in Nat \ {0}
  /\ {NoSession, "other"} \cap ShellSessions = {}
  /\ IsFiniteSet(Pids) /\ 0 \notin Pids /\ MaxChildren \in Nat /\ \A r \in Requests : RequestOK(r)

VARIABLES
  identity,   \* IDENTITY, the process's own binary, once established
  marker_key, \* KEY
  policy,     \* the SandboxPolicy under construction
  platform,   \* what the kernel offers: the tier and per-port network
  host_fds,   \* descriptors of the host above 2: path and close-on-exec
  shells,     \* shells[s]: the ShellSession and the spawn call that makes it
  procs,      \* procs[p]: who owns pid p, in which state, what it holds of other sessions
  tree_total  \* TreeBudget::total

spawnVars == <<identity, marker_key, policy, platform, host_fds, shells, procs,
               tree_total>>

Tiers == [None |-> 0, Namespaces |-> 1, Landlock |-> 2]
NoRequest == [program |-> "absent", lineage |-> "none", vote |-> "none", marker |-> "none", consent |-> "Ask"]
Closed == [pc |-> "none", marker |-> "none", slave |-> FALSE, process |-> 0, request |-> NoRequest,
           since |-> {}, leaks |-> {}, crossed |-> FALSE]
Free == [state |-> "free", owner |-> NoSession, holds |-> {}]

\* What of a spawning session another's fork may copy: the slave of its terminal and
\* the end of the pipe on which its child reports a failed setup.
End == {"slave", "report"} \X ShellSessions

SpawnTypeOK ==
  /\ identity \in BOOLEAN /\ marker_key \in BOOLEAN
  /\ policy.paths \in 0..MaxPaths /\ policy.ports \in BOOLEAN
  /\ platform.tier \in DOMAIN Tiers
  /\ \A s \in ShellSessions : shells[s].process \in Pids \cup {0}
  /\ \A p \in Pids : procs[p].state \in {"free", "live", "zombie"} /\ procs[p].holds \subseteq End
  /\ tree_total \in Nat

SpawnInit ==
  /\ identity = FALSE /\ marker_key = FALSE
  /\ policy = [paths |-> 0, ports |-> FALSE, isolated |-> FALSE, required |-> "None",
               inherited |-> {}]
  /\ platform \in [tier : DOMAIN Tiers, granular : BOOLEAN]
  /\ host_fds = {} /\ tree_total = 0
  /\ shells = [s \in ShellSessions |-> Closed]
  /\ procs = [p \in Pids |-> Free]

\* Its terminal is open and the parent's slave not yet closed.
Opening(s) == shells[s].pc \in {"opened", "audited", "judged", "launched"}

(***************************************************************************)
(* Policy                                                                  *)
(***************************************************************************)
\* Policy::allow: absolute paths only, up to the table's size.
AllowPath ==
  /\ policy.paths < MaxPaths
  /\ policy' = [policy EXCEPT !.paths = @ + 1]

\* default_policy: the bootstrap paths, the terminals, isolation, Landlock.
DefaultPolicy ==
  /\ policy.paths = 0
  /\ policy' = [paths |-> 1, ports |-> FALSE, isolated |-> TRUE, required |-> "Landlock",
                inherited |-> {"tty"}]

\* allow_port narrows the network to the ports listed; network sets it, to all or nothing
\* or to the ports again.
AllowPort == policy' = [policy EXCEPT !.ports = TRUE]
SetNetwork(ports) == policy' = [policy EXCEPT !.ports = ports]
AllowInherited(path) == policy' = [policy EXCEPT !.inherited = @ \cup {path}]

BuildPolicy ==
  /\ \A s \in ShellSessions : shells[s].pc = "none"
  /\ AllowPath \/ DefaultPolicy \/ AllowPort
     \/ (\E ports \in BOOLEAN : SetNetwork(ports)) \/ AllowInherited("pipe")
  /\ UNCHANGED <<identity, marker_key, platform, host_fds, shells, procs, tree_total>>

\* The native spawn refuses a policy it cannot enforce on this platform.
Enforceable ==
  /\ platform.tier # "None"
  /\ Tiers[platform.tier] >= Tiers[policy.required]
  /\ policy.paths > 0 => platform.tier = "Landlock"
  /\ policy.ports => platform.granular

(***************************************************************************)
(* Guard                                                                   *)
(***************************************************************************)
\* establish keeps the first identity; it may fail and its result is ignored.
Establish == identity' \in {identity, TRUE}

\* generate_key: once; no entropy leaves it without a key.
GenerateKey == marker_key' \in {marker_key, TRUE}

\* issue: a fresh marker under the key, nothing without one, or no entropy.
IssueOutcomes == IF marker_key' THEN {"ours", "no_entropy"} ELSE {"none"}

\* verify: only a marker this process's key made authenticates.
verify(m) == m = "ours" /\ marker_key

\* judge: every layer is asked, and each refuses on its own.
judge(r, m) ==
  {l \in 1..7 :
     \/ l = 1 /\ ~identity
     \/ l = 2 /\ ~marker_key
     \/ l = 3 /\ identity /\ r.program \in {"own_name", "unresolvable"}
     \/ l = 4 /\ identity /\ r.program = "own_file"
     \/ l = 5 /\ ~verify(m)
     \/ l = 6 /\ r.lineage \in {"self", "deep", "rootless"}
     \/ l = 7 /\ r.vote = "own"}

(***************************************************************************)
(* ShellSession::spawn                                                     *)
(***************************************************************************)
Become(s, new) == shells' = [shells EXCEPT ![s] = new]
StepTo(s, pc) == Become(s, [shells[s] EXCEPT !.pc = pc]) /\ UNCHANGED procs

\* The pair of a session that closes is gone for whoever holds an end of it.
Forget(held, s) == [p \in Pids |-> [held[p] EXCEPT !.holds = {e \in @ : e[2] # s}]]

\* The pty is dropped with the error.
SpawnFails(s) == Become(s, Closed) /\ procs' = Forget(procs, s)

\* Identity, key and marker; a request's own marker only when none was issued.
PrepareSpawn(s) ==
  /\ shells[s].pc = "none"
  /\ Establish /\ GenerateKey
  /\ \E r \in Requests : \E issued \in IssueOutcomes :
       IF issued = "no_entropy" THEN SpawnFails(s)
       ELSE /\ Become(s, [Closed EXCEPT !.pc = "prepared", !.request = r,
                            !.marker = IF issued = "none" THEN r.marker ELSE issued])
            /\ UNCHANGED procs
  /\ UNCHANGED <<policy, platform, host_fds, tree_total>>

\* Pty::open: master and slave, both close-on-exec; a failure closes what is open.
OpenPty(s) ==
  /\ shells[s].pc = "prepared"
  /\ \/ Become(s, [shells[s] EXCEPT !.pc = "opened", !.slave = TRUE]) /\ UNCHANGED procs
     \/ SpawnFails(s)
  /\ UNCHANGED <<identity, marker_key, policy, platform, host_fds, tree_total>>

\* snapshot: /proc/self/fd as it reads now; one closed meanwhile is skipped.
snapshot == host_fds

find_leaks(fds) == {f \in fds : ~f.cloexec /\ f.path \notin policy.inherited}

\* spawn: a program, then the descriptors, as they are now.
AuditDescriptors(s) ==
  /\ shells[s].pc = "opened"
  /\ IF shells[s].request.program = "absent" \/ find_leaks(snapshot) # {}
     THEN SpawnFails(s) ELSE StepTo(s, "audited")
  /\ UNCHANGED <<identity, marker_key, policy, platform, host_fds, tree_total>>

\* Fault: a verdict with one refusal passes.
Judge_Lenient(s) ==
  /\ shells[s].pc = "audited"
  /\ IF ~identity \/ Cardinality(judge(shells[s].request, shells[s].marker)) > 1
     THEN SpawnFails(s) ELSE StepTo(s, "judged")
  /\ UNCHANGED <<identity, marker_key, policy, platform, host_fds, tree_total>>

Judge(s) ==
  /\ shells[s].pc = "audited"
  /\ IF ~identity \/ judge(shells[s].request, shells[s].marker) # {}
     THEN SpawnFails(s) ELSE StepTo(s, "judged")
  /\ UNCHANGED <<identity, marker_key, policy, platform, host_fds, tree_total>>

\* The parent's ends of the pairs and pipes of sessions that spawn.
ParentEnds ==
  {<<"slave", t>> : t \in {u \in ShellSessions : shells[u].slave}}
    \cup {<<"report", t>> : t \in {u \in ShellSessions : shells[u].pc \in {"judged", "launched"}}}

\* The native spawn forks p.  The fork takes the descriptors of the moment.  The
\* intermediate process of an isolated payload closes the report pipe it was made with,
\* and keeps the ends it has of other sessions for as long as it lives.
ForksChild(s, p) ==
  /\ procs' = [procs EXCEPT ![p] =
       [state |-> "live", owner |-> s,
        holds |-> IF policy.isolated THEN {e \in ParentEnds : e[2] # s} ELSE {}]]
  /\ shells' = [t \in ShellSessions |->
       IF t = s THEN [shells[s] EXCEPT !.pc = "launched", !.process = p,
                        !.leaks = find_leaks(host_fds), !.since = @ \cap find_leaks(host_fds)]
       ELSE [shells[t] EXCEPT !.crossed = @ \/ Opening(t)]]

\* The end of spawn: the command is built, the report pipe opened and the child forked.
\* The request's mode and reversibility are looked at by nobody.
Launch(s) ==
  /\ shells[s].pc = "judged"
  /\ \/ ~Enforceable /\ SpawnFails(s)
     \/ /\ Enforceable /\ tree_total < MaxChildren
        /\ \E p \in Pids : procs[p].state = "free" /\ ForksChild(s, p)
     \/ SpawnFails(s)                                \* pipe, fork, setup or exec failed
  /\ UNCHANGED <<identity, marker_key, policy, platform, host_fds, tree_total>>

HeldElsewhere(kind, s) == \E p \in Pids : <<kind, s>> \in procs[p].holds

\* Fault: the parent keeps its end of the slave.
TakeSlave_Kept(s) ==
  /\ shells[s].pc = "launched" /\ ~HeldElsewhere("report", s)
  /\ StepTo(s, "running")
  /\ tree_total' = tree_total + 1
  /\ UNCHANGED <<identity, marker_key, policy, platform, host_fds>>

\* The report pipe has ended, so the child runs: it is counted, take_slave closes the
\* parent's end and the session exists.
TakeSlave(s) ==
  /\ shells[s].pc = "launched" /\ ~HeldElsewhere("report", s)
  /\ Become(s, [shells[s] EXCEPT !.pc = "running", !.slave = FALSE])
  /\ tree_total' = tree_total + 1
  /\ UNCHANGED <<identity, marker_key, policy, platform, host_fds, procs>>

(***************************************************************************)
(* The running session                                                     *)
(***************************************************************************)
ProcessOf(s) == shells[s].process
Reaped(p) == procs' = [procs EXCEPT ![p] = Free]

\* Fault: the handle outlives the wait that reaped the child.
Wait_KeepsHandle(s) ==
  /\ shells[s].pc = "running" /\ ProcessOf(s) # 0
  /\ \/ procs[ProcessOf(s)].state = "zombie" /\ Reaped(ProcessOf(s)) /\ UNCHANGED shells
     \/ UNCHANGED <<shells, procs>>
  /\ UNCHANGED <<identity, marker_key, policy, platform, host_fds, tree_total>>

\* wait: an exited child is reaped and the handle dropped; a timeout keeps both.
Wait(s) ==
  /\ shells[s].pc = "running" /\ ProcessOf(s) # 0
  /\ \/ /\ procs[ProcessOf(s)].state = "zombie" /\ Reaped(ProcessOf(s))
        /\ Become(s, [shells[s] EXCEPT !.process = 0])
     \/ UNCHANGED <<shells, procs>>
  /\ UNCHANGED <<identity, marker_key, policy, platform, host_fds, tree_total>>

\* kill: SIGTERM to the group, the grace, SIGKILL; a child that cannot be
\* reaped in time keeps its handle.
Kill(s) ==
  /\ shells[s].pc = "running" /\ ProcessOf(s) # 0
  /\ \/ Reaped(ProcessOf(s)) /\ Become(s, [shells[s] EXCEPT !.process = 0])
     \/ UNCHANGED <<shells, procs>>
  /\ UNCHANGED <<identity, marker_key, policy, platform, host_fds, tree_total>>

\* Drop: an unreaped child is killed (200 ms of grace), then the pty closes.
DropSession(s) ==
  /\ shells[s].pc = "running"
  /\ \/ ProcessOf(s) # 0 /\ procs' = Forget([procs EXCEPT ![ProcessOf(s)] = Free], s)
     \/ procs' = Forget(procs, s)
  /\ Become(s, Closed)
  /\ UNCHANGED <<identity, marker_key, policy, platform, host_fds, tree_total>>

\* detach hands the child to the caller, who reaps it.
Detach(s) ==
  /\ shells[s].pc = "running" /\ ProcessOf(s) # 0
  /\ Become(s, [shells[s] EXCEPT !.process = 0])
  /\ procs' = [procs EXCEPT ![ProcessOf(s)].owner = NoSession]
  /\ UNCHANGED <<identity, marker_key, policy, platform, host_fds, tree_total>>

(***************************************************************************)
(* Kernel and other host threads                                           *)
(***************************************************************************)
ProcessExits(p) ==
  /\ procs[p].state = "live"
  /\ procs' = [procs EXCEPT ![p].state = "zombie", ![p].holds = {}]
  /\ UNCHANGED <<identity, marker_key, policy, platform, host_fds, shells, tree_total>>

\* Another program gets a free pid, or ends.
OtherProcess(p) ==
  /\ \/ procs[p].state = "free"
        /\ procs' = [procs EXCEPT ![p] = [Free EXCEPT !.state = "live", !.owner = "other"]]
     \/ procs[p].owner = "other" /\ Reaped(p)
     \/ procs[p].state = "zombie" /\ procs[p].owner = NoSession /\ Reaped(p)
  /\ UNCHANGED <<identity, marker_key, policy, platform, host_fds, shells, tree_total>>

\* Another thread closes a descriptor or opens one, which a session that has made its
\* audit does not learn of.
HostDescriptor(f) ==
  /\ IF f \in host_fds THEN host_fds' = host_fds \ {f} /\ UNCHANGED shells
     ELSE /\ host_fds' = host_fds \cup {f}
          /\ shells' = [t \in ShellSessions |->
               [shells[t] EXCEPT !.since = IF shells[t].pc \in {"audited", "judged"} THEN @ \cup {f} ELSE @]]
  /\ UNCHANGED <<identity, marker_key, policy, platform, procs, tree_total>>

SpawnNext ==
  \/ BuildPolicy
  \/ \E s \in ShellSessions :
       \/ PrepareSpawn(s) \/ OpenPty(s) \/ AuditDescriptors(s) \/ Judge(s) \/ Launch(s)
       \/ TakeSlave(s) \/ Wait(s) \/ Kill(s) \/ DropSession(s) \/ Detach(s)
  \/ \E p \in Pids : ProcessExits(p) \/ OtherProcess(p)
  \/ \E f \in [path : {"file"}, cloexec : {FALSE}] : HostDescriptor(f)

SpawnSpec == SpawnInit /\ [][SpawnNext]_spawnVars

(***************************************************************************)
(* Properties                                                              *)
(***************************************************************************)
\* Its child was reaped, or has exited.
Ended(s) == shells[s].pc = "running" /\ (ProcessOf(s) # 0 => procs[ProcessOf(s)].state = "zombie")

\* "a parent-held slave would keep the pair alive after the child exits, so
\* master reads would never see EOF" (pty.rs): once a session's child has ended the
\* parent holds no slave, and unless another session forked while this one was
\* starting, nobody does: its reader sees the end of the output, and its own spawn
\* waited for no child but its own.
OutputEnds ==
  \A s \in ShellSessions :
    /\ Ended(s) => ~shells[s].slave
    /\ ~shells[s].crossed => (Ended(s) => ~HeldElsewhere("slave", s)) /\ (shells[s].pc = "launched" => ~HeldElsewhere("report", s))

\* The same without the proviso, as the code says it, and as two sessions that start at
\* once refute it: "EOF on the master means the child closed its end - the session is
\* over" (session.rs), so that its absence means the child still runs.
OutputAlwaysEnds == \A s \in ShellSessions : Ended(s) => ~shells[s].slave /\ ~HeldElsewhere("slave", s)

\* "its copy would keep the pipe open and block the parent's read() until the whole tree
\* exits" (linux_spawn.cpp): so the intermediate process closes its own session's report
\* pipe.  It does not close another's; refuted by two sessions that start at once.
SpawnReturns == \A s \in ShellSessions : shells[s].pc = "launched" => ~HeldElsewhere("report", s)

\* A wait or a signal goes to the pid of the session's handle, which names its own child
\* and nobody else: the handle is given up when the child is reaped, before its pid
\* names another process (Process::reaped, ShellSession::wait and kill).
SignalsOwnChild ==
  \A s \in ShellSessions :
    ProcessOf(s) # 0 => procs[ProcessOf(s)].owner = s /\ procs[ProcessOf(s)].state # "free"

\* A running child passed every guard layer under the identity and key the
\* process still has, runs under a sandbox that enforces what the policy asks, and
\* inherited no descriptor outside the policy but one opened after its own audit.
ChildrenVetted ==
  \A s \in ShellSessions :
    shells[s].pc \in {"launched", "running"} =>
      /\ identity /\ judge(shells[s].request, shells[s].marker) = {}
      /\ shells[s].leaks \subseteq shells[s].since
      /\ Enforceable

\* "A single leak defeats the whole boundary" (spawn.rs): refuted by a thread that opens
\* a descriptor without close-on-exec between the audit and the fork.
NothingLeaks == \A s \in ShellSessions : shells[s].leaks = {}

\* "The permission gate refuses the reversibility the classifier assigned, in the user's
\* mode. ... None of the three is optional" (spawn.rs): refuted, spawn never asks it.
ConsentAsked ==
  \A s \in ShellSessions : shells[s].pc \in {"launched", "running"} => shells[s].request.consent # "Refuse"
=============================================================================
