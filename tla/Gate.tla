-------------------------------- MODULE Gate --------------------------------
(***************************************************************************)
(* An external gate (supra_introspector run_gate): cargo runs in a process *)
(* group of its own with two pipes, each drained by a reader thread that   *)
(* keeps what fits under a cap.  The caller waits for the direct child,    *)
(* then for each reader in turn; a reader still busy after GATE_QUIESCE    *)
(* has the whole group killed.  A grandchild inherits the pipes and may    *)
(* outlive cargo, and may have left the group.                             *)
(***************************************************************************)
EXTENDS Naturals, Sequences, FiniteSets

CONSTANTS
  Grandchildren,    \* processes cargo may start
  MayLeaveGroup,    \* whether one may leave cargo's process group
  PipeRoom,         \* what a pipe holds, in chunks
  GateOutputCap,    \* GATE_OUTPUT_CAP, in chunks
  MaxOutput         \* bound: chunks written to one stream

ASSUME GateAssumption == PipeRoom \in Nat \ {0} /\ GateOutputCap \in Nat /\ MaxOutput \in Nat

VARIABLES
  caller,       \* where run_gate is: its pc, the stream it collects, what it returned
  child_state,  \* the direct child: "none", "runs", "exited"
  kin,          \* kin[g]: "unborn", "group", "left", "dead"
  pipe,         \* pipe[s]: [held: chunks in the pipe, written: chunks ever written]
  reader        \* reader[s]: [kept, sent]

runGateVars == <<caller, child_state, kin, pipe, reader>>

Streams == <<"stdout", "stderr">>
StreamSet == {"stdout", "stderr"}

GateTypeOK ==
  /\ caller.pc \in {"start", "wait", "collect", "recv", "done", "refused"}
  /\ \A s \in StreamSet : pipe[s].held \in 0..PipeRoom /\ reader[s].kept \in 0..GateOutputCap

GateInit ==
  /\ caller = [pc |-> "start", stream |-> 1, passed |-> FALSE]
  /\ child_state = "none" /\ kin = [g \in Grandchildren |-> "unborn"]
  /\ pipe = [s \in StreamSet |-> [held |-> 0, written |-> 0]]
  /\ reader = [s \in StreamSet |-> [kept |-> 0, sent |-> FALSE]]

Alive(g) == kin[g] \in {"group", "left"}
Held == child_state = "runs" \/ \E g \in Grandchildren : Alive(g)

(***************************************************************************)
(* run_gate                                                                *)
(***************************************************************************)
StartGate ==
  /\ caller.pc = "start"
  /\ \/ caller' = [caller EXCEPT !.pc = "wait"] /\ child_state' = "runs"
     \/ caller' = [caller EXCEPT !.pc = "refused"] /\ UNCHANGED child_state
  /\ UNCHANGED <<kin, pipe, reader>>

\* child.wait gives the status.
WaitChild ==
  /\ caller.pc = "wait" /\ child_state = "exited"
  /\ \E ok \in BOOLEAN : caller' = [caller EXCEPT !.pc = "collect", !.passed = ok]
  /\ UNCHANGED <<child_state, kin, pipe, reader>>

AfterStream == IF caller.stream = 2 THEN [caller EXCEPT !.pc = "done"]
         ELSE [caller EXCEPT !.pc = "collect", !.stream = 2]

\* recv_timeout gave the reader's text in time.
Collect ==
  /\ caller.pc = "collect" /\ reader[Streams[caller.stream]].sent
  /\ caller' = AfterStream
  /\ UNCHANGED <<child_state, kin, pipe, reader>>

\* Fault: only the direct child is killed.
kill_group_Child == UNCHANGED kin

\* kill_group: everything still in the group.
kill_group == kin' = [g \in Grandchildren |-> IF kin[g] = "group" THEN "dead" ELSE kin[g]]

\* child.wait fails: the group and the child are killed, the gate refuses.
WaitFails ==
  /\ caller.pc = "wait"
  /\ caller' = [caller EXCEPT !.pc = "refused"] /\ kill_group /\ child_state' = "exited"
  /\ UNCHANGED <<pipe, reader>>

\* GATE_QUIESCE passed: the group is killed, then the reader waited for.
Quiesce ==
  /\ caller.pc = "collect" /\ ~reader[Streams[caller.stream]].sent
  /\ caller' = [caller EXCEPT !.pc = "recv"] /\ kill_group
  /\ UNCHANGED <<child_state, pipe, reader>>
Receive ==
  /\ caller.pc = "recv" /\ reader[Streams[caller.stream]].sent
  /\ caller' = AfterStream
  /\ UNCHANGED <<child_state, kin, pipe, reader>>

(***************************************************************************)
(* The readers, capture_capped                                             *)
(***************************************************************************)
\* Fault: a chunk is kept before the cap is looked at.
ReadChunk_OneMore(s) ==
  /\ ~reader[s].sent /\ pipe[s].held > 0
  /\ pipe' = [pipe EXCEPT ![s].held = @ - 1]
  /\ reader' = [reader EXCEPT ![s].kept = IF @ <= GateOutputCap THEN @ + 1 ELSE @]
  /\ UNCHANGED <<caller, child_state, kin>>

\* A chunk is kept while there is room and drained all the same.
ReadChunk(s) ==
  /\ ~reader[s].sent /\ pipe[s].held > 0
  /\ pipe' = [pipe EXCEPT ![s].held = @ - 1]
  /\ reader' = [reader EXCEPT ![s].kept = IF @ < GateOutputCap THEN @ + 1 ELSE @]
  /\ UNCHANGED <<caller, child_state, kin>>
ReadEnd(s) ==
  /\ child_state # "none" /\ ~reader[s].sent /\ pipe[s].held = 0 /\ ~Held
  /\ reader' = [reader EXCEPT ![s].sent = TRUE]
  /\ UNCHANGED <<caller, child_state, kin, pipe>>

(***************************************************************************)
(* cargo and what it starts                                                *)
(***************************************************************************)
WriteOut(s) ==
  /\ Held /\ pipe[s].held < PipeRoom /\ pipe[s].written < MaxOutput
  /\ pipe' = [pipe EXCEPT ![s] = [held |-> @.held + 1, written |-> @.written + 1]]
  /\ UNCHANGED <<caller, child_state, kin, reader>>
Forks(g) ==
  /\ child_state = "runs" /\ kin[g] = "unborn"
  /\ \E home \in IF MayLeaveGroup THEN {"group", "left"} ELSE {"group"} : kin' = [kin EXCEPT ![g] = home]
  /\ UNCHANGED <<caller, child_state, pipe, reader>>
KinExits(g) ==
  /\ Alive(g) /\ kin' = [kin EXCEPT ![g] = "dead"] /\ UNCHANGED <<caller, child_state, pipe, reader>>
ChildExits ==
  /\ child_state = "runs" /\ child_state' = "exited" /\ UNCHANGED <<caller, kin, pipe, reader>>

GateStep == StartGate \/ WaitChild \/ Collect \/ Receive \/ \E s \in StreamSet : ReadChunk(s) \/ ReadEnd(s)

GateNext ==
  \/ GateStep \/ WaitFails \/ Quiesce \/ ChildExits
  \/ \E s \in StreamSet : WriteOut(s)
  \/ \E g \in Grandchildren : Forks(g) \/ KinExits(g)

GateSpec == GateInit /\ [][GateNext]_runGateVars

(***************************************************************************)
(* Properties                                                              *)
(***************************************************************************)
\* A gate whose child has exited is bounded: once its group is killed nothing
\* outside run_gate holds a pipe open, so every reader comes to its end; a reader
\* never leaves while its pipe has something in it, so a full pipe is always
\* drained; and what was written up to the cap is what is returned.
GateBounded ==
  /\ caller.pc = "recv" => ~Held
  /\ \A s \in StreamSet : pipe[s].held > 0 => ~reader[s].sent
  /\ caller.pc = "done" => \A s \in StreamSet :
       reader[s].kept = IF pipe[s].written < GateOutputCap THEN pipe[s].written ELSE GateOutputCap
=============================================================================
