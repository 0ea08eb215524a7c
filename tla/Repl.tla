-------------------------------- MODULE Repl --------------------------------
(***************************************************************************)
(* The terminal program (supra_cli main): runs of `supra run`, one turn or *)
(* a prompt, over one directory of sessions (supra_session session).  One  *)
(* run at a time; runs that overlap on a session are SessionStore's        *)
(* subject, and what happens inside a turn is Turn's.                      *)
(*                                                                         *)
(* A turn is the number it was minted with and stands for its answer too.  *)
(***************************************************************************)
EXTENDS Commands

CONSTANTS SessionIds,     \* the ids Session::new may generate
          Invocations,    \* the command lines tried
          PromptLines,    \* the lines typed
          MaxTyped,       \* bound: lines typed
          MaxAnswers      \* bound: answers minted

ASSUME ReplAssumption == "none" \notin SessionIds

VARIABLES run,            \* the running invocation: its phase, flags, session
          saved,          \* session id -> [there, turns], the directory
          answers,        \* answers minted
          typed,          \* lines typed
          conversation,   \* history: the answers the user takes the session to hold
          told            \* history: session id -> answers printed under it

replVars == <<run, saved, answers, typed, conversation, told>>

NoSession == "none"
NoWork == [id |-> NoSession, turns |-> <<>>]
Off == [phase |-> "off", prompting |-> FALSE, session |-> NoSession, work |-> NoWork]

ReplInit ==
  /\ run = Off
  /\ saved = [i \in SessionIds |-> [there |-> FALSE, turns |-> <<>>]]
  /\ told = [i \in SessionIds |-> <<>>]
  /\ answers = 0 /\ typed = 0 /\ conversation = <<>>

\* An id no session of this directory has: generated ids do not repeat.
Used == {i \in SessionIds : saved[i].there} \cup {run.work.id, run.session}
Unused == SessionIds \ Used
generate == CHOOSE i \in Unused : TRUE

\* bail!, `?` and the end of main: the process is gone, the directory stays.
Exit == run' = Off /\ UNCHANGED <<saved, answers, conversation, told>>

\* Session::resume, or Session::new; a session not saved is refused.
OpenSession(id, prompting) ==
  IF id # NoSession /\ ~saved[id].there THEN run' = Off
  ELSE /\ id = NoSession => Unused # {}
       /\ run' = [phase |-> "turn", prompting |-> prompting, session |-> id,
                  work |-> IF id = NoSession THEN [id |-> generate, turns |-> <<>>]
                           ELSE [id |-> id, turns |-> saved[id].turns]]

\* run: the flags, the id to resume, then one turn or the prompt.
Launch(cli) ==
  /\ run = Off /\ typed < MaxTyped /\ typed' = typed + 1
  /\ IF ~validate(cli) \/ cli.resume \notin SessionIds \cup {NoSession}
        \/ (~cli.task /\ cli.resume # NoSession)
     THEN Exit
     ELSE /\ IF cli.task THEN OpenSession(cli.resume, FALSE)
             ELSE run' = [Off EXCEPT !.phase = "prompt", !.prompting = TRUE]
          /\ conversation' = IF cli.task /\ cli.resume # NoSession THEN saved[cli.resume].turns ELSE <<>>
          /\ UNCHANGED <<saved, answers, told>>

\* The turn is decided, recorded and saved; or it, its hooks or the save fail.
TurnDone ==
  /\ run.phase = "turn" /\ answers < MaxAnswers
  /\ answers' = answers + 1
  /\ LET turns == Append(run.work.turns, answers') IN
     /\ run' = [run EXCEPT !.phase = "saved", !.work.turns = turns]
     /\ saved' = [saved EXCEPT ![run.work.id] = [there |-> TRUE, turns |-> turns]]
  /\ UNCHANGED <<typed, conversation, told>>

TurnFails == run.phase \in {"turn", "saved"} /\ Exit /\ UNCHANGED typed

\* Fault: the prompt does not keep the session the turn ran in.
Answered_Forgets ==
  /\ run.phase = "saved"
  /\ run' = IF run.prompting THEN [run EXCEPT !.phase = "prompt", !.work = NoWork] ELSE Off
  /\ conversation' = Append(conversation, Last(run.work.turns))
  /\ told' = [told EXCEPT ![run.work.id] = Append(@, Last(run.work.turns))]
  /\ UNCHANGED <<saved, answers, typed>>

\* The answer is printed under its session, which the prompt goes on with.
Answered ==
  /\ run.phase = "saved"
  /\ run' = IF run.prompting
            THEN [run EXCEPT !.phase = "prompt", !.session = run.work.id, !.work = NoWork] ELSE Off
  /\ conversation' = Append(conversation, Last(run.work.turns))
  /\ told' = [told EXCEPT ![run.work.id] = Append(@, Last(run.work.turns))]
  /\ UNCHANGED <<saved, answers, typed>>

(***************************************************************************)
(* repl: one action per command                                            *)
(***************************************************************************)
\* /help, /clear, /mode, /permissions, /sandbox, /telemetry, /model: only print.
Show == UNCHANGED <<run, saved, answers, conversation, told>>

New ==
  /\ run' = [run EXCEPT !.session = NoSession] /\ conversation' = <<>>
  /\ UNCHANGED <<saved, answers, told>>

\* /resume takes the id on trust; only the next turn looks for the session.
Resume(args) ==
  IF Len(args) # 1 \/ args[1] \notin SessionIds THEN Exit
  ELSE /\ run' = [run EXCEPT !.session = args[1]]
       /\ conversation' = saved[args[1]].turns
       /\ UNCHANGED <<saved, answers, told>>

\* Fault: the branch starts empty.
Branch_Empty ==
  IF run.session = NoSession \/ ~saved[run.session].there THEN Exit
  ELSE /\ Unused # {}
       /\ run' = [run EXCEPT !.session = generate]
       /\ saved' = [saved EXCEPT ![generate] = [there |-> TRUE, turns |-> <<>>]]
       /\ told' = [told EXCEPT ![generate] = told[run.session]]
       /\ UNCHANGED <<answers, conversation>>

\* /branch: a copy under a fresh id, saved, and gone on with.
Branch ==
  IF run.session = NoSession \/ ~saved[run.session].there THEN Exit
  ELSE /\ Unused # {}
       /\ run' = [run EXCEPT !.session = generate]
       /\ saved' = [saved EXCEPT ![generate] = saved[run.session]]
       /\ told' = [told EXCEPT ![generate] = told[run.session]]
       /\ UNCHANGED <<answers, conversation>>

\* /export: prints the saved session, or ends the program.
Export == IF run.session = NoSession \/ ~saved[run.session].there THEN Exit ELSE Show

Task(args) ==
  IF args = <<>> THEN Show
  ELSE OpenSession(run.session, TRUE) /\ UNCHANGED <<saved, answers, conversation, told>>

Typed(line) ==
  /\ run.phase = "prompt" /\ typed < MaxTyped /\ typed' = typed + 1
  /\ LET said == dispatch(builtins, parse_line(line)) IN
     CASE said.action \in {"Unknown", "Authority", "exit"} -> Exit
       [] said.action = "new" -> New
       [] said.action = "resume" -> Resume(said.args)
       [] said.action = "branch" -> Branch
       [] said.action = "export" -> Export
       [] said.action = "task" -> Task(said.args)
       [] OTHER -> Show

\* End of input, or the user kills the program, at any point of a turn too.
Killed == run # Off /\ Exit /\ UNCHANGED typed

ReplNext ==
  \/ \E cli \in Invocations : Launch(cli)
  \/ TurnDone \/ TurnFails \/ Answered \/ Killed
  \/ \E line \in PromptLines : Typed(line)

ReplSpec == ReplInit /\ [][ReplNext]_replVars

ReplTypeOK ==
  /\ run.phase \in {"off", "prompt", "turn", "saved"} /\ run.prompting \in BOOLEAN
  /\ run.session \in SessionIds \cup {NoSession}
  /\ run.work.id \in SessionIds \cup {NoSession}
  /\ \A i \in SessionIds : saved[i].there \in BOOLEAN
  /\ answers \in 0..MaxAnswers /\ typed \in 0..MaxTyped

\* What was told is in the file's turns, in the order it was told.
InOrder(heard, turns) ==
  \E at \in [DOMAIN heard -> DOMAIN turns] :
    /\ \A k \in DOMAIN heard : heard[k] = turns[at[k]]
    /\ \A k, l \in DOMAIN heard : k < l => at[k] < at[l]

\* Whatever mix of runs, commands, failures and kills came before: at the prompt
\* the session's file is the conversation the user has had since it was begun,
\* resumed or branched; and every answer printed under a session, or under the
\* one it was branched from, is in its file, in the order it was printed.
ConversationKept ==
  /\ run.phase = "prompt" =>
       conversation = IF run.session = NoSession THEN <<>> ELSE saved[run.session].turns
  /\ \A i \in SessionIds : InOrder(told[i], saved[i].turns)
=============================================================================
