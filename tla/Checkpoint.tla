----------------------------- MODULE Checkpoint -----------------------------
(***************************************************************************)
(* A session's checkpoint as a value (supra_session::checkpoint): what the *)
(* edits and a branch make of it, and which values validate accepts, which *)
(* every save and every load asks.  An edit that is refused leaves the     *)
(* checkpoint as it was.                                                   *)
(*                                                                         *)
(* Ids are numbers, 0 the nil id and NoSession none.  A message is a kind: *)
(* with a role, without one, with a blank one, or no object at all.  A     *)
(* ledger snapshot and a configuration are opaque.                         *)
(***************************************************************************)
EXTENDS Integers, Sequences, SequencesExt, FiniteSets

CONSTANT RevisionLimit    \* u64::MAX
ASSUME CheckpointAssumption == RevisionLimit \in Nat

CHECKPOINT_VERSION == 1
Statuses == {"Active", "Running", "Completed", "Interrupted"}
NoSession == -1
is_nil(id) == id = 0

CheckpointTurn(turn, messages) == [turn |-> turn, messages |-> messages]

NewCheckpoint(session) ==
  [version |-> CHECKPOINT_VERSION, session |-> session, revision |-> 0, status |-> "Active",
   parent |-> NoSession, parent_revision |-> NoSession, turns |-> <<>>, ledger |-> 0, config |-> 0]

\* What an edit returns: the checkpoint, and why it was refused or "Ok".
Refused(c, why) == [checkpoint |-> c, answer |-> why]

\* advance_revision comes first, so that one that fails changes nothing.
Advanced(c, edited) ==
  IF c.revision = RevisionLimit THEN Refused(c, "RevisionExhausted")
  ELSE [checkpoint |-> [edited EXCEPT !.revision = c.revision + 1], answer |-> "Ok"]

set_status(c, status) == Advanced(c, [c EXCEPT !.status = status])
set_ledger(c, ledger) == Advanced(c, [c EXCEPT !.ledger = ledger])
set_config(c, config) == Advanced(c, [c EXCEPT !.config = config])

\* Fault: a repeated turn is appended.
push_turn_Again(c, t) == Advanced(c, [c EXCEPT !.turns = Append(@, t)])

push_turn(c, t) ==
  IF \E i \in DOMAIN c.turns : c.turns[i].turn = t.turn THEN Refused(c, "DuplicateTurn")
  ELSE Advanced(c, [c EXCEPT !.turns = Append(@, t)])

\* Fault: the branch goes on counting where its source stood.
branch_Counts(c, session) ==
  [c EXCEPT !.session = session, !.status = "Active", !.parent = c.session]

branch(c, session) ==
  [c EXCEPT !.version = CHECKPOINT_VERSION, !.session = session, !.revision = 0, !.status = "Active",
            !.parent = c.session, !.parent_revision = c.revision]

\* validate: the first thing wrong, in the order the code looks.
TurnFault(c, i) ==
  LET t == c.turns[i] IN
  CASE is_nil(t.turn) -> "Malformed"
    [] \E j \in 1..i - 1 : c.turns[j].turn = t.turn -> "DuplicateTurn"
    [] \E m \in DOMAIN t.messages : t.messages[m] \in {"blank role", "no object"} -> "Malformed"
    [] OTHER -> "Ok"
validate(c) ==
  LET faults == SelectSeq([i \in DOMAIN c.turns |-> TurnFault(c, i)], LAMBDA f : f # "Ok") IN
  CASE c.version # CHECKPOINT_VERSION -> "UnsupportedVersion"
    [] is_nil(c.session) -> "Malformed"
    [] (c.parent = NoSession) # (c.parent_revision = NoSession) -> "Malformed"
    [] c.parent = c.session -> "Malformed"
    [] OTHER -> IF faults = <<>> THEN "Ok" ELSE faults[1]

\* from_parts, and what load_checkpoint does with a document it decoded.
from_parts(c) == Refused(c, validate(c))

\* validate_legacy_turns; decode_checkpoint, of an envelope or of the older pair
\* of a session and its turns, which is upgraded turn by turn.
validate_legacy_turns(session, turns) ==
  CASE is_nil(session) -> "Malformed"
    [] ~is_nil(session) /\ \E i \in 1..Len(turns) : is_nil(turns[i]) -> "Malformed"
    [] OTHER -> IF Cardinality(ToSet(turns)) = Len(turns) THEN "Ok" ELSE "DuplicateTurn"
Upgraded(session, turns) ==
  FoldLeft(LAMBDA made, turn : IF made.answer = "Ok"
                               THEN push_turn(made.checkpoint, CheckpointTurn(turn, <<>>)) ELSE made,
           [checkpoint |-> NewCheckpoint(session), answer |-> "Ok"], turns)
decode_envelope(c, expected) ==
  IF c.version # CHECKPOINT_VERSION THEN Refused(c, "UnsupportedVersion")
  ELSE IF c.session # expected THEN Refused(c, "Malformed") ELSE from_parts(c)
decode_pair(session, turns, expected) ==
  LET why == IF validate_legacy_turns(session, turns) # "Ok" THEN validate_legacy_turns(session, turns)
             ELSE IF session # expected THEN "Malformed" ELSE "Ok" IN
  IF why = "Ok" THEN Upgraded(session, turns) ELSE Refused(NewCheckpoint(session), why)

\* Session::checkpoint: the turns of a session that was kept as bodies, pushed one
\* by one; and Session::save_checkpoint, which asks whose the checkpoint is.
checkpoint(session, turns) == Upgraded(session, turns)
save_checkpoint(session, c) == IF c.session # session THEN "Malformed" ELSE validate(c)

(***************************************************************************)
(* A session's life: a list of edits                                       *)
(***************************************************************************)
Edited(c, edit) ==
  CASE edit.op = "push"   -> push_turn(c, edit.turn)
    [] edit.op = "status" -> set_status(c, edit.status)
    [] edit.op = "ledger" -> set_ledger(c, edit.value)
    [] edit.op = "config" -> set_config(c, edit.value)
    [] edit.op = "branch" -> [checkpoint |-> branch(c, edit.session), answer |-> "Ok"]

\* The checkpoints a list of edits passes through, with what each answered.
Life(session, edits) ==
  FoldLeft(LAMBDA life, edit : Append(life, Edited(Last(life).checkpoint, edit)),
           <<[checkpoint |-> NewCheckpoint(session), answer |-> "Ok"]>>, edits)

\* A checkpoint made by edits of well-formed turns under fresh ids is always one
\* that can be saved and loaded again, under its own id and no other; its turns
\* written in the older form are upgraded to all of them; every accepted edit but
\* a branch moves the revision on by one, so that two saves never share one;
\* a branch holds all its source held and names the very state it copied; and a
\* refusal leaves the checkpoint alone.
CheckpointLives(session, edits) ==
  LET life == Life(session, edits) IN
  \A n \in DOMAIN edits :
    LET before == life[n].checkpoint
        after == life[n + 1].checkpoint IN
    /\ from_parts(after) = [checkpoint |-> after, answer |-> "Ok"]
    /\ decode_envelope(after, after.session) = [checkpoint |-> after, answer |-> "Ok"]
    /\ decode_envelope(after, after.session + 1).answer = "Malformed"
    /\ LET ids == [i \in DOMAIN after.turns |-> after.turns[i].turn]
           upgraded == decode_pair(after.session, ids, after.session) IN
       /\ decode_pair(after.session, ids, after.session + 1).answer = "Malformed"
       /\ decode_pair(after.session, ids \o ids, after.session).answer # "Ok" \/ ids = <<>>
       /\ Len(ids) <= RevisionLimit =>
            /\ upgraded.answer = "Ok" /\ validate(upgraded.checkpoint) = "Ok"
            /\ upgraded.checkpoint.revision = Len(ids)
            /\ [i \in DOMAIN upgraded.checkpoint.turns |-> upgraded.checkpoint.turns[i].turn] = ids
    /\ checkpoint(after.session, [i \in DOMAIN after.turns |-> after.turns[i].turn]).answer
         = IF Len(after.turns) > RevisionLimit THEN "RevisionExhausted" ELSE "Ok"
    /\ save_checkpoint(before.session, after) = IF edits[n].op = "branch" THEN "Malformed" ELSE "Ok"
    /\ life[n + 1].answer # "Ok" => after = before
    /\ (life[n + 1].answer = "Ok" /\ edits[n].op # "branch")
         => after.revision = before.revision + 1 /\ IsPrefix(before.turns, after.turns)
    /\ edits[n].op = "branch" =>
         /\ after.turns = before.turns /\ after.ledger = before.ledger /\ after.config = before.config
         /\ after.revision = 0 /\ after.session # before.session
         /\ after.parent = before.session /\ after.parent_revision = before.revision
=============================================================================
