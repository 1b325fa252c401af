------------------------------- MODULE Thread --------------------------------
(***************************************************************************)
(* A thread (agents/thread.ts): the events of earlier runs, and the        *)
(* messages they make for an agent that cannot resume them.                *)
(*                                                                         *)
(* A message is its role and the ids of the tool calls it makes or         *)
(* answers; an event is its type and the id of the tool call.              *)
(***************************************************************************)
EXTENDS Integers, Sequences, SequencesExt

User == [role |-> "user", ids |-> {}]
Assistant(ids) == [role |-> "assistant", ids |-> ids]
Result(id) == [role |-> "tool", ids |-> {id}]

\* The messages so far, and the assistant's message in the making.
NoMessages == [out |-> <<>>, calls |-> {}, hasContent |-> FALSE]

flushAssistant(m) ==
  IF m.hasContent
  THEN [out |-> Append(m.out, Assistant(m.calls)), calls |-> {}, hasContent |-> FALSE]
  ELSE m

\* The cases of the loop.  agent_start, errors, native and thinking events
\* are no part of the conversation; a turn_end only repeats text that was
\* streamed before it.
Told(m, event) ==
  CASE event.type = "text" -> [m EXCEPT !.hasContent = TRUE]
    [] event.type = "tool_call" -> [m EXCEPT !.calls = @ \cup {event.id}, !.hasContent = TRUE]
    [] event.type = "tool_result" ->
         [flushAssistant(m) EXCEPT !.out = Append(@, Result(event.id))]
    [] event.type \in {"turn_end", "agent_end"} -> flushAssistant(m)
    [] OTHER -> m

threadToMessages(events) == flushAssistant(FoldLeft(Told, NoMessages, events)).out
==============================================================================
