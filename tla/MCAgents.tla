------------------------------ MODULE MCAgents -------------------------------
(* Instances of Agents.                                                    *)
EXTENDS Agents

AllKinds == {"anthropic", "codex", "pi", "codex-cli", "claude-code", "supervised",
             "acp", "inference", "bus"}

Call(k) == [type |-> "tool_call", id |-> <<0, k>>]
Answer(k) == [type |-> "tool_result", id |-> <<0, k>>]

\* A new conversation, and one with an agent that has called two tools.
MCThreads == {
  <<>>,
  <<Event("agent_start"), Event("text"), Call(1), Call(2), Event("turn_end"),
    Answer(1), Answer(2), Event("agent_end")>> }
MCConversations == {Append(threadToMessages(t), User) : t \in MCThreads}
==============================================================================
