----------------------------- MODULE AgentRunner -----------------------------
(***************************************************************************)
(* The inference adapter (agents/inference-adapter.ts) over the tool loop  *)
(* runAgentWithTools (agent/runner.ts): rounds of a request, its stream    *)
(* and the tools it calls, with context compression and retries.           *)
(***************************************************************************)
EXTENDS AgentCall, Thread, FiniteSets

CONSTANTS
  Conversations,  \* what the agent may be given as messages
  MaxToolRounds,
  MaxRetries,
  ProtectFirst,   \* messages compression leaves alone, at either end
  ProtectLast,
  RoundCalls      \* bound: tool calls of one round

VARIABLE loop  \* initialMessages, localMessages, attempt, round, forceOutput

ASSUME RunnerAssumption ==
  /\ MaxToolRounds \in Nat \ {0} /\ MaxRetries \in Nat
  /\ ProtectFirst \in Nat /\ ProtectLast \in Nat \ {0} /\ RoundCalls \in Nat

\* A conversation is a sequence of messages, each with finitely many calls.
ASSUME ConversationAssumption ==
  \A c \in Conversations :
    /\ c \in Seq({c[i] : i \in DOMAIN c})
    /\ \A i \in DOMAIN c : IsFiniteSet(c[i].ids)

-----------------------------------------------------------------------------
(* context/compressor.ts                                                   *)

Ids(messages, role) ==
  UNION {messages[i].ids : i \in {j \in DOMAIN messages : messages[j].role = role}}

\* The message that begins the run of tool messages at i.
RunHead(messages, i) ==
  CHOOSE h \in 1..i : /\ messages[h].role # "tool" \/ h = 1
                      /\ \A j \in (h + 1)..i : messages[j].role = "tool"

RunEnds(messages, i) == i = Len(messages) \/ messages[i + 1].role # "tool"

Results(ids) == SetToSeq({Result(id) : id \in ids})

\* A result nobody asked for is dropped.
Kept(messages, i) ==
  IF messages[i].role = "tool" /\ messages[i].ids \cap Ids(messages, "assistant") = {}
  THEN <<>> ELSE <<messages[i]>>

\* Mutant: a call is only answered by a stub if no result follows its message.
SanitizedUnlessPartial(messages) ==
  LET Stubs(i) == IF messages[i].role = "assistant" /\ RunEnds(messages, i)
                  THEN Results(messages[i].ids \ Ids(messages, "tool")) ELSE <<>>
  IN FlattenSeq([i \in DOMAIN messages |-> Kept(messages, i) \o Stubs(i)])

\* Calls without a result are answered by stubs, behind the results that
\* follow their message.
sanitizeToolPairs(messages) ==
  LET Stubs(i) ==
        LET head == messages[RunHead(messages, i)] IN
        IF RunEnds(messages, i) /\ head.role = "assistant"
        THEN Results(head.ids \ Ids(messages, "tool")) ELSE <<>>
  IN FlattenSeq([i \in DOMAIN messages |-> Kept(messages, i) \o Stubs(i)])

\* What a CompressorStrategy may make of a conversation.  Those of the
\* library rewrite contents only; others drop messages between the protected
\* ends.
Compressed(messages) ==
  LET middle == (ProtectFirst + 1)..(Len(messages) - ProtectLast) IN
  {FlattenSeq([i \in DOMAIN messages |-> IF i \in dropped THEN <<>> ELSE <<messages[i]>>]) :
     dropped \in SUBSET middle}

-----------------------------------------------------------------------------
(* The loop.                                                               *)

InLoop == UNCHANGED <<kind, aborted, consumer, result>>

\* finalize(), awaited by the adapter.
Finalizes(reason) ==
  /\ pc' = "finalizing" /\ finish' = reason
  /\ loop' = [loop EXCEPT !.messages = <<>>]

\* The verdict of TokenBudgetTracker.check(), by the estimate of the request.
BudgetStatus == {"OK", "COMPRESS", "HARD_STOP"}

\* What it makes of the messages: HARD_STOP also forces output.
Budgeted(status, messages, force) ==
  IF status = "OK" THEN {[messages |-> messages, force |-> force]}
  ELSE {[messages |-> sanitizeToolPairs(c), force |-> force \/ status = "HARD_STOP"] :
          c \in Compressed(messages)}

\* The head of a round; behind the last one the run ends with 'length'.
Round(attempt, round, messages, force) ==
  IF round = MaxToolRounds THEN Finalizes("stop")
  ELSE IF aborted THEN Finalizes("error")
  ELSE /\ pc' = "requesting" /\ UNCHANGED finish
       /\ \E status \in BudgetStatus : \E b \in Budgeted(status, messages, force) :
            loop' = [loop EXCEPT !.attempt = attempt, !.round = round,
                                 !.messages = b.messages, !.force = b.force]

\* create() resolves.
Requested ==
  /\ At("inference", "requesting")
  /\ pc' = "consuming"
  /\ UNCHANGED <<turn, finish, loop>> /\ Silent /\ InLoop

\* consumeStream() passes a content delta on.
Delta ==
  /\ At("inference", "consuming") /\ Text
  /\ Continues /\ UNCHANGED loop

\* The tool calls consumeStream() has put together: those of the indices that
\* got an id and a name.
ToolCalls == {Cardinality(complete) : complete \in SUBSET (1..RoundCalls)}

\* The stream ends: round_complete, and the tools are started, if any are
\* called.
RoundCompletes ==
  /\ At("inference", "consuming")
  /\ \E n \in ToolCalls :
       /\ turn.calls + n <= MaxCalls
       /\ turn' = [MarkedTurn EXCEPT !.calls = @ + n]
       /\ IF n = 0
          THEN Finalizes("stop") /\ Silent
          ELSE /\ pc' = "tools" /\ UNCHANGED finish
               /\ loop' = [loop EXCEPT !.messages =
                    Append(@, Assistant({<<loop.round + 1, k>> : k \in 1..n}))]
               /\ Emits([k \in 1..n |-> ToolCall])
  /\ InLoop

\* ToolRegistry.execute() answers a tool nobody registered, arguments that do
\* not fit and a handler that throws with a result like any other.
execute(id) == Result(id)

\* Every tool has returned.
ToolsReturn ==
  /\ At("inference", "tools")
  /\ LET ids == loop.messages[Len(loop.messages)].ids
         results == SetToSeq({execute(id) : id \in ids}) IN
     /\ Round(loop.attempt, loop.round + 1, loop.messages \o results, loop.force)
     /\ Emits([k \in 1..Cardinality(ids) |-> Native])
  /\ UNCHANGED turn /\ InLoop

\* The catch clause: a request, a stream or a tool has failed.
LoopThrows ==
  /\ kind = "inference" /\ pc \in {"requesting", "consuming", "tools"}
  /\ \/ Finalizes("error")
     \/ /\ loop.attempt < MaxRetries
        /\ pc' = "sleeping" /\ UNCHANGED finish
        /\ loop' = [loop EXCEPT !.messages = <<>>]
  /\ UNCHANGED turn /\ Silent /\ InLoop

\* The delay is over, which an abort does not cut short.
Retries ==
  /\ At("inference", "sleeping")
  /\ Round(loop.attempt + 1, 0, loop.initial, FALSE)
  /\ UNCHANGED turn /\ Silent /\ InLoop

-----------------------------------------------------------------------------
(* The adapter.                                                            *)

LoopInit ==
  loop \in [initial: IF kind = "inference" THEN Conversations ELSE {<<>>},
            messages: {<<>>}, attempt: {0}, round: {0}, force: {FALSE}]

\* agent_start, and the first round unless the signal is aborted.
InferenceStarts ==
  /\ kind = "inference" /\ Begins /\ result' = "pending"
  /\ Emits(<<AgentStart>>) /\ UNCHANGED turn
  /\ IF aborted' THEN Finalizes("error") ELSE Round(0, 0, loop.initial, FALSE)

\* verifyResult() keeps the result, replaces it or throws.  An abort counts
\* before an error the runner has put into its result.
Finalized ==
  /\ At("inference", "finalizing")
  /\ \E verified \in {finish, "stop", "error"} :
       IF aborted THEN Returns(<<>>, "aborted")
       ELSE Returns(IF verified = "error" THEN <<ErrorEvent>> ELSE <<>>, verified)
  /\ UNCHANGED loop

\* What the event loop owes: the delay and the hook come to an end, and so
\* does what was given a signal that is aborted.
LoopSettles == \/ Retries \/ Finalized
               \/ aborted /\ (RoundCompletes \/ ToolsReturn \/ LoopThrows)

LoopStep == InferenceStarts \/ Requested \/ Delta \/ RoundCompletes
            \/ ToolsReturn \/ LoopThrows \/ Retries \/ Finalized
==============================================================================
