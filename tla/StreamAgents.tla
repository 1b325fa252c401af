---------------------------- MODULE StreamAgents -----------------------------
(***************************************************************************)
(* The adapters that read a provider's stream (anthropic/adapter.ts and    *)
(* codex/adapter.ts) and the one that prompts a pi session                 *)
(* (pi/adapter.ts).                                                        *)
(***************************************************************************)
EXTENDS AgentCall

StreamKinds == {"anthropic", "codex", "pi"}

\* agent_start, and what the run awaits first: the provider's module, unless
\* the caller passed a client or a session.
StreamStarts(k, next) ==
  /\ kind = k /\ Begins /\ result' = "pending" /\ pc' \in {"loading", next}
  /\ Emits(<<AgentStart>>) /\ UNCHANGED <<turn, finish>>

AnthropicStarts == StreamStarts("anthropic", "streaming")
CodexStarts == StreamStarts("codex", "streaming")
PiStarts == StreamStarts("pi", "prompting")

\* mapStopReason() and mapResponseStatus(): a reason that is neither an error
\* nor an abort counts as "stop", an unknown or missing one as "unknown".
AnthropicReasons == {"stop", "unknown"}
CodexReasons == {"stop", "error", "aborted", "unknown"}
PiReasons == {"stop", "error", "aborted", "unknown"}

-----------------------------------------------------------------------------
(* Anthropic and Codex.                                                    *)

\* loadAnthropic() and loadOpenAI() are awaited outside the try: a missing
\* module rejects the result, and the events stay open.
ClientLoads ==
  /\ kind \in {"anthropic", "codex"} /\ pc = "loading"
  /\ \/ Goes("streaming")
     \/ /\ pc' = "over" /\ result' = "rejected"
        /\ UNCHANGED <<kind, aborted, consumer, turn, finish>> /\ Silent

\* The cases of the loop, with stop_reason of message_delta.
AnthropicEvent ==
  /\ At("anthropic", "streaming")
  /\ \/ (Text \/ CallsTool \/ Other) /\ Continues
     \/ finish' \in AnthropicReasons /\ Silent /\ UNCHANGED <<kind, pc, aborted, consumer, turn, result>>

AnthropicThrows == At("anthropic", "streaming") /\ Fails

AnthropicEnds ==
  /\ At("anthropic", "streaming")
  /\ Returns(<<>>, IF aborted THEN "aborted" ELSE finish)

\* The cases of the loop, with the status of response.completed, failed and
\* incomplete.
CodexEvent ==
  /\ At("codex", "streaming")
  /\ \/ (Text \/ CallsTool \/ Other) /\ Continues
     \/ finish' \in CodexReasons /\ Silent /\ UNCHANGED <<kind, pc, aborted, consumer, turn, result>>

CodexThrows == At("codex", "streaming") /\ Fails

\* A response that failed ends the run without an error event.
CodexEnds ==
  /\ At("codex", "streaming")
  /\ Returns(<<>>, IF aborted THEN "aborted" ELSE finish)

-----------------------------------------------------------------------------
(* pi.                                                                     *)

\* The module, createAgentSession() and subscribe(); session.prompt() is
\* called in the same step, also behind an abort.
PiLoads ==
  /\ At("pi", "loading")
  /\ Goes("prompting") \/ Fails

\* translateEvent(); agent_end of the session names the finish reason and
\* maybe an error.
PiEvent ==
  /\ At("pi", "prompting")
  /\ \/ (Text \/ CallsTool \/ Other) /\ Continues
     \/ Emits(TurnEnds) /\ EndTurn /\ Continues
     \/ /\ finish' \in PiReasons
        /\ \E error \in {<<>>, <<ErrorEvent>>} : Emits(Append(error, Native))
        /\ UNCHANGED <<kind, pc, aborted, consumer, turn, result>>

\* What a prompt that ended without a reason means.
Unexplained(otherwise) == IF finish # "unknown" THEN finish
                          ELSE IF aborted THEN "aborted" ELSE otherwise

PiPromptThrows == At("pi", "prompting") /\ Returns(<<ErrorEvent>>, Unexplained("error"))

PiPromptResolves == At("pi", "prompting") /\ Returns(<<>>, Unexplained("unknown"))

StreamGoesOn == AnthropicEvent \/ CodexEvent \/ PiEvent

\* A stream that was given the signal ends or throws once it is aborted; a
\* session's prompt comes to an end, as it may not have seen the abort.
StreamSettles ==
  \/ ClientLoads \/ PiLoads \/ PiPromptThrows \/ PiPromptResolves
  \/ aborted /\ (AnthropicThrows \/ AnthropicEnds \/ CodexThrows \/ CodexEnds)

StreamStep == \/ AnthropicStarts \/ CodexStarts \/ PiStarts
              \/ StreamGoesOn \/ StreamSettles
              \/ AnthropicThrows \/ AnthropicEnds \/ CodexThrows \/ CodexEnds
==============================================================================
