----------------------------- MODULE ChildAgents -----------------------------
(***************************************************************************)
(* The adapters that run a command line agent (codex-cli/adapter.ts and    *)
(* claude-code/adapter.ts) and superviseChild (authoring/                  *)
(* supervise-child.ts), which adapters of third parties build on: a child  *)
(* process, what it was told, and the timer behind that.                   *)
(***************************************************************************)
EXTENDS AgentCall

VARIABLE child  \* its state, the last signal, the kill timer, how it exited

NoChild == [state |-> "none", told |-> "nothing", timer |-> FALSE, code |-> "none"]
Spawned == [NoChild EXCEPT !.state = "spawning"]
Dead(c) == c.state \in {"gone", "failed"}
Alive(c) == c.state \in {"spawning", "up"}

\* Mutant: no timer is started.
TerminatedOnly(c) == IF Alive(c) THEN [c EXCEPT !.told = "TERM"] ELSE c

\* SIGTERM now, SIGKILL when the timer fires.
Terminated(c) == IF Alive(c) THEN [c EXCEPT !.told = "TERM", !.timer = TRUE] ELSE c

\* escalate() of superviseChild: only its first call counts.
Escalated(c, signal) ==
  IF Alive(c) /\ ~c.timer /\ c.told = "nothing"
  THEN [c EXCEPT !.told = signal, !.timer = TRUE] ELSE c

-----------------------------------------------------------------------------
(* The child.                                                              *)

CallQuiet == UNCHANGED callVars

ChildUp == child.state = "spawning" /\ child' = [child EXCEPT !.state = "up"] /\ CallQuiet

ChildExits ==
  /\ child.state = "up"
  /\ \E code \in {"zero", "other"} : child' = [child EXCEPT !.state = "gone", !.code = code]
  /\ CallQuiet

\* A missing executable: the event 'error', reported by the adapters.
ChildErrors ==
  /\ child.state = "spawning"
  /\ child' = [child EXCEPT !.state = "failed", !.code = "other"]
  /\ UNCHANGED turn /\ Continues
  /\ IF kind = "supervised" THEN Silent ELSE Emits(<<ErrorEvent>>)

\* A killed child is gone; nothing else is certain of one.
ChildKilled == child.told = "KILL" /\ ChildExits

KillTimer ==
  /\ child.timer
  /\ child' = [child EXCEPT !.timer = FALSE, !.told = IF Alive(child) THEN "KILL" ELSE @]
  /\ CallQuiet

-----------------------------------------------------------------------------
(* The command line agents.                                                *)

\* agent_start and spawn(), which may throw.  A run that is aborted by then
\* terminates its child at once.
CliStarts(k) ==
  /\ kind = k /\ Begins /\ UNCHANGED <<turn, finish>>
  /\ \/ /\ Emits(<<AgentStart>>)
        /\ pc' = "reading" /\ result' = "pending"
        /\ child' = IF aborted' THEN Terminated(Spawned) ELSE Spawned
     \/ /\ Push(<<AgentStart, ErrorEvent, AgentEnd("error")>>) /\ closed' = TRUE
        /\ pc' = "over" /\ result' = "error"
        /\ UNCHANGED child

CodexCliStarts == CliStarts("codex-cli")
ClaudeCodeStarts == CliStarts("claude-code")

\* A line of stdout, or a chunk of stderr, which may outlive the child.
ChildOutput(k, line) ==
  /\ At(k, "reading") /\ child.state \in {"up", "gone"}
  /\ line \/ Other
  /\ Continues /\ UNCHANGED child

CodexCliLine ==
  ChildOutput("codex-cli", Text \/ CallsTool \/ (Emits(TurnEnds) /\ EndTurn))

\* There are no turns in what Claude Code prints.
ClaudeCodeLine == ChildOutput("claude-code", Text \/ CallsTool)

\* Mutant: the error is only in the result.
ExitSilent == <<>>

\* What is pushed for an exit code.
ExitReport == <<ErrorEvent>>

\* The event 'close' behind the exit: the reason is the abort, or the code.
CliCloses(k) ==
  /\ At(k, "reading") /\ Dead(child)
  /\ \/ aborted /\ Returns(<<>>, "aborted")
     \/ ~aborted /\ child.code = "zero" /\ Returns(<<>>, "stop")
     \/ ~aborted /\ child.code = "other" /\ Returns(ExitReport, "error")
  /\ UNCHANGED child

CodexCliCloses == CliCloses("codex-cli")
ClaudeCodeCloses == CliCloses("claude-code")

-----------------------------------------------------------------------------
(* superviseChild.                                                         *)

\* The call; result is the promise of the exit.
Supervises ==
  /\ At("supervised", "idle")
  /\ pc' = "supervising" /\ result' = "pending"
  /\ child' = IF aborted THEN Escalated(Spawned, "TERM") ELSE Spawned
  /\ Silent /\ UNCHANGED <<kind, aborted, consumer, turn, finish>>

\* kill() of the handle.
Kills ==
  /\ At("supervised", "supervising")
  /\ \E signal \in {"TERM", "KILL"} : child' = Escalated(child, signal)
  /\ CallQuiet

\* settle(), behind 'exit' or 'error': the timers are cleared.
ExitSettles ==
  /\ At("supervised", "supervising") /\ Dead(child)
  /\ child' = [child EXCEPT !.timer = FALSE]
  /\ result' = "stop" /\ pc' = "over"
  /\ Silent /\ UNCHANGED <<kind, aborted, consumer, turn, finish>>

-----------------------------------------------------------------------------
\* What an abort does to the child, in the step that aborts.
AbortReaches ==
  CASE pc = "reading" -> Terminated(child)
    [] pc = "supervising" -> Escalated(child, "TERM")
    [] OTHER -> child

ChildStarts == CodexCliStarts \/ ClaudeCodeStarts \/ Supervises

\* What the process and the operating system owe.
ChildRuns == \/ ChildUp \/ ChildErrors \/ ChildKilled \/ KillTimer
             \/ CodexCliCloses \/ ClaudeCodeCloses \/ ExitSettles

ChildStep == ChildStarts \/ ChildRuns \/ ChildExits \/ CodexCliLine \/ ClaudeCodeLine \/ Kills
==============================================================================
