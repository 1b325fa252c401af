-------------------------------- MODULE Serve --------------------------------
(***************************************************************************)
(* runTrigger over any of the triggers of the library, called by an        *)
(* application or by `thread-phase serve` (cmdServe in cli.ts), which runs *)
(* one loop per pipeline that names a trigger, and stops them all when it  *)
(* is told to.                                                             *)
(***************************************************************************)
EXTENDS Hook, CronTrigger

VARIABLES
  source,  \* "timer", "cron" or "hook"
  serve    \* "none", or where cmdServe stands

serveVars == <<source, serve>>
allVars == <<vars, hookVars, serveVars>>

\* The loop of the second pipeline is over with its hook.
OtherDone == other \in {"constructed", "stopped"}

-----------------------------------------------------------------------------
\* cmdServe passes neither a job runner nor maxConcurrency nor a signal, and
\* starts every loop before it waits for anything.
ServeInit ==
  /\ serve \in {"none", "up"}
  /\ serve = "up" => /\ ~options.persisted /\ MaxConcurrency = 1 /\ ~stopped
                     /\ source = "hook" => /\ other = "started" /\ own = [h \in Hooks |-> "older"]
                                        /\ http.servers["older"] = "starting"

SourceInit ==
  \/ source = "timer" /\ genPc = FirstPulled /\ HookUnused
  \/ source = "cron" /\ genPc = CronPulled /\ HookUnused
  \/ source = "hook" /\ genPc = "starting" /\ HookInit

AllInit ==
  /\ stopped \in BOOLEAN /\ seq = 0 /\ options \in Options
  /\ aborted = stopped
  /\ loopPc = "pulling" /\ failed = FALSE
  /\ dispatches = [e \in EventIds |-> "none"]
  /\ cancelled = {} /\ delegated = {} /\ signalled = {}
  /\ SourceInit /\ ServeInit

\* Mutant: only the first handle is stopped.
StoppedFirst == IF source = "hook" THEN HookStops ELSE Stop /\ UNCHANGED hookVars

\* handles.map((h) => h.stop())
StoppedAll ==
  IF source = "hook"
  THEN StopsWith(Unregistered(Unregistered(http, "hook"), "other")) /\ other' = "stopped"
  ELSE Stop /\ UNCHANGED hookVars

\* SIGINT, SIGTERM or the abort signal.
Shutdown ==
  /\ serve = "up" /\ StoppedAll
  /\ serve' = "stopping" /\ UNCHANGED source

\* Promise.all() of done resolves with all of them and rejects with one.
ServeEnds ==
  /\ serve \in {"up", "stopping"} /\ loopPc = "exited"
  /\ \/ ~failed /\ OtherDone /\ serve' = "returned"
     \/ failed /\ serve' = "threw"
  /\ UNCHANGED <<vars, hookVars, source>>

-----------------------------------------------------------------------------
TimerStep ==
  /\ source = "timer"
  /\ Loop \/ Source(Generator) \/ Source(Payload)
     \/ \E e \in EventIds : DispatchStep(e) \/ Cancel(e)
  /\ UNCHANGED <<hookVars, serveVars>>

CronStep ==
  /\ source = "cron"
  /\ Loop \/ Source(Cron) \/ Source(ParserFails)
     \/ \E e \in EventIds : DispatchStep(e) \/ Cancel(e)
  /\ UNCHANGED <<hookVars, serveVars>>

\* stop() of the loop's handle, or of the second hook.
OwnerStops ==
  /\ serve = "none"
  /\ \/ source = "hook" /\ (HookStops \/ OtherStops)
     \/ source # "hook" /\ Stop /\ UNCHANGED hookVars
  /\ UNCHANGED serveVars

AllNext ==
  \/ TimerStep \/ CronStep
  \/ source = "hook" /\ HookStep /\ UNCHANGED serveVars
  \/ OwnerStops \/ Shutdown \/ ServeEnds

AllSpec == AllInit /\ [][AllNext]_allVars

\* Promise reactions, timers and the server's start come, and pipelines end.
\* Nothing is assumed of payload factories and clients, nor that anybody
\* stops anything.
AllFairSpec ==
  /\ AllSpec
  /\ WF_allVars(Loop /\ UNCHANGED <<hookVars, serveVars>>)
  /\ WF_allVars(source = "timer" /\ Source(Generator) /\ UNCHANGED <<hookVars, serveVars>>)
  /\ WF_allVars(source = "cron" /\ Source(Cron) /\ UNCHANGED <<hookVars, serveVars>>)
  /\ WF_allVars(source = "hook" /\ HookRuns /\ UNCHANGED serveVars)
  /\ WF_allVars(ServeEnds)
  /\ \A e \in EventIds :
       /\ WF_allVars(source # "hook" /\ DispatchStep(e) /\ UNCHANGED <<hookVars, serveVars>>)
       /\ WF_allVars(source = "hook" /\ HookDispatchStep(e) /\ UNCHANGED serveVars)

-----------------------------------------------------------------------------
(* Properties.                                                             *)

\* Requests are events of the hook, in the order they came.
TypeOK ==
  /\ TriggerTypeOK
  /\ source \in {"timer", "cron", "hook"}
  /\ serve \in {"none", "up", "stopping", "returned", "threw"}
  /\ reading \in BOOLEAN
  /\ requests \in [EventIds -> {"none", "pending", "resolved", "rejected"}]
  /\ phases \in [EventIds -> {"ahead", "begun", "over", "threw"}]
  /\ http \in [servers: [Servers -> {"idle", "starting", "listening", "failed", "closed"}],
               routes: SUBSET Hooks, shared: Servers \cup {"none"}]
  /\ own \in [Hooks -> Servers] /\ other \in {"constructed", "started", "stopped"}
  /\ arrived = 1..Cardinality(arrived)

\* A pipeline of a hook that completes has answered its request, and no other
\* answers it with a result.
AnsweredByPhase == \A r \in EventIds :
  /\ source = "hook" /\ dispatches[r] = "completed" => requests[r] \in {"resolved", "rejected"}
  /\ requests[r] = "resolved" => phases[r] = "over"

\* A loop that is stopped ends, and so does `serve` that is shut down: no
\* payload factory, no full cap, no request and no second loop hold it up.
ShutdownEndsAll == aborted ~> (loopPc = "exited" /\ serve \notin {"up", "stopping"})
=============================================================================
