-------------------------- MODULE RunTriggerProofs --------------------------
(***************************************************************************)
(* What holds of runTrigger over any trigger, for every cap, every number  *)
(* of events and both ways of dispatching.  What the loop guarantees is    *)
(* inductive together with TriggerTypeOK and Handover, for any generator   *)
(* that makes one event at a time (GeneratorMoves); SourceOK and HookOK    *)
(* are what the cron trigger and the hook need to be such generators.      *)
(***************************************************************************)
EXTENDS Serve, FiniteSetTheorems, TLAPS

\* Who has the last event: the generator until it is yielded, then the loop;
\* when the generator works on the next one, it has been dispatched.
Handover ==
  /\ loopPc = "pulling" => genPc # "suspended"
  /\ loopPc \in {"arrived", "blocked"} =>
       genPc = "suspended" /\ seq \in EventIds /\ seq \notin dispatched
  /\ genPc = "made" => seq \in EventIds /\ seq \notin dispatched
  /\ loopPc = "pulling" /\ genPc # "made" => 1..seq \subseteq dispatched

\* A run that begins cancelled has an aborted signal.
EarlyCancels ==
  options.persisted =>
    \A e \in cancelled \ delegated :
      /\ dispatches[e] = "running" => e \in signalled
      /\ dispatches[e] \notin {"checked", "completed"}

TriggerInv == /\ TriggerTypeOK /\ Handover /\ EarlyCancels
              /\ OnlyLastMissed /\ CapRespected /\ DoneAfterPipelines

\* The steps of a dispatch start nothing and take nobody back in flight.
DispatchKeeps ==
  /\ UNCHANGED <<timerVars, loopVars, options>>
  /\ dispatches' \in [EventIds -> DispatchStates]
  /\ dispatched' = dispatched /\ inflight' \subseteq inflight

LEMMA CapIsPositive ==
  ASSUME options \in Options
  PROVE  MaxConcurrency \in Nat /\ MaxConcurrency >= 1
BY OptionsAssumption DEF MaxConcurrency

\* The pipelines in flight can be counted.
LEMMA InflightFinite ==
  /\ IsFiniteSet(inflight) /\ Cardinality(inflight) \in Nat
  /\ IsFiniteSet(EventIds)
<1>1. IsFiniteSet(EventIds)
  BY FS_Interval, MaxEventsAssumption DEF EventIds
<1>2. inflight \subseteq EventIds
  BY DEF inflight
<1>3. QED
  BY <1>1, <1>2, FS_Subset, FS_CardinalityType

\* Fewer pipelines in flight never break the cap.
LEMMA CapShrinks ==
  ASSUME CapRespected, inflight' \subseteq inflight, options \in Options, options' = options
  PROVE  CapRespected'
<1>1. Cardinality(inflight') <= Cardinality(inflight) /\ Cardinality(inflight') \in Nat
  BY InflightFinite, FS_Subset, FS_CardinalityType
<1>2. Cardinality(inflight) <= MaxConcurrency /\ Cardinality(inflight) \in Nat
  BY InflightFinite DEF CapRespected
<1>3. QED
  BY <1>1, <1>2, CapIsPositive DEF CapRespected, MaxConcurrency

\* How a call of runTrigger begins, whatever the first next() does.
TriggerBegins ==
  /\ stopped \in BOOLEAN /\ seq = 0 /\ options \in Options
  /\ genPc \in GenPcs \ {"suspended", "made"}
  /\ aborted = stopped /\ loopPc = "pulling" /\ failed = FALSE
  /\ dispatches = [e \in EventIds |-> "none"]
  /\ cancelled = {} /\ delegated = {} /\ signalled = {}

LEMMA InitTriggerInv == TriggerBegins => TriggerInv
<1> SUFFICES ASSUME TriggerBegins PROVE TriggerInv
  OBVIOUS
<1> USE DEF TriggerBegins
<1>1. dispatched = {} /\ inflight = {} /\ 1..seq = {}
  BY DEF dispatched, inflight
<1>2. TriggerTypeOK
  <2>1. seq \in 0..MaxEvents /\ dispatches \in [EventIds -> DispatchStates]
    BY MaxEventsAssumption DEF DispatchStates
  <2>2. genPc \in GenPcs /\ stopped \in BOOLEAN /\ aborted \in BOOLEAN
    OBVIOUS
  <2>3. /\ dispatched \subseteq 1..seq /\ cancelled \subseteq dispatched
        /\ delegated \subseteq signalled /\ signalled \subseteq cancelled
    BY <1>1
  <2>4. QED
    BY <2>1, <2>2, <2>3 DEF TriggerTypeOK
<1>3. CapRespected
  BY <1>1, FS_EmptySet, CapIsPositive DEF CapRespected
<1>4. Handover /\ EarlyCancels /\ OnlyLastMissed /\ DoneAfterPipelines
  BY <1>1 DEF Handover, EarlyCancels, OnlyLastMissed, EventIds, DoneAfterPipelines
<1>5. QED
  BY <1>2, <1>3, <1>4 DEF TriggerInv

LEMMA DispatchStepKeeps ==
  ASSUME TriggerTypeOK, NEW e \in EventIds, DispatchStep(e) \/ Cancel(e)
  PROVE  /\ DispatchKeeps
         /\ delegated' \subseteq signalled' /\ signalled' \subseteq cancelled'
         /\ cancelled' \subseteq dispatched'
<1> USE DEF TriggerTypeOK, DispatchStates
<1>1. CASE Cancel(e)
  BY <1>1 DEF Cancel, DispatchKeeps, inflight, dispatched
<1>2. CASE DispatchStep(e)
  <2>1. /\ dispatches[e] \in {"creating", "running", "checked"}
        /\ \E state \in {"running", "checked", "completed", "failed"} : Becomes(e, state)
    BY <1>2 DEF DispatchStep, Created, PassesLastCheck, Completes, Fails, inflight
  <2>2. QED
    <3>1. PICK state \in {"running", "checked", "completed", "failed"} : Becomes(e, state)
      BY <2>1
    <3>2. \A d \in EventIds : dispatches'[d] = IF d = e THEN state ELSE dispatches[d]
      BY <3>1 DEF Becomes
    <3>3. dispatched' = dispatched /\ inflight' \subseteq inflight
      BY <2>1, <3>2 DEF dispatched, inflight
    <3>4. dispatches' \in [EventIds -> DispatchStates]
      BY <3>1 DEF Becomes
    <3>5. signalled' = signalled \/ (e \in cancelled /\ signalled' = signalled \cup {e})
      BY <1>2 DEF DispatchStep, Created, SignalsChained, PassesLastCheck, Completes, Fails
    <3>6. QED
      BY <3>1, <3>3, <3>4, <3>5 DEF Becomes, DispatchKeeps
<1>3. QED
  BY <1>1, <1>2

LEMMA EarlyCancelsKept ==
  ASSUME TriggerTypeOK, EarlyCancels, NEW e \in EventIds, DispatchStep(e) \/ Cancel(e)
  PROVE  EarlyCancels'
<1> SUFFICES ASSUME options.persisted, NEW d \in cancelled' \ delegated'
             PROVE  /\ dispatches'[d] = "running" => d \in signalled'
                    /\ dispatches'[d] \notin {"checked", "completed"}
  BY DEF EarlyCancels, DispatchStep, Created, PassesLastCheck, Completes, Fails, Becomes, Cancel
<1> USE DEF EarlyCancels, TriggerTypeOK
<1>1. CASE Cancel(e)
  BY <1>1 DEF Cancel, inflight
<1>2. CASE Created(e)
  BY <1>2 DEF Created, Becomes, SignalsChained
<1>3. CASE PassesLastCheck(e)
  BY <1>3 DEF PassesLastCheck, Becomes
<1>4. CASE Completes(e)
  BY <1>4 DEF Completes, Becomes
<1>5. CASE Fails(e)
  BY <1>5 DEF Fails, Becomes
<1> QED
  BY <1>1, <1>2, <1>3, <1>4, <1>5 DEF DispatchStep

\* A step that leaves the dispatches alone keeps what is said of them.
LEMMA DispatchesKept ==
  ASSUME UNCHANGED dispatchVars
  PROVE  /\ dispatched' = dispatched /\ inflight' = inflight /\ options' = options
         /\ EarlyCancels' = EarlyCancels
BY DEF dispatchVars, dispatched, inflight, EarlyCancels

\* What a generator does between two looks of the loop at it.
Working == {"loading", "starting", "waiting", "elapsed", "making"}

GeneratorMoves ==
  /\ genPc \in Working /\ UNCHANGED <<stopped, loopVars, dispatchVars>>
  /\ \/ genPc' \in Working \cup {"returned", "threw"} /\ UNCHANGED seq
     \/ genPc' = "made" /\ seq < MaxEvents /\ seq' = seq + 1

TriggerMoves ==
  \/ Loop \/ GeneratorMoves \/ Stop \/ UNCHANGED vars
  \/ \E e \in EventIds : DispatchStep(e) \/ Cancel(e)

LEMMA TimerMoves ==
  ASSUME Source(Generator) \/ Source(Payload)
  PROVE  GeneratorMoves
BY DEF Source, Generator, Payload, IntervalElapses, WaitStopped, AskPayload, StopWins, StopRaced,
       PayloadResolves, PayloadRejects, GeneratorMoves, Working

LEMMA NextTriggerInv == TriggerInv /\ TriggerMoves => TriggerInv'
<1> SUFFICES ASSUME TriggerInv, TriggerMoves PROVE TriggerInv'
  OBVIOUS
<1> USE DEF TriggerInv
<1>1. ASSUME NEW e \in EventIds, DispatchStep(e) \/ Cancel(e)
      PROVE  TriggerInv'
  <2>1. /\ DispatchKeeps
        /\ delegated' \subseteq signalled' /\ signalled' \subseteq cancelled'
        /\ cancelled' \subseteq dispatched'
    BY <1>1, DispatchStepKeeps
  <2>2. CapRespected' /\ EarlyCancels'
    BY <1>1, <2>1, CapShrinks, EarlyCancelsKept DEF DispatchKeeps, TriggerTypeOK
  <2>3. QED
    BY <2>1, <2>2
    DEF DispatchKeeps, timerVars, loopVars, TriggerTypeOK, Handover, OnlyLastMissed,
        DoneAfterPipelines
<1>2. CASE Dispatches
  <2>1. /\ seq \in EventIds /\ HasRoom
        /\ dispatches' = [dispatches EXCEPT ![seq] = IF options.persisted THEN "creating" ELSE "running"]
    BY <1>2 DEF Dispatches, Proceeds, Handover
  <2>2. dispatched' = dispatched \cup {seq}
    BY <2>1 DEF TriggerTypeOK, dispatched
  <2>3. inflight' = inflight \cup {seq}
    BY <2>1 DEF TriggerTypeOK, inflight
  <2>4. CapRespected'
    <3>1. Cardinality(inflight') <= Cardinality(inflight) + 1 /\ Cardinality(inflight') \in Nat
      <4>1. /\ IsFiniteSet(inflight \cup {seq})
            /\ \/ Cardinality(inflight \cup {seq}) = Cardinality(inflight)
               \/ Cardinality(inflight \cup {seq}) = Cardinality(inflight) + 1
        BY InflightFinite, FS_AddElement
      <4>2. QED
        BY <2>3, <4>1, InflightFinite
    <3>2. MaxConcurrency' = MaxConcurrency /\ MaxConcurrency \in Nat
      BY <1>2, CapIsPositive DEF Dispatches, MaxConcurrency, TriggerTypeOK
    <3>3. QED
      BY <2>1, <3>1, <3>2, InflightFinite DEF HasRoom, CapRespected
  <2>5. 1..seq \subseteq dispatched'
    <3>1. ASSUME NEW e \in 1..seq PROVE e \in dispatched'
      <4>1. e \in EventIds /\ (e < seq \/ e = seq)
        BY <2>1, MaxEventsAssumption DEF EventIds
      <4>2. QED
        BY <2>2, <4>1 DEF OnlyLastMissed
    <3>2. QED
      BY <3>1
  <2>6. /\ loopPc' = "pulling" /\ genPc' \in {"returned", "waiting"}
        /\ UNCHANGED <<stopped, seq, aborted, failed, options, cancelled, delegated, signalled>>
    BY <1>2 DEF Dispatches, AwaitsNext, Pulled
  <2>7. dispatches' \in [EventIds -> DispatchStates]
    BY <2>1 DEF TriggerTypeOK, DispatchStates
  <2>8. dispatched' \subseteq 1..seq
    BY <2>1, <2>2, MaxEventsAssumption DEF TriggerTypeOK, EventIds
  <2>9. TriggerTypeOK'
    BY <2>2, <2>6, <2>7, <2>8 DEF TriggerTypeOK, GenPcs
  <2>10. Handover' /\ OnlyLastMissed' /\ DoneAfterPipelines'
    BY <2>2, <2>5, <2>6 DEF Handover, OnlyLastMissed, DoneAfterPipelines
  <2>11. EarlyCancels'
    <3>1. cancelled \subseteq dispatched /\ seq \notin dispatched
      BY <1>2 DEF Dispatches, Proceeds, Handover, TriggerTypeOK
    <3>2. \A e \in cancelled : dispatches'[e] = dispatches[e]
      BY <2>1, <3>1 DEF TriggerTypeOK, dispatched
    <3> QED
      BY <2>6, <3>2 DEF EarlyCancels
  <2>12. QED
    BY <2>4, <2>9, <2>10, <2>11
<1>3. ASSUME UNCHANGED dispatchVars, UNCHANGED seq,
             TriggerTypeOK', Handover', DoneAfterPipelines'
      PROVE  TriggerInv'
  <2>1. /\ dispatched' = dispatched /\ inflight' = inflight /\ options' = options
        /\ EarlyCancels'
    BY <1>3, DispatchesKept
  <2>2. CapRespected' /\ OnlyLastMissed'
    BY <1>3, <2>1, CapShrinks DEF OnlyLastMissed, TriggerTypeOK
  <2>3. QED
    BY <1>3, <2>1, <2>2
<1>4. CASE Loop /\ ~Dispatches
  <2>1. UNCHANGED dispatchVars /\ UNCHANGED seq
    BY <1>4 DEF Loop, Arrives, BlocksAtCapacity, BreaksOut, CallbackThrows, GeneratorEnds,
                Exits, Leave, timerVars
  <2>2. dispatched' = dispatched /\ inflight' = inflight /\ options' = options
    BY <2>1, DispatchesKept
  <2>3. TriggerTypeOK' /\ Handover' /\ DoneAfterPipelines'
    BY <1>4, <2>1, <2>2
    DEF Loop, Arrives, BlocksAtCapacity, BreaksOut, CallbackThrows, GeneratorEnds, Exits,
        Leave, Proceeds, AllSettled, timerVars, dispatchVars, TriggerTypeOK, GenPcs, Handover,
        DoneAfterPipelines
  <2>4. QED
    BY <2>1, <2>3, <1>3
<1>5. CASE Stop
  <2>1. dispatched' = dispatched /\ inflight' = inflight /\ options' = options
    BY <1>5, DispatchesKept DEF Stop
  <2>2. TriggerTypeOK' /\ Handover' /\ DoneAfterPipelines'
    BY <1>5, <2>1 DEF Stop, dispatchVars, TriggerTypeOK, Handover, DoneAfterPipelines
  <2>3. QED
    BY <1>5, <2>2, <1>3 DEF Stop
<1>6. CASE GeneratorMoves /\ UNCHANGED seq
  <2>1. dispatched' = dispatched /\ inflight' = inflight /\ options' = options
    BY <1>6, DispatchesKept DEF GeneratorMoves
  <2>2. genPc' \in GenPcs \ {"suspended", "made"}
    BY <1>6, MaxEventsAssumption DEF GeneratorMoves, Working, GenPcs, TriggerTypeOK
  <2>3. TriggerTypeOK' /\ Handover' /\ DoneAfterPipelines'
    BY <1>6, <2>1, <2>2
    DEF GeneratorMoves, Working, loopVars, dispatchVars, TriggerTypeOK, Handover,
        DoneAfterPipelines
  <2>4. QED
    BY <1>6, <2>1, <2>3, <1>3 DEF GeneratorMoves
<1>7. CASE GeneratorMoves /\ genPc' = "made" /\ seq < MaxEvents /\ seq' = seq + 1
  <2>1. dispatched' = dispatched /\ inflight' = inflight /\ options' = options
    BY <1>7, DispatchesKept DEF GeneratorMoves
  <2>2. loopPc = "pulling" /\ 1..seq \subseteq dispatched
    BY <1>7 DEF GeneratorMoves, Working, Handover, TriggerTypeOK
  <2>3. CapRespected' /\ EarlyCancels'
    BY <1>7, <2>1, CapShrinks, DispatchesKept DEF GeneratorMoves, TriggerTypeOK
  <2>4. OnlyLastMissed'
    BY <1>7, <2>1, <2>2, MaxEventsAssumption DEF OnlyLastMissed, EventIds, TriggerTypeOK
  <2>5. TriggerTypeOK' /\ Handover' /\ DoneAfterPipelines'
    BY <1>7, <2>1, <2>2, MaxEventsAssumption
    DEF GeneratorMoves, loopVars, dispatchVars, TriggerTypeOK, GenPcs, Handover,
        DoneAfterPipelines, EventIds
  <2>6. QED
    BY <2>3, <2>4, <2>5
<1>8. CASE UNCHANGED vars
  <2>1. dispatched' = dispatched /\ inflight' = inflight /\ options' = options
    BY <1>8, DispatchesKept DEF vars
  <2>2. TriggerTypeOK' /\ Handover' /\ DoneAfterPipelines'
    BY <1>8, <2>1
    DEF vars, timerVars, loopVars, dispatchVars, TriggerTypeOK, Handover, DoneAfterPipelines
  <2>3. QED
    BY <1>8, <2>2, <1>3 DEF vars, timerVars
<1>9. QED
  BY <1>1, <1>2, <1>4, <1>5, <1>6, <1>7, <1>8 DEF TriggerMoves, GeneratorMoves

\* The loop over the interval trigger, by itself.
LEMMA TimerTriggerInv == Spec => []TriggerInv
<1>1. Init => TriggerBegins
  BY DEF Init, TriggerBegins, FirstPulled, GenPcs
<1>2. [Next]_vars => TriggerMoves
  BY TimerMoves DEF Next, TriggerMoves
<1> QED
  BY <1>1, <1>2, InitTriggerInv, NextTriggerInv, PTL DEF Spec

-----------------------------------------------------------------------------
(* Any trigger, under `serve` or not.                                      *)

HttpStates ==
  [servers: [Servers -> {"idle", "starting", "listening", "failed", "closed"}],
   routes: SUBSET Hooks, shared: Servers \cup {"none"}]

LEMMA HttpMoves ==
  ASSUME NEW x \in HttpStates, NEW h \in Hooks, own \in [Hooks -> Servers]
  PROVE  Registered(x, h) \in HttpStates /\ Unregistered(x, h) \in HttpStates
<1> DEFINE States == {"idle", "starting", "listening", "failed", "closed"}
<1>1. Registered(x, h) \in HttpStates
  <2> DEFINE added == [x EXCEPT !.routes = @ \cup {h}]
             servers == [added.servers EXCEPT ![own[h]] = IF @ = "idle" THEN "starting" ELSE @]
  <2>1. added \in HttpStates
    BY DEF HttpStates
  <2>2. Registered(x, h) = [added EXCEPT !.servers = servers]
    BY Zenon DEF Registered
  <2> HIDE DEF added
  <2>3. servers \in [Servers -> States]
    BY <2>1 DEF HttpStates
  <2> HIDE DEF servers
  <2> QED
    BY <2>1, <2>2, <2>3 DEF HttpStates
<1>2. [x EXCEPT !.routes = @ \ {h}] \in HttpStates
  BY DEF HttpStates
<1>3. \A y \in HttpStates : SharedClosed(y) \in HttpStates
  <2> SUFFICES ASSUME NEW y \in HttpStates, y.shared # "none"
               PROVE  SharedClosed(y) \in HttpStates
    BY DEF SharedClosed
  <2>1. y.shared \in Servers
    BY DEF HttpStates
  <2> DEFINE servers == [y.servers EXCEPT ![y.shared] = IF @ = "listening" THEN "closed" ELSE @]
  <2>2. servers \in [Servers -> States]
    BY <2>1 DEF HttpStates
  <2>3. y = [servers |-> y.servers, routes |-> y.routes, shared |-> y.shared]
    BY DEF HttpStates
  <2>4. SharedClosed(y) = [servers |-> servers, routes |-> y.routes, shared |-> "none"]
    BY <2>3 DEF SharedClosed
  <2>5. y.routes \in SUBSET Hooks
    BY DEF HttpStates
  <2> HIDE DEF servers
  <2> QED
    BY <2>2, <2>4, <2>5 DEF HttpStates
<1> QED
  BY <1>1, <1>2, <1>3 DEF Unregistered

\* A hook has an event for each request, in the order they came, and its
\* phase answers it.
HookOK ==
  /\ reading \in BOOLEAN
  /\ requests \in [EventIds -> {"none", "pending", "resolved", "rejected"}]
  /\ phases \in [EventIds -> {"ahead", "begun", "over", "threw"}]
  /\ http \in HttpStates /\ own \in [Hooks -> Servers]
  /\ other \in {"constructed", "started", "stopped"}
  /\ \E n \in 0..MaxEvents : arrived = 1..n
  /\ source = "hook" => \A r \in 1..seq : r \in arrived
  /\ \A e \in EventIds :
       /\ phases[e] # "ahead" => e \in dispatched
       /\ phases[e] \in {"over", "threw"} => requests[e] \in {"resolved", "rejected"}
       /\ source = "hook" /\ dispatches[e] = "completed" => phases[e] = "over"
       /\ requests[e] = "resolved" => phases[e] = "over"

\* A timer of the cron trigger has an event left to make.
SourceOK ==
  /\ source \in {"timer", "cron", "hook"}
  /\ serve \in {"none", "up", "stopping", "returned", "threw"}
  /\ source = "cron" /\ genPc = "elapsed" => seq < MaxEvents

AllInv == TriggerInv /\ SourceOK /\ HookOK

LEMMA ArrivedIs ==
  ASSUME NEW n \in 0..MaxEvents, arrived = 1..n
  PROVE  Cardinality(arrived) = n
BY FS_Interval, MaxEventsAssumption

LEMMA InitAllInv == AllInit => AllInv
<1> SUFFICES ASSUME AllInit PROVE AllInv
  OBVIOUS
<1>1. TriggerInv
  <2>1. genPc \in GenPcs \ {"suspended", "made"}
    BY DEF AllInit, SourceInit, FirstPulled, CronPulled, GenPcs
  <2> QED
    BY <2>1, InitTriggerInv DEF AllInit, TriggerBegins
<1>2. SourceOK
  BY DEF AllInit, SourceInit, ServeInit, CronPulled, SourceOK
<1>3. /\ reading = FALSE /\ requests = [r \in EventIds |-> "none"]
      /\ phases = [r \in EventIds |-> "ahead"]
      /\ http \in HttpStates /\ own \in [Hooks -> Servers]
      /\ other \in {"constructed", "started"}
  <2>1. "older" \in Servers
    BY ServersAssumption
  <2>2. CASE HookUnused
    BY <2>1, <2>2 DEF HookUnused, NoRequests, HttpStates
  <2>3. CASE HookInit
    <3>1. PICK current \in Servers :
            /\ own \in [Hooks -> {"older", current}]
            /\ \E x \in ServersSoFar(current) :
                 http = Registered(IF stopped THEN Unregistered(x, "hook") ELSE x, "hook")
      BY <2>3 DEF HookInit
    <3>2. PICK x \in ServersSoFar(current) :
            http = Registered(IF stopped THEN Unregistered(x, "hook") ELSE x, "hook")
      BY <3>1
    <3>3. x \in HttpStates /\ own \in [Hooks -> Servers] /\ "hook" \in Hooks
      BY <2>1, <3>1 DEF ServersSoFar, HttpStates, Hooks
    <3>4. http \in HttpStates
      BY <3>2, <3>3, HttpMoves
    <3> QED
      BY <2>3, <3>3, <3>4 DEF HookInit, NoRequests
  <2> QED
    BY <2>2, <2>3 DEF AllInit, SourceInit
<1>4. arrived = 1..0 /\ 0 \in 0..MaxEvents /\ 1..seq = {}
  BY <1>3, MaxEventsAssumption DEF AllInit, arrived
<1>5. \A e \in EventIds : dispatches[e] = "none" /\ phases[e] = "ahead" /\ requests[e] = "none"
  BY <1>3 DEF AllInit
<1>6. HookOK
  BY <1>3, <1>4, <1>5 DEF HookOK
<1> QED
  BY <1>1, <1>2, <1>6 DEF AllInv

\* Every trigger makes one event at a time, and nothing but its stop()
\* reaches the loop.
LEMMA AllMoves ==
  ASSUME AllInv, [AllNext]_allVars
  PROVE  TriggerMoves
<1> USE DEF AllInv
<1>1. CASE TimerStep
  BY <1>1, TimerMoves DEF TimerStep, TriggerMoves
<1>2. CASE CronStep
  <2>1. CASE Source(Cron) \/ Source(ParserFails)
    <3>1. GeneratorMoves
      BY <1>2, <2>1
      DEF CronStep, Source, Cron, ParserLoads, ParserFails, CronElapses, IntervalElapses,
          WaitStopped, CronYields, Pulled, GeneratorMoves, Working, SourceOK
    <3> QED
      BY <3>1 DEF TriggerMoves
  <2> QED
    BY <1>2, <2>1 DEF CronStep, TriggerMoves
<1>3. CASE HookStep
  <2>1. CASE HookRuns
    <3>1. CASE Listens
      BY <3>1 DEF Listens, TriggerMoves
    <3>2. CASE ServerReady \/ ServerFailed \/ WaiterStopped
      <4>1. GeneratorMoves
        BY <3>2 DEF ServerReady, ServerFailed, WaiterStopped, HookGenerator, Pulled,
                    GeneratorMoves, Working
      <4> QED
        BY <4>1 DEF TriggerMoves
    <3>3. CASE Yields
      <4>1. PICK n \in 0..MaxEvents : arrived = 1..n
        BY DEF HookOK
      <4>2. seq < n /\ seq \in Nat
        BY <3>3, <4>1, ArrivedIs DEF Yields, TriggerInv, TriggerTypeOK
      <4>3. seq < MaxEvents
        BY <4>2, MaxEventsAssumption
      <4>4. GeneratorMoves
        BY <3>3, <4>3 DEF Yields, HookGenerator, GeneratorMoves, Working
      <4> QED
        BY <4>4 DEF TriggerMoves
    <3> QED
      BY <2>1, <3>1, <3>2, <3>3 DEF HookRuns
  <2>2. CASE OtherStarts \/ Receives \/ BodyInvalid \/ Enqueues
    BY <2>2 DEF OtherStarts, Receives, BodyInvalid, Enqueues, TriggerMoves
  <2>3. ASSUME NEW e \in EventIds, HookDispatchStep(e)
        PROVE  TriggerMoves
    BY <2>3 DEF HookDispatchStep, PhaseBegins, PhaseEnds, DispatchStep, TriggerMoves
  <2> QED
    BY <1>3, <2>1, <2>2, <2>3 DEF HookStep, HookLoop, TriggerMoves
<1>4. CASE OwnerStops \/ Shutdown
  BY <1>4 DEF OwnerStops, Shutdown, StoppedAll, HookStops, StopsWith, OtherStops, TriggerMoves
<1>5. CASE ServeEnds \/ UNCHANGED allVars
  BY <1>5 DEF ServeEnds, allVars, TriggerMoves
<1> QED
  BY <1>1, <1>2, <1>3, <1>4, <1>5 DEF AllNext

\* Of the loop, the dispatches and the generator, HookOK looks at these.
LEMMA HookKept ==
  ASSUME HookOK, TriggerTypeOK, UNCHANGED <<hookVars, source>>,
         seq' = seq \/ source # "hook",
         dispatched \subseteq dispatched',
         \A e \in EventIds : source = "hook" /\ dispatches'[e] = "completed" =>
           dispatches[e] = "completed" \/ phases[e] = "over"
  PROVE  HookOK'
<1>1. /\ reading' = reading /\ requests' = requests /\ phases' = phases /\ http' = http
      /\ own' = own /\ other' = other /\ source' = source /\ arrived' = arrived
  BY DEF hookVars, arrived
<1>2. source' = "hook" => \A r \in 1..seq' : r \in arrived'
  BY <1>1 DEF HookOK
<1>3. \A e \in EventIds :
        /\ phases'[e] # "ahead" => e \in dispatched'
        /\ source' = "hook" /\ dispatches'[e] = "completed" => phases'[e] = "over"
  BY <1>1 DEF HookOK
<1> QED
  BY <1>1, <1>2, <1>3 DEF HookOK

\* Which dispatches a step of the loop or of a dispatch brings about.
LEMMA DispatchesMove ==
  ASSUME TriggerInv, Loop \/ GeneratorMoves \/ Stop \/ UNCHANGED vars
  PROVE  /\ dispatched \subseteq dispatched'
         /\ \A e \in EventIds : dispatches'[e] = "completed" => dispatches[e] = "completed"
<1>1. CASE Dispatches
  <2>1. /\ seq \in EventIds
        /\ dispatches' = [dispatches EXCEPT ![seq] = IF options.persisted THEN "creating" ELSE "running"]
    BY <1>1 DEF Dispatches, Proceeds, Handover, TriggerInv
  <2>2. \A e \in EventIds :
          dispatches'[e] \in {dispatches[e], "creating", "running"} /\ dispatches'[seq] # "none"
    BY <2>1 DEF TriggerInv, TriggerTypeOK
  <2>3. \A e \in EventIds : dispatches'[e] = dispatches[e] \/ e = seq
    BY <2>1 DEF TriggerInv, TriggerTypeOK
  <2> QED
    BY <2>2, <2>3 DEF dispatched
<1>2. CASE UNCHANGED dispatchVars
  BY <1>2, DispatchesKept DEF dispatchVars
<1> QED
  BY <1>1, <1>2
  DEF Loop, Arrives, BlocksAtCapacity, BreaksOut, CallbackThrows, GeneratorEnds, Exits, Leave,
      GeneratorMoves, Stop, vars

LEMMA AllInvPreserved ==
  ASSUME AllInv, [AllNext]_allVars
  PROVE  AllInv'
<1> USE DEF AllInv
<1>1. TriggerMoves /\ TriggerInv' /\ TriggerTypeOK
  BY AllMoves, NextTriggerInv DEF TriggerInv
<1>2. PICK n \in 0..MaxEvents : arrived = 1..n
  BY DEF HookOK
<1>3. Cardinality(arrived) = n /\ n \in Nat
  BY <1>2, ArrivedIs, MaxEventsAssumption
\* Steps that do not concern the hook.
<1>4. ASSUME UNCHANGED <<hookVars, source>>, serve' \in {serve, "stopping", "returned", "threw"},
             seq' = seq \/ source # "hook",
             Loop \/ GeneratorMoves \/ Stop \/ UNCHANGED vars,
             source = "cron" /\ genPc' = "elapsed" => seq' < MaxEvents
      PROVE  AllInv'
  <2>1. HookOK'
    BY <1>1, <1>4, DispatchesMove, HookKept
  <2> QED
    BY <1>1, <1>4, <2>1 DEF SourceOK
<1>5. ASSUME NEW e \in EventIds, DispatchStep(e) \/ Cancel(e), UNCHANGED <<hookVars, serveVars>>,
             source = "hook" /\ Completes(e) => phases[e] = "over"
      PROVE  AllInv'
  <2>1. dispatched' = dispatched /\ UNCHANGED <<timerVars, loopVars>>
    BY <1>1, <1>5, DispatchStepKeeps DEF DispatchKeeps
  <2>2. \A d \in EventIds : source = "hook" /\ dispatches'[d] = "completed" =>
          dispatches[d] = "completed" \/ phases[d] = "over"
    BY <1>1, <1>5
    DEF DispatchStep, Created, PassesLastCheck, Completes, Fails, Becomes, Cancel, TriggerTypeOK
  <2>3. HookOK'
    BY <1>1, <1>5, <2>1, <2>2, HookKept DEF timerVars, serveVars
  <2> QED
    BY <1>1, <1>5, <2>1, <2>3 DEF SourceOK, timerVars, serveVars
<1>6. ASSUME Loop PROVE seq' = seq /\ (genPc' # "elapsed" \/ genPc' = genPc)
  BY <1>6
  DEF Loop, Arrives, BlocksAtCapacity, BreaksOut, Dispatches, CallbackThrows, GeneratorEnds, Exits,
      Leave, timerVars, Pulled
<1>7. CASE TimerStep
  <2>1. CASE Loop \/ Source(Generator) \/ Source(Payload)
    BY <1>4, <1>7, <2>1, TimerMoves DEF TimerStep, serveVars
  <2>2. ASSUME NEW e \in EventIds, DispatchStep(e) \/ Cancel(e)
        PROVE  AllInv'
    BY <1>5, <1>7, <2>2 DEF TimerStep
  <2> QED
    BY <1>7, <2>1, <2>2 DEF TimerStep
<1>8. CASE CronStep
  <2>1. CASE Loop
    BY <1>4, <1>6, <1>8, <2>1 DEF CronStep, serveVars, SourceOK
  <2>2. CASE Source(Cron) \/ Source(ParserFails)
    <3>1. GeneratorMoves
      BY <1>8, <2>2
      DEF CronStep, Source, Cron, ParserLoads, ParserFails, CronElapses, IntervalElapses,
          WaitStopped, CronYields, Pulled, GeneratorMoves, Working, SourceOK
    <3>2. genPc' = "elapsed" => seq' < MaxEvents
      BY <2>2 DEF Source, Cron, ParserLoads, ParserFails, CronElapses, IntervalElapses,
                  WaitStopped, CronYields, Pulled
    <3> QED
      BY <1>4, <1>8, <3>1, <3>2 DEF CronStep, serveVars
  <2>3. ASSUME NEW e \in EventIds, DispatchStep(e) \/ Cancel(e)
        PROVE  AllInv'
    BY <1>5, <1>8, <2>3 DEF CronStep
  <2> QED
    BY <1>8, <2>1, <2>2, <2>3 DEF CronStep
\* The server, its routes, the second hook and the body that is read.
<1>9. ASSUME UNCHANGED <<vars, requests, phases, source>>,
             serve' \in {serve, "stopping", "returned", "threw"},
             reading' \in BOOLEAN,
             http' \in HttpStates, own' = own, other' \in {"constructed", "started", "stopped"}
      PROVE  AllInv'
  <2>1. /\ arrived' = arrived /\ dispatched' = dispatched /\ dispatches' = dispatches /\ seq' = seq
        /\ genPc' = genPc
    BY <1>9 DEF vars, timerVars, dispatchVars, arrived, dispatched
  <2>2. HookOK'
    BY <1>9, <2>1 DEF HookOK
  <2> QED
    BY <1>1, <1>9, <2>1, <2>2 DEF SourceOK
<1>10. /\ reading \in BOOLEAN
       /\ http \in HttpStates /\ own \in [Hooks -> Servers]
       /\ other \in {"constructed", "started", "stopped"}
       /\ requests \in [EventIds -> {"none", "pending", "resolved", "rejected"}]
       /\ phases \in [EventIds -> {"ahead", "begun", "over", "threw"}]
  BY DEF HookOK
<1>11. CASE source = "hook" /\ HookStep /\ UNCHANGED serveVars
  <2>1. CASE HookLoop
    BY <1>4, <1>6, <1>11, <2>1 DEF HookLoop, serveVars
  <2>2. CASE Listens \/ OtherStarts \/ Receives \/ BodyInvalid
    <3>1. CASE Listens
      <4>1. http' \in HttpStates
        BY <1>10, <3>1 DEF Listens, HttpStates
      <4> QED
        BY <1>9, <1>10, <1>11, <3>1, <4>1 DEF Listens, serveVars
    <3>2. CASE OtherStarts
      <4>1. http' \in HttpStates
        BY <1>10, <3>2, HttpMoves DEF OtherStarts, Hooks
      <4> QED
        BY <1>9, <1>10, <1>11, <3>2, <4>1 DEF OtherStarts, serveVars
    <3> QED
      BY <1>9, <1>10, <1>11, <2>2, <3>1, <3>2 DEF Receives, BodyInvalid, serveVars
  <2>3. CASE ServerReady \/ ServerFailed \/ WaiterStopped
    <3>1. GeneratorMoves /\ seq' = seq /\ UNCHANGED hookVars
      BY <2>3 DEF ServerReady, ServerFailed, WaiterStopped, HookGenerator, Pulled,
                  GeneratorMoves, Working
    <3> QED
      BY <1>4, <1>11, <3>1 DEF serveVars
  <2>4. CASE Yields
    <3>1. /\ seq' = seq + 1 /\ seq + 1 \in 1..n /\ seq \in Nat
          /\ UNCHANGED <<hookVars, dispatchVars>>
      BY <1>1, <1>3, <2>4 DEF Yields, HookGenerator, TriggerTypeOK
    <3>2. /\ arrived' = arrived /\ dispatched' = dispatched /\ dispatches' = dispatches
          /\ requests' = requests /\ phases' = phases /\ source' = source
      BY <1>11, <3>1 DEF hookVars, dispatchVars, serveVars, arrived, dispatched
    <3>3. \A r \in 1..seq' : r \in arrived
      BY <1>2, <1>3, <3>1
    <3>4. HookOK'
      BY <3>1, <3>2, <3>3 DEF HookOK, hookVars
    <3> QED
      BY <1>1, <1>11, <3>4 DEF SourceOK, serveVars
  <2>5. CASE Enqueues
    <3>1. /\ n < MaxRequests /\ requests' = [requests EXCEPT ![n + 1] = "pending"]
          /\ reading' = FALSE /\ UNCHANGED <<vars, phases, http, own, other>>
      BY <1>3, <2>5 DEF Enqueues
    <3>2. n + 1 \in 0..MaxEvents /\ n + 1 \in EventIds /\ n + 1 \notin arrived
      BY <1>2, <1>3, <3>1, MaxRequestsAssumption, MaxEventsAssumption DEF EventIds
    <3>3. \A r \in EventIds : requests'[r] = IF r = n + 1 THEN "pending" ELSE requests[r]
      BY <1>10, <3>1
    <3>4. arrived' = 1..(n + 1)
      <4>1. arrived' = arrived \cup {n + 1}
        BY <3>2, <3>3 DEF arrived
      <4> QED
        BY <1>2, <1>3, <4>1
    <3>5. requests[n + 1] = "none"
      BY <3>2 DEF arrived
    <3>6. /\ dispatched' = dispatched /\ dispatches' = dispatches /\ seq' = seq /\ genPc' = genPc
          /\ source' = source /\ serve' = serve
      BY <1>11, <3>1 DEF vars, timerVars, dispatchVars, dispatched, serveVars
    <3>7. source' = "hook" => \A r \in 1..seq' : r \in arrived'
      BY <1>2, <1>3, <3>4, <3>6 DEF HookOK
    <3>8. requests' \in [EventIds -> {"none", "pending", "resolved", "rejected"}]
      BY <1>10, <3>1
    <3>9. \A e \in EventIds :
            /\ phases[e] \in {"over", "threw"} => requests'[e] \in {"resolved", "rejected"}
            /\ requests'[e] = "resolved" => phases[e] = "over"
      BY <3>3, <3>5 DEF HookOK
    <3>10. HookOK'
      BY <3>1, <3>2, <3>4, <3>6, <3>7, <3>8, <3>9 DEF HookOK
    <3> QED
      BY <1>1, <3>6, <3>10 DEF SourceOK
  <2>6. ASSUME NEW e \in EventIds, PhaseBegins(e)
        PROVE  AllInv'
    <3>1. /\ e \in dispatched /\ phases[e] = "ahead" /\ phases' = [phases EXCEPT ![e] = "begun"]
          /\ UNCHANGED <<vars, reading, requests, http, own, other, source, serve>>
      BY <1>11, <2>6 DEF PhaseBegins, dispatched, serveVars
    <3>2. /\ arrived' = arrived /\ dispatched' = dispatched /\ dispatches' = dispatches
          /\ seq' = seq /\ genPc' = genPc
      BY <3>1 DEF vars, timerVars, dispatchVars, arrived, dispatched
    <3>3. dispatches[e] # "completed"
      BY <2>6 DEF PhaseBegins
    <3>4. \A d \in EventIds : phases'[d] = IF d = e THEN "begun" ELSE phases[d]
      BY <1>10, <3>1
    <3>5. phases' \in [EventIds -> {"ahead", "begun", "over", "threw"}]
      BY <1>10, <3>1
    <3>6. requests[e] # "resolved"
      BY <3>1 DEF HookOK
    <3>7. HookOK'
      BY <3>1, <3>2, <3>3, <3>4, <3>5, <3>6 DEF HookOK
    <3> QED
      BY <1>1, <3>1, <3>2, <3>7 DEF SourceOK
  <2>7. ASSUME NEW e \in EventIds, PhaseEnds(e)
        PROVE  AllInv'
    <3>1. PICK end \in {[phase |-> "threw", answer |-> "rejected"],
                         [phase |-> "over", answer |-> "resolved"]} :
            phases' = [phases EXCEPT ![e] = end.phase] /\ Respond(e, end.answer)
      BY <2>7 DEF PhaseEnds
    <3>2. /\ phases[e] = "begun"
          /\ UNCHANGED <<vars, reading, http, own, other, source, serve>>
      BY <1>11, <2>7 DEF PhaseEnds, serveVars
    <3>3. \/ end.phase = "threw" /\ end.answer = "rejected"
          \/ end.phase = "over" /\ end.answer = "resolved"
      BY <3>1
    <3>4. requests' = [requests EXCEPT ![e] =
             IF requests[e] = "pending" THEN end.answer ELSE requests[e]]
      BY <1>10, <3>1 DEF Respond
    <3>5. requests[e] \in {"pending", "rejected"}
      <4>1. e \in 1..seq
        BY <1>1, <3>2 DEF HookOK, TriggerTypeOK
      <4>2. requests[e] # "none"
        BY <1>11, <4>1 DEF HookOK, arrived
      <4> QED
        BY <1>10, <3>2, <4>2 DEF HookOK
    <3>6. /\ requests'[e] \in {"resolved", "rejected"}
          /\ requests'[e] = "resolved" => phases'[e] = "over"
          /\ phases'[e] \in {"over", "threw"}
          /\ \A d \in EventIds \ {e} : phases'[d] = phases[d] /\ requests'[d] = requests[d]
      BY <1>10, <3>1, <3>3, <3>4, <3>5
    <3>7. /\ requests' \in [EventIds -> {"none", "pending", "resolved", "rejected"}]
          /\ phases' \in [EventIds -> {"ahead", "begun", "over", "threw"}]
      BY <1>10, <3>1, <3>3, <3>4
    <3>8. /\ arrived' = arrived /\ dispatched' = dispatched /\ dispatches' = dispatches
          /\ seq' = seq /\ genPc' = genPc
      BY <3>2, <3>5, <3>6 DEF vars, timerVars, dispatchVars, arrived, dispatched
    <3>9. dispatches[e] # "completed" /\ e \in dispatched
      BY <1>11, <3>2 DEF HookOK
    <3>10. HookOK'
      BY <3>2, <3>6, <3>7, <3>8, <3>9 DEF HookOK
    <3> QED
      BY <1>1, <3>2, <3>8, <3>10 DEF SourceOK
  <2>8. ASSUME NEW e \in EventIds, HookDispatchStep(e)
        PROVE  AllInv'
    <3>1. CASE (Created(e) \/ PassesLastCheck(e) \/ (phases[e] = "over" /\ Completes(e))
                \/ Fails(e)) /\ UNCHANGED hookVars
      <4>1. Completes(e) => phases[e] = "over"
        BY <1>1, <3>1 DEF Created, PassesLastCheck, Completes, Fails, Becomes, TriggerTypeOK
      <4> QED
        BY <1>5, <1>11, <3>1, <4>1 DEF DispatchStep
    <3> QED
      BY <2>6, <2>7, <2>8, <3>1 DEF HookDispatchStep
  <2>9. ASSUME NEW e \in EventIds, Cancel(e) /\ UNCHANGED hookVars
        PROVE  AllInv'
    BY <1>5, <1>11, <2>9 DEF Cancel, Completes, Becomes
  <2> QED
    BY <1>11, <2>1, <2>2, <2>3, <2>4, <2>5, <2>8, <2>9 DEF HookStep, HookRuns
<1>12. ASSUME NEW left \in HttpStates, StopsWith(left), source' = source,
              other' \in {other, "stopped"}, serve' \in {serve, "stopping"}
       PROVE  AllInv'
  <2>1. /\ Stop /\ requests' = RejectedByStop /\ UNCHANGED <<reading, phases, own>>
        /\ http' \in HttpStates
    BY <1>12 DEF StopsWith
  <2>2. \A r \in EventIds : requests'[r] = IF requests[r] = "pending" THEN "rejected" ELSE requests[r]
    BY <2>1 DEF RejectedByStop
  <2>3. requests' \in [EventIds -> {"none", "pending", "resolved", "rejected"}]
    BY <1>10, <2>1 DEF RejectedByStop
  <2>4. /\ arrived' = arrived /\ dispatched' = dispatched /\ dispatches' = dispatches
        /\ seq' = seq /\ genPc' = genPc
    BY <2>1, <2>2 DEF Stop, dispatchVars, arrived, dispatched
  <2>5. HookOK'
    BY <1>10, <1>12, <2>1, <2>2, <2>3, <2>4 DEF HookOK
  <2> QED
    BY <1>1, <1>12, <2>4, <2>5 DEF SourceOK
<1>13. CASE OwnerStops
  <2>1. CASE source = "hook" /\ HookStops /\ UNCHANGED serveVars
    <3>1. Unregistered(http, "hook") \in HttpStates
      BY <1>10, HttpMoves DEF Hooks
    <3> QED
      BY <1>12, <2>1, <3>1 DEF HookStops, serveVars
  <2>2. CASE source = "hook" /\ OtherStops /\ UNCHANGED serveVars
    <3>1. Unregistered(http, "other") \in HttpStates
      BY <1>10, HttpMoves DEF Hooks
    <3> QED
      BY <1>9, <1>10, <2>2, <3>1 DEF OtherStops, serveVars
  <2>3. CASE source # "hook" /\ Stop /\ UNCHANGED hookVars /\ UNCHANGED serveVars
    BY <1>4, <2>3 DEF Stop, serveVars, SourceOK
  <2> QED
    BY <1>13, <2>1, <2>2, <2>3 DEF OwnerStops
<1>14. CASE Shutdown
  <2>1. CASE source = "hook"
    <3>1. Unregistered(http, "hook") \in HttpStates
      BY <1>10, HttpMoves DEF Hooks
    <3>2. Unregistered(Unregistered(http, "hook"), "other") \in HttpStates
      BY <1>10, <3>1, HttpMoves DEF Hooks
    <3> QED
      BY <1>12, <1>14, <2>1, <3>2 DEF Shutdown, StoppedAll
  <2>2. CASE source # "hook"
    BY <1>4, <1>14, <2>2 DEF Shutdown, StoppedAll, Stop, SourceOK
  <2> QED
    BY <2>1, <2>2
<1>15. CASE ServeEnds \/ UNCHANGED allVars
  <2>1. UNCHANGED <<vars, hookVars, source>> /\ serve' \in {serve, "stopping", "returned", "threw"}
    BY <1>15 DEF ServeEnds, allVars, serveVars
  <2> QED
    BY <1>9, <1>10, <2>1 DEF hookVars
<1> QED
  BY <1>7, <1>8, <1>11, <1>13, <1>14, <1>15 DEF AllNext

LEMMA AllInvHolds == AllSpec => []AllInv
BY InitAllInv, AllInvPreserved, PTL DEF AllSpec

\* Every variable of a loop, of any trigger and of `serve` keeps its type, and
\* requests become events in the order they came.
THEOREM TriggerTypeCorrect == AllSpec => []TypeOK
<1>1. AllInv => TypeOK
  <2> SUFFICES ASSUME AllInv PROVE TypeOK
    OBVIOUS
  <2>1. arrived = 1..Cardinality(arrived)
    BY ArrivedIs DEF AllInv, HookOK
  <2> QED
    BY <2>1 DEF AllInv, TriggerInv, SourceOK, HookOK, HttpStates, TypeOK
<1> QED
  BY <1>1, AllInvHolds, PTL

\* At most maxConcurrency pipelines are ever in flight, whatever the cap asked
\* for (zero included), whatever the trigger, and whatever cancels, fails or
\* stops.
THEOREM CapRespectedHolds == AllSpec => []CapRespected
<1>1. AllInv => CapRespected
  BY DEF AllInv, TriggerInv
<1> QED
  BY <1>1, AllInvHolds, PTL

\* Of the events that arrived only the last can miss its dispatch.
THEOREM OnlyLastMissedHolds == AllSpec => []OnlyLastMissed
<1>1. AllInv => OnlyLastMissed
  BY DEF AllInv, TriggerInv
<1> QED
  BY <1>1, AllInvHolds, PTL

\* done settles behind every pipeline, also when the loop was left by a throw.
THEOREM DoneAfterPipelinesHolds == AllSpec => []DoneAfterPipelines
<1>1. AllInv => DoneAfterPipelines
  BY DEF AllInv, TriggerInv
<1> QED
  BY <1>1, AllInvHolds, PTL

\* A pipeline of a hook that completes has answered its request, also if
\* stop() has rejected it first, and what is resolved was so by its phase.
THEOREM AnsweredByPhaseHolds == AllSpec => []AnsweredByPhase
<1>1. AllInv => AnsweredByPhase
  BY DEF AllInv, HookOK, AnsweredByPhase
<1> QED
  BY <1>1, AllInvHolds, PTL

\* Events are dispatched in order and once: an event whose pipeline runs or has
\* settled is not dispatched again, however long the loop waited for a slot.
THEOREM DispatchedOnceHolds == AllSpec => DispatchedOnce
<1> DEFINE Once(e) == /\ e \in dispatched' \ dispatched => \A d \in dispatched : d < e
                      /\ e \in dispatched \ inflight => dispatches'[e] = dispatches[e]
                      /\ dispatches[e] \in {"running", "checked"} => dispatches'[e] # "creating"
<1>1. ASSUME AllInv, [AllNext]_allVars
      PROVE  [\A e \in EventIds : Once(e)]_vars
  <2>1. TriggerMoves /\ TriggerTypeOK /\ Handover
    BY <1>1, AllMoves DEF AllInv, TriggerInv
  <2>2. ASSUME NEW d \in EventIds, DispatchStep(d) \/ Cancel(d), NEW e \in EventIds
        PROVE  Once(e)
    <3>1. dispatched' = dispatched
      BY <2>1, <2>2, DispatchStepKeeps DEF DispatchKeeps
    <3>2. \/ dispatches'[e] = dispatches[e]
          \/ e \in inflight /\ dispatches'[e] # "creating"
      BY <2>1, <2>2
      DEF DispatchStep, Created, PassesLastCheck, Completes, Fails, Becomes, Cancel, TriggerTypeOK,
          inflight
    <3> QED
      BY <3>1, <3>2
  <2>3. ASSUME Dispatches, NEW e \in EventIds
        PROVE  Once(e)
    <3>1. /\ seq \in EventIds /\ seq \notin dispatched /\ dispatched \subseteq 1..seq
          /\ \A d \in EventIds : d # seq => dispatches'[d] = dispatches[d]
      BY <2>1, <2>3 DEF Dispatches, Proceeds, Handover, TriggerTypeOK
    <3>2. \A d \in dispatched : d < seq
      BY <3>1, MaxEventsAssumption DEF EventIds
    <3>3. dispatches[seq] = "none"
      BY <3>1 DEF dispatched
    <3>4. CASE e = seq
      BY <3>1, <3>2, <3>3, <3>4
    <3>5. CASE e # seq
      BY <3>1, <3>5 DEF dispatched
    <3> QED
      BY <3>4, <3>5
  <2>4. CASE UNCHANGED dispatchVars
    BY <2>4, DispatchesKept DEF dispatchVars
  <2> QED
    BY <2>1, <2>2, <2>3, <2>4
    DEF TriggerMoves, Loop, Arrives, BlocksAtCapacity, BreaksOut, CallbackThrows, GeneratorEnds,
        Exits, Leave, GeneratorMoves, Stop, vars
<1> QED
  BY <1>1, AllInvHolds, PTL DEF AllSpec, DispatchedOnce

\* A job that is cancelled while its row is being created never completes.
THEOREM EarlyCancelHonouredHolds == AllSpec => []EarlyCancelHonoured
<1>1. AllInv => EarlyCancelHonoured
  BY DEF AllInv, TriggerInv, EarlyCancels, EarlyCancelHonoured
<1> QED
  BY <1>1, AllInvHolds, PTL
=============================================================================
