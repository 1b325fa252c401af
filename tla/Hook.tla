-------------------------------- MODULE Hook ---------------------------------
(***************************************************************************)
(* hook() and its HttpTrigger (helpers/hook.ts) under runTrigger: requests *)
(* of a shared HTTP server become the events of a generator, and the phase *)
(* of the pipeline that is dispatched for one answers it.                  *)
(*                                                                         *)
(* seq is the event yielded last; the queue are the requests behind it.    *)
(* A second hook starts, stops, and has no requests.  A hook keeps the     *)
(* server that was shared when it was constructed; once an earlier hook    *)
(* has closed that, the next one to be constructed makes a newer server.   *)
(***************************************************************************)
EXTENDS RunTrigger

CONSTANTS
  MaxRequests,  \* bound: requests dispatched to the trigger
  Servers       \* bound: "older", and "newer" if a server is made again

ASSUME MaxRequestsAssumption == MaxRequests \in Nat /\ MaxRequests <= MaxEvents
ASSUME ServersAssumption == Servers \in {{"older"}, {"older", "newer"}}

VARIABLES
  reading,   \* a request whose body is being read
  requests,  \* per event id: what became of its response
  phases,    \* per event id: where its phase is
  http,      \* the servers, the routes registered, and which is shared
  own,       \* per hook: this.shared
  other      \* the second hook

hookVars == <<reading, requests, phases, http, own, other>>

Hooks == {"hook", "other"}
arrived == {r \in EventIds : requests[r] # "none"}

-----------------------------------------------------------------------------
(* The servers.                                                            *)

\* started
Started(x, s) == x.servers[s] \in {"listening", "closed"}

Routes(x, s) == {h \in x.routes : own[h] = s}

\* ensureServerStarted(): only the first registration calls listen().
Registered(x, h) ==
  [x EXCEPT !.routes = @ \cup {h},
            !.servers[own[h]] = IF @ = "idle" THEN "starting" ELSE @]

\* closeSharedServer().  There is nothing to close yet of a server that is
\* starting: it goes on to listen.
SharedClosed(x) ==
  IF x.shared = "none" THEN x
  ELSE [x EXCEPT !.shared = "none",
                 !.servers[x.shared] = IF @ = "listening" THEN "closed" ELSE @]

\* The part of stop() that is about the servers: the routes of the hook's own
\* server are counted, and the server that is shared by now is closed.
Unregistered(x, h) ==
  LET left == [x EXCEPT !.routes = @ \ {h}] IN
  IF Routes(left, own[h]) = {} /\ Started(left, own[h]) THEN SharedClosed(left) ELSE left

Listens ==
  /\ \E s \in Servers : \E outcome \in {"listening", "failed"} :
       /\ http.servers[s] = "starting"
       /\ http' = [http EXCEPT !.servers[s] = outcome]
  /\ UNCHANGED <<vars, reading, requests, phases, own, other>>

OtherStarts ==
  /\ other = "constructed" /\ http' = Registered(http, "other")
  /\ other' = "started"
  /\ UNCHANGED <<vars, reading, requests, phases, own>>

OtherStops ==
  /\ other = "started" /\ http' = Unregistered(http, "other")
  /\ other' = "stopped"
  /\ UNCHANGED <<vars, reading, requests, phases, own>>

-----------------------------------------------------------------------------
(* The generator.                                                          *)

HookGenerator(from, to) ==
  /\ genPc = from /\ genPc' = to
  /\ UNCHANGED <<stopped, loopVars, dispatchVars, hookVars>>

\* The promise of ensureServerStarted() settles.
ServerReady ==
  /\ Started(http, own["hook"])
  /\ HookGenerator("starting", Pulled) /\ UNCHANGED seq

ServerFailed ==
  /\ http.servers[own["hook"]] = "failed"
  /\ HookGenerator("starting", "threw") /\ UNCHANGED seq

\* The head of the queue is yielded.
Yields ==
  /\ ~stopped /\ seq < Cardinality(arrived)
  /\ HookGenerator("waiting", "made") /\ seq' = seq + 1

\* The waiter is called by stop().
WaiterStopped == stopped /\ HookGenerator("waiting", "returned") /\ UNCHANGED seq

-----------------------------------------------------------------------------
(* Requests.                                                               *)

\* handleRequest() finds the route, and reads the body.
Receives ==
  /\ ~reading /\ http.servers[own["hook"]] = "listening" /\ "hook" \in http.routes
  /\ reading' = TRUE
  /\ UNCHANGED <<vars, requests, phases, http, own, other>>

\* A body that is no JSON is answered at once.
BodyInvalid ==
  /\ reading /\ reading' = FALSE
  /\ UNCHANGED <<vars, requests, phases, http, own, other>>

\* dispatch(), which does not ask whether the trigger was stopped.
Enqueues ==
  /\ reading /\ reading' = FALSE
  /\ Cardinality(arrived) < MaxRequests
  /\ requests' = [requests EXCEPT ![Cardinality(arrived) + 1] = "pending"]
  /\ UNCHANGED <<vars, phases, http, own, other>>

\* Mutant: stop() forgets the responses.
StrandedByStop == requests

\* stop() rejects every response that is pending.
RejectedByStop == [r \in EventIds |-> IF requests[r] = "pending" THEN "rejected" ELSE requests[r]]

-----------------------------------------------------------------------------
(* The phase hook() makes.                                                 *)

\* resolveResponse() and rejectResponse(): the first answer counts.
Respond(e, answer) ==
  requests' = [requests EXCEPT ![e] = IF @ = "pending" THEN answer ELSE @]

PhaseBegins(e) ==
  /\ dispatches[e] \in {"running", "checked"} /\ phases[e] = "ahead"
  /\ phases' = [phases EXCEPT ![e] = "begun"]
  /\ UNCHANGED <<vars, reading, requests, http, own, other>>

\* validate() or the handler throws, or the handler returns a result.
PhaseEnds(e) ==
  /\ phases[e] = "begun"
  /\ \E end \in {[phase |-> "threw", answer |-> "rejected"],
                 [phase |-> "over", answer |-> "resolved"]} :
       phases' = [phases EXCEPT ![e] = end.phase] /\ Respond(e, end.answer)
  /\ UNCHANGED <<vars, reading, http, own, other>>

\* A pipeline completes behind its phase, and does not fail during it.
HookDispatchStep(e) ==
  \/ PhaseBegins(e) \/ PhaseEnds(e)
  \/ /\ \/ Created(e) \/ PassesLastCheck(e)
        \/ phases[e] = "over" /\ Completes(e)
        \/ phases[e] # "begun" /\ Fails(e)
     /\ UNCHANGED hookVars

-----------------------------------------------------------------------------
NoRequests ==
  /\ reading = FALSE /\ requests = [r \in EventIds |-> "none"]
  /\ phases = [r \in EventIds |-> "ahead"]

HookUnused ==
  /\ NoRequests /\ other = "constructed"
  /\ own = [h \in Hooks |-> "older"]
  /\ http = [servers |-> [s \in Servers |-> "idle"], routes |-> {}, shared |-> "older"]

\* The servers when runTrigger is called for the hook, current being the last
\* one made: the hooks share it, or one of them has the older that was closed.
\* The other was constructed before, or is running.
ServersSoFar(current) ==
  [servers: {x \in [Servers -> {"idle", "starting", "listening", "closed"}] :
               /\ x[current] \in IF other = "started" /\ own["other"] = current
                                 THEN {"starting", "listening"} ELSE {"idle"}
               /\ \A s \in Servers \ {current} :
                    x[s] = IF current = "newer" THEN "closed" ELSE "idle"},
   routes: {IF other = "started" THEN {"other"} ELSE {}},
   shared: {current}]

\* A signal that is aborted by then has stopped the hook already.  The first
\* next() registers its route all the same.
HookInit ==
  /\ NoRequests
  /\ other \in {"constructed", "started"}
  /\ \E current \in Servers :
       /\ own \in [Hooks -> {"older", current}] /\ \E h \in Hooks : own[h] = current
       /\ \E x \in ServersSoFar(current) :
            http = Registered(IF stopped THEN Unregistered(x, "hook") ELSE x, "hook")

\* stop() of runTrigger calls that of the trigger.
StopsWith(left) ==
  /\ Stop /\ http' = left
  /\ requests' = RejectedByStop
  /\ UNCHANGED <<reading, phases, own>>

HookStops == StopsWith(Unregistered(http, "hook")) /\ UNCHANGED other

HookLoop == Loop /\ UNCHANGED hookVars

\* What the server and the generator do by themselves.
HookRuns == Listens \/ ServerReady \/ ServerFailed \/ Yields \/ WaiterStopped

HookStep ==
  \/ HookLoop \/ HookRuns
  \/ OtherStarts
  \/ Receives \/ BodyInvalid \/ Enqueues
  \/ \E e \in EventIds : HookDispatchStep(e) \/ (Cancel(e) /\ UNCHANGED hookVars)

-----------------------------------------------------------------------------
(* Properties.                                                             *)

\* A request that reaches a running hook is answered: by its phase, or by
\* stop().  Not so if the loop died, or if the dispatch of the request ended
\* before its phase began: nobody rejects its response then.
RequestAnswered == \A r \in EventIds :
  (requests[r] = "pending" /\ ~stopped) ~>
    \/ requests[r] \in {"resolved", "rejected"}
    \/ failed
    \/ dispatches[r] = "failed" /\ phases[r] = "ahead"

\* The server is closed with the last of its routes, and no hook that stops
\* closes one that others are registered at.
ServerOutlivesRoutes ==
  [][\A s \in Servers :
       http.servers[s] = "listening" /\ Routes(http, s) \cap Routes(http', s) # {}
         => http'.servers[s] = "listening"]_<<vars, hookVars>>
=============================================================================
