------------------------------- MODULE Server -------------------------------
(***************************************************************************)
(* The process: requests that pass the rate limit of the administrators'   *)
(* routes, requests for the details of an order, and the end of the        *)
(* process by a signal, a failing listener or a panic.  What the handlers  *)
(* behind the rate limit do is in Categories.tla.                          *)
(***************************************************************************)
EXTENDS RateLimiter, OrderDetails

VARIABLE process  \* up, closing, stopped, or down before it was closed

serverVars == <<process, limiterVars, detailsVars>>

Running == process \in {"up", "closing"}

ServerInit == process = "up" /\ LimiterInit /\ DetailsInit

\* The listener takes no more requests once the process is closing.
Arrive ==
    /\ process = "up"
    /\ \/ /\ \E r \in Calls : Come(r)
          /\ UNCHANGED detailsVars
       \/ /\ \E l \in Lookups : GetOrder(l)
          /\ UNCHANGED limiterVars
    /\ UNCHANGED process

LimitRequest(r) ==
    /\ Running
    /\ Limit(r)
    /\ UNCHANGED <<process, detailsVars>>

\* The goroutine that panics is none of net/http: nothing recovers it.
LookUp(l) ==
    /\ Running
    /\ Look(l)
    /\ process' = IF panicked' THEN "down" ELSE process
    /\ UNCHANGED limiterVars

Elapse ==
    /\ Running
    /\ \/ /\ cleanupStaleClients \/ Tick
          /\ UNCHANGED detailsVars
       \/ /\ \E l \in Lookups : ContextDone(l)
          /\ UNCHANGED limiterVars
    /\ UNCHANGED process

End(from_, to) ==
    /\ process = from_
    /\ process' = to
    /\ UNCHANGED <<limiterVars, detailsVars>>

Signal == End("up", "closing")

\* ListenAndServe returns an error, of the server or of the metrics.
ListenerFails == End("up", "down")

\* Shutdown waits for the requests, and not for their goroutines.
Shutdown ==
    /\ \A r \in Calls : Limited(r)
    /\ \A l \in Lookups : LookedUp(l)
    /\ End("closing", "stopped")

ShutdownTimesOut == End("closing", "down")

ServerNext ==
    \/ Arrive
    \/ \E r \in Calls : LimitRequest(r)
    \/ \E l \in Lookups : LookUp(l)
    \/ Elapse
    \/ Signal \/ ListenerFails \/ Shutdown \/ ShutdownTimesOut

ServerSpec == ServerInit /\ [][ServerNext]_serverVars

\* Goroutines are scheduled, and queries return.
Fairness ==
    /\ \A r \in Calls : WF_serverVars(LimitRequest(r))
    /\ \A l \in Lookups : WF_serverVars(LookUp(l))
    /\ WF_serverVars(Shutdown)

FairServerSpec == ServerSpec /\ Fairness

-----------------------------------------------------------------------------
(* Properties.                                                             *)

\* A goroutine of GetOrder ends the process only where its request has failed
\* before, at the other query or when the client went away; an order that is
\* shown is whole and ends nothing.
PanicsOnlyAfterFailure ==
    /\ panicked => \E l \in Lookups : /\ at[l] = "failed"
                                      /\ received[l] # Queries
    /\ \A l \in Lookups :
           at[l] = "ok" => /\ asked[l] \in Stored
                           /\ \A q \in Queries :
                                  goroutine[l][q] = "ended"

\* Every request is answered, and a process that was signalled ends, unless it
\* ends before.
RequestsEnd ==
    /\ \A r \in Calls : ~Limited(r) ~>
                               Limited(r) \/ ~Running
    /\ \A l \in Lookups : ~LookedUp(l) ~>
                              LookedUp(l) \/ ~Running
    /\ process = "closing" ~> ~Running
=============================================================================
