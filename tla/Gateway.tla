------------------------------- MODULE Gateway -------------------------------
(***************************************************************************)
(* The request path of the gateway: admission, then dispatch, then what is *)
(* given back.  A request is dispatched only while it holds its permit,    *)
(* and the permit returns when the answer, or the stream, is over.         *)
(***************************************************************************)
EXTENDS Admission, Dispatch

gatewayVars == <<admissionVars, dispatchVars>>

ASSUME HandlersAreRequests == Handlers = Requests

\* A caller has an address, and the id of its API key unless it is local.
ASSUME CallersAreKnown ==
  \A sc \in Scenarios : \A call \in sc.shapes :
    call.principal.ip \in Ips \cup {None} /\ call.principal.key \in ApiKeys \cup {None}

\* Every scenario has the limits it is to be played under.
GatewayInit ==
  /\ DispatchInit
  /\ AdmissionInit
  /\ limits = scene.limits

\* The realtime route has no per-address limit; everything else has its address.
ArriveAtRoute(r) ==
  /\ arrivals < scene.calls
  /\ \E call \in scene.shapes :
       Arrive(r, IF call.route = "realtime" THEN None ELSE call.principal.ip,
              call.principal.key)
  /\ UNCHANGED dispatchVars

\* A call of the caller that was admitted.
Dispatched(r) ==
  /\ adm[r].pc = "running"
  /\ \/ \E call \in scene.shapes :
          /\ call.principal.key = adm[r].key
          /\ (call.route = "realtime") = (adm[r].ip = None)
          /\ Begin(r, call)
     \/ Handle(r)
  /\ UNCHANGED admissionVars

\* The answer is recorded; one that was served has cost tokens, unless it was a
\* realtime session, whose tokens are not counted.
Answered(r) ==
  /\ \E n \in limits.tokens \cup {0} :
       /\ n > 0 => handling[r].served # NoChannel /\ handling[r].call.route # "realtime"
       /\ Finish(r, n)
  /\ Leave(r)

GatewayNext ==
  \/ \E r \in Requests :
       \/ ArriveAtRoute(r)
       \/ Pass(r) /\ UNCHANGED dispatchVars
       \/ Dispatched(r)
       \/ Answered(r)
  \/ Administer /\ UNCHANGED admissionVars
  \/ \E size \in limits.sizes : ReloadLimits(size) /\ UNCHANGED dispatchVars
  \/ NextMinute /\ UNCHANGED dispatchVars

GatewaySpec == GatewayInit /\ [][GatewayNext]_gatewayVars

\* The gates keep their promise with the requests that are dispatched.
GatewayTypeOK ==
  /\ AdmissionTypeOK
  /\ DispatchTypeOK
  /\ \A r \in Requests : handling[r].pc # "idle" => adm[r].pc = "running"
=============================================================================
