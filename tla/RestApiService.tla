--------------------------- MODULE RestApiService ---------------------------
(***************************************************************************)
(* pkg/orchestration/api_rest.go: the services of a staged call are         *)
(* RestApiServices.  Orchestration gives the goroutines and the control;    *)
(* this module gives what Check, Run and Rollback do to the REST API, and   *)
(* so decides which of them fail.                                           *)
(***************************************************************************)
EXTENDS Orchestration

CONSTANTS
    Names,        \* names of objects
    Contents,     \* what an object may hold
    Absent,       \* no object
    NoName,       \* the zero value of RequestName
    Method,       \* the Action of a service
    RequestName,  \* its RequestName
    PayloadName,  \* RequestPayload.Name()
    Payload,      \* what its RequestPayload holds
    FaultyCalls   \* the actions whose API calls may fail in transport

ASSUME RestAssumption ==
    /\ Absent \notin Contents /\ NoName \notin Names
    /\ Method \in [Services -> {"GET", "LIST", "POST", "PUT", "DELETE"}]
    /\ RequestName \in [Services -> Names \cup {NoName}]
    /\ PayloadName \in [Services -> Names]
    /\ Payload \in [Services -> Contents]
    /\ FaultyCalls \subseteq {"CHECK", "RUN", "ROLLBACK"}
    /\ Recoverables = {} /\ DryRunServices = {}  \* RestApiAsService sets neither

VARIABLES
    api,     \* what the API holds under each name
    backup,  \* proto.backup: what the Check of a service has kept
    api0     \* (history) the API when the call began

restVars == <<vars, api, backup, api0>>

RestTypeOK ==
    /\ TypeOK
    /\ api \in [Names -> Contents \cup {Absent}]
    /\ api0 \in [Names -> Contents \cup {Absent}]
    /\ backup \in [Services -> Contents \cup {Absent}]

RestInit ==
    /\ Init
    /\ api \in [Names -> Contents \cup {Absent}]
    /\ api0 = api
    /\ backup = [s \in Services |-> Absent]

-----------------------------------------------------------------------------
(* The REST API, from outside.  A call is a set of possible answers: the     *)
(* API afterwards and whether the caller gets an error.  A call that fails   *)
(* in transport may have been served.                                        *)

Answer(after, err) == [api |-> after, err |-> err]

WithFaults(a, answer) ==
    {answer} \cup (IF a \in FaultyCalls
                   THEN {Answer(api, TRUE), Answer(answer.api, TRUE)} ELSE {})

Post(a, n, obj) ==
    WithFaults(a, IF api[n] = Absent THEN Answer([api EXCEPT ![n] = obj], FALSE)
                                     ELSE Answer(api, TRUE))
Put(a, n, obj) ==
    WithFaults(a, IF api[n] # Absent THEN Answer([api EXCEPT ![n] = obj], FALSE)
                                     ELSE Answer(api, TRUE))
Delete(a, n) ==
    WithFaults(a, IF n \in Names /\ api[n] # Absent
                  THEN Answer([api EXCEPT ![n] = Absent], FALSE)
                  ELSE Answer(api, TRUE))
Read(a) == WithFaults(a, Answer(api, FALSE))
Get(a, n) ==
    WithFaults(a, Answer(api, n \notin Names \/ api[n] = Absent))

-----------------------------------------------------------------------------
(* The service.                                                             *)

\* Mutant: the Check keeps no backup.
RestCheckNoBackup(s, failed) ==
    /\ IF Method[s] \in {"GET", "LIST"}
       THEN ~failed
       ELSE \E got \in Get("CHECK", RequestName[s]) :
                failed = IF Method[s] = "POST" THEN ~got.err ELSE got.err
    /\ UNCHANGED <<api, backup>>

\* Check: nothing for reads; a POST fails if the object can be read; PUT and
\* DELETE keep what was read and fail if nothing was.
RestCheck(s, failed) ==
    IF Method[s] \in {"GET", "LIST"}
    THEN ~failed /\ UNCHANGED <<api, backup>>
    ELSE \E got \in Get("CHECK", RequestName[s]) :
            /\ UNCHANGED api
            /\ IF Method[s] = "POST"
               THEN failed = ~got.err /\ UNCHANGED backup
               ELSE /\ failed = got.err
                    /\ backup' = [backup EXCEPT ![s] =
                                    IF got.err THEN Absent ELSE api[RequestName[s]]]

RunAnswers(s) ==
    CASE Method[s] = "GET"    -> Get("RUN", RequestName[s])
      [] Method[s] = "LIST"   -> Read("RUN")
      [] Method[s] = "POST"   -> Post("RUN", PayloadName[s], Payload[s])
      [] Method[s] = "PUT"    -> Put("RUN", PayloadName[s], Payload[s])
      [] Method[s] = "DELETE" -> Delete("RUN", RequestName[s])

\* Mutant: the Rollback of a PUT puts the request's payload again.
RollbackAnswersPayload(s) ==
    CASE Method[s] = "PUT"    -> Put("ROLLBACK", PayloadName[s], Payload[s])
      [] Method[s] = "POST"   -> Delete("ROLLBACK", PayloadName[s])
      [] Method[s] = "DELETE" -> Post("ROLLBACK", RequestName[s], backup[s])
      [] OTHER                -> {Answer(api, FALSE)}

\* The backup's own name is the RequestName it was read under.  A backup that
\* was never read (a nil Nameable) is refused by the API.
RollbackAnswers(s) ==
    CASE Method[s] = "PUT" /\ backup[s] # Absent ->
            Put("ROLLBACK", RequestName[s], backup[s])
      [] Method[s] = "POST" -> Delete("ROLLBACK", PayloadName[s])
      [] Method[s] = "DELETE" /\ backup[s] # Absent ->
            Post("ROLLBACK", RequestName[s], backup[s])
      [] Method[s] \in {"PUT", "DELETE"} /\ backup[s] = Absent -> {Answer(api, TRUE)}
      [] OTHER -> {Answer(api, FALSE)}

\* The goroutine of service s ends: its API calls decide how, and a Run that
\* failed has had its effect if the API was changed.
RestFinish(a, s) ==
    /\ Finish(a, s)
    /\ LET failed == inner'[a][s] = "failed"
       IN  \/ a = "CHECK" /\ RestCheck(s, failed)
           \/ a = "RECOVER" /\ UNCHANGED <<api, backup>>
           \/ /\ a = "RUN"
              /\ \E ans \in RunAnswers(s) :
                    /\ failed = ans.err /\ api' = ans.api
                    /\ failed => (s \in effect' <=> ans.api # api)
              /\ UNCHANGED backup
           \/ /\ a = "ROLLBACK"
              /\ \E ans \in RollbackAnswers(s) : failed = ans.err /\ api' = ans.api
              /\ UNCHANGED backup
    /\ UNCHANGED api0

\* Every other step leaves the API and the backups alone.
ControlStep ==
    \/ \E a \in Actions, s \in Services : Collect(a, s) \/ Timeout(a, s)
    \/ CtxCancel \/ Ended
    \/ StartStage \/ AfterCheck \/ AfterRecover \/ AfterRun \/ Reply
    \/ \E k \in Stages : StartRollback(k) \/ EndRollback(k)

RestNext ==
    \/ \E a \in Actions, s \in Services : RestFinish(a, s)
    \/ ControlStep /\ UNCHANGED <<api, backup, api0>>

RestSpec == RestInit /\ [][RestNext]_restVars

-----------------------------------------------------------------------------
(* Properties.                                                              *)

Target(s) == IF Method[s] \in {"POST", "PUT"} THEN PayloadName[s] ELSE RequestName[s]

\* A service whose Rollback succeeded has left the object as the call found
\* it, however its Run went, unless that Run was abandoned when the context
\* ended (Check's backup, Run and Rollback of RestApiService together).
RollbackRestores ==
    \A s \in Services :
        /\ inner["ROLLBACK"][s] = "ok"
        /\ report["RUN"][s] # "timeout"
        /\ Method[s] \in {"POST", "PUT", "DELETE"}
        => api[Target(s)] = api0[Target(s)]

\* When a failed call has ended, its context still live, the API holds what
\* it held before the call, also where a rollback found nothing to undo.
RestoredAtEnd ==
    (/\ pc = "replied" /\ result # "nil" /\ ~skipRollback /\ ~ctxDone
     /\ \A a \in Actions, s \in Services : inner[a][s] # "running"
     /\ \A k \in Stages : rb[k] \in {"off", "done"})
    => api = api0

\* What a call leaves of the API: service by service, and as a whole.
ApiRestored == RollbackRestores /\ RestoredAtEnd

\* What the services must be like for that: each that writes has an object of
\* its own, the one its Check reads.  Stages of one call that share an object
\* may undo each other's work, as their rollbacks run beside each other.
Writers == {s \in Services : Method[s] \in {"POST", "PUT", "DELETE"}}
OwnObjects ==
    \A s \in Writers :
        /\ RequestName[s] \in Names /\ Target(s) = RequestName[s]
        /\ \A t \in Writers : Target(t) = Target(s) => t = s
=============================================================================
