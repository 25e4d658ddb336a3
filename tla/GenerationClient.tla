--------------------------- MODULE GenerationClient ---------------------------
(***************************************************************************)
(* The web client's two hooks for asynchronous generation runs,            *)
(* useGeneratePostTopicsRun and useGeneratePostDraftRun: start() keeps the *)
(* caller's callbacks and posts the request, the answer names the run, and *)
(* a query polls that run until it has ended.  The runs themselves are the *)
(* API's and the worker's (module AiRun); here they only end.              *)
(***************************************************************************)
EXTENDS Integers, Sequences, FiniteSets

CONSTANTS
  Topics,     \* the topics a run can suggest
  MaxStarts   \* bound on the runs the administrator asks for

ASSUME ClientAssumption == IsFiniteSet(Topics) /\ MaxStarts \in Nat

VARIABLES
  requests,  \* history: the bodies of the requests, in the order of start()
  run,       \* what has become of the run of each request
  hook       \* the state of the two hooks

clientVars == <<requests, run, hook>>

-----------------------------------------------------------------------------
\* A run is named by the call of start() that asked for it.
Starts  == 1..MaxStarts
NoStart == 0
Kinds   == {"topics", "draft"}

\* "empty" has completed with nothing in it.
Ended == {"completed", "empty", "failed"}

\* "sent" is asked for and not there yet, "never" is one that never will be.
Run == [status : {"sent", "never", "active"} \cup Ended, topics : SUBSET Topics]

\* creating: POSTs under way; seen: the status of the run that is polled;
\* onSettled and onError: onSettledRef and onErrorRef.
Hook == [creating : SUBSET Starts, runId : Starts \cup {NoStart},
         seen : {"pending"} \cup Ended,
         onSettled : Starts \cup {NoStart}, onError : Starts \cup {NoStart}]

IdleHook == [creating |-> {}, runId |-> NoStart, seen |-> "pending",
             onSettled |-> NoStart, onError |-> NoStart]

ClientTypeOK ==
  /\ Len(requests) \in 0..MaxStarts
  /\ run \in Seq(Run) /\ Len(run) = Len(requests)
  /\ hook \in [Kinds -> Hook]

ClientInit ==
  /\ requests = <<>>
  /\ run = <<>>
  /\ hook = [k \in Kinds |-> IdleHook]

\* isPending
IsPending(k) ==
  \/ hook[k].creating # {}
  \/ hook[k].runId # NoStart /\ hook[k].seen = "pending"

-----------------------------------------------------------------------------
\* start(), up to its await.
Start(k, request) ==
  LET n == Len(requests) + 1 IN
  /\ n \in Starts
  /\ requests' = Append(requests, request)
  /\ run' = Append(run, [status |-> "sent", topics |-> {}])
  /\ hook' = [hook EXCEPT ![k].creating = @ \cup {n},
                          ![k].onSettled = n, ![k].onError = n]

\* reset(): a POST under way is not taken back.
ResetHook(h) == [IdleHook EXCEPT !.creating = h.creating]

\* The API inserts the run.
Created(n) ==
  /\ run[n].status = "sent"
  /\ run' = [run EXCEPT ![n].status = "active"]
  /\ UNCHANGED <<requests, hook>>

\* setRunId(): another key, for which the query has no data yet.
Answered(k) ==
  \E n \in hook[k].creating :
    /\ run[n].status \notin {"sent", "never"}
    /\ hook' = [hook EXCEPT ![k].creating = @ \ {n},
                            ![k].runId = n, ![k].seen = "pending"]
    /\ UNCHANGED <<requests, run>>

\* The POST is refused, fails or times out, with or without a run to show for
\* it: start() rejects.
Rejected(k) ==
  \E n \in hook[k].creating :
    /\ hook' = [hook EXCEPT ![k].creating = @ \ {n}]
    /\ run' = IF run[n].status = "sent" THEN [run EXCEPT ![n].status = "never"] ELSE run
    /\ UNCHANGED requests

\* The API and the worker end the run; a run of topics suggests some.
RunEnds(n) ==
  /\ run[n].status = "active"
  /\ \E s \in Ended, ts \in SUBSET Topics :
       /\ (ts # {}) <=> (requests[n].kind = "topics" /\ s = "completed")
       /\ run' = [run EXCEPT ![n] = [status |-> s, topics |-> ts]]
  /\ UNCHANGED <<requests, hook>>

\* A poll answers: a run that is not over changes nothing, and the interval
\* ends with the first terminal status.
CanPoll(k) ==
  /\ hook[k].runId # NoStart /\ hook[k].seen = "pending"
  /\ run[hook[k].runId].status \in Ended

Status(k) == run[hook[k].runId].status

\* Which start's callback the effect calls: onCompleted or onError.
Callback(k) == IF Status(k) = "failed" THEN hook[k].onError ELSE hook[k].onSettled

\* The effect: the callback that was called is forgotten, the other is kept.
Polled(k) ==
  hook' = [hook EXCEPT ![k].seen = Status(k),
                       ![k].onSettled = IF Status(k) = "failed" THEN @ ELSE NoStart,
                       ![k].onError = IF Status(k) = "failed" THEN NoStart ELSE @]
==============================================================================
