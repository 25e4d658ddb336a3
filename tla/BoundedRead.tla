---------------------------- MODULE BoundedRead ----------------------------
(***************************************************************************)
(* What a read through a cache promises: a request is answered once, or    *)
(* fails, and its answer is a version of the data that was current not     *)
(* longer than Bound ago.                                                  *)
(***************************************************************************)
EXTENDS Integers

CONSTANTS Requests, Bound, NoVersion

VARIABLES
  version,  \* the current version of the data
  age,      \* how long ago each version was replaced, counted up to Bound
  outcome,  \* of each request
  answer    \* the version each request was answered with

readVars == <<version, age, outcome, answer>>

Init ==
  /\ version = 0
  /\ \A v \in DOMAIN age : age[v] = 0
  /\ outcome = [r \in Requests |-> "pending"]
  /\ answer = [r \in Requests |-> NoVersion]

Write ==
  /\ version' = version + 1
  /\ UNCHANGED <<age, outcome, answer>>

Tick ==
  /\ age' = [v \in DOMAIN age |->
               IF v < version /\ age[v] < Bound THEN age[v] + 1 ELSE age[v]]
  /\ UNCHANGED <<version, outcome, answer>>

Answer(r, v) ==
  /\ outcome[r] = "pending"
  /\ v <= version /\ age[v] < Bound
  /\ outcome' = [outcome EXCEPT ![r] = "answered"]
  /\ answer' = [answer EXCEPT ![r] = v]
  /\ UNCHANGED <<version, age>>

Ask(r) ==
  /\ outcome[r] # "pending"
  /\ outcome' = [outcome EXCEPT ![r] = "pending"]
  /\ answer' = [answer EXCEPT ![r] = NoVersion]
  /\ UNCHANGED <<version, age>>

Fail(r) ==
  /\ outcome[r] = "pending"
  /\ outcome' = [outcome EXCEPT ![r] = "failed"]
  /\ UNCHANGED <<version, age, answer>>

Next ==
  \/ Write \/ Tick
  \/ \E r \in Requests : Ask(r) \/ Fail(r) \/ \E v \in DOMAIN age : Answer(r, v)

SafeSpec == Init /\ [][Next]_readVars
==============================================================================
