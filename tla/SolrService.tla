---------------------------- MODULE SolrService ----------------------------
(***************************************************************************)
(* What ISolrConnection promises to its callers, with no cache and no      *)
(* network in sight: a query is answered from the index as it was at one   *)
(* moment of the call, an update that returns has been carried out, and    *)
(* any call may end in an exception, whether it was carried out or not.    *)
(***************************************************************************)
EXTENDS Naturals

CONSTANTS Threads, Urls, Versions, Queries, Update, Done, NoValue

VARIABLES
  index,    \* the version of the index that searches see
  stage,    \* [Threads -> {"idle", "called", "served"}]
  asked,    \* [Threads -> Queries \cup {Update}]
  answer,   \* [Threads -> what the call will return, once served]
  returned  \* [Threads -> what the last call returned]

sVars == <<index, stage, asked, answer, returned>>

Init ==
  /\ index \in Versions
  /\ stage = [t \in Threads |-> "idle"]
  /\ asked = [t \in Threads |-> Update]
  /\ answer = [t \in Threads |-> NoValue]
  /\ returned = [t \in Threads |-> NoValue]

Call(t) ==
  /\ stage[t] = "idle"
  /\ \E c \in Queries \cup {Update} : asked' = [asked EXCEPT ![t] = c]
  /\ stage' = [stage EXCEPT ![t] = "called"]
  /\ returned' = [returned EXCEPT ![t] = NoValue]
  /\ UNCHANGED <<index, answer>>

\* The moment at which a query takes effect.
ServeQuery(t) ==
  /\ stage[t] = "called"
  /\ asked[t] \in Queries
  /\ stage' = [stage EXCEPT ![t] = "served"]
  /\ answer' = [answer EXCEPT ![t] = [url |-> asked[t].url, version |-> index]]
  /\ UNCHANGED <<index, asked, returned>>

\* The moment at which an update takes effect.
ServeUpdate(t) ==
  /\ stage[t] = "called"
  /\ asked[t] = Update
  /\ stage' = [stage EXCEPT ![t] = "served"]
  /\ answer' = [answer EXCEPT ![t] = Done]
  /\ index' \in Versions
  /\ UNCHANGED <<asked, returned>>

Return(t) ==
  /\ stage[t] = "served"
  /\ stage' = [stage EXCEPT ![t] = "idle"]
  /\ returned' = [returned EXCEPT ![t] = answer[t]]
  /\ answer' = [answer EXCEPT ![t] = NoValue]
  /\ UNCHANGED <<index, asked>>

Fail(t) ==
  /\ stage[t] # "idle"
  /\ stage' = [stage EXCEPT ![t] = "idle"]
  /\ returned' = [returned EXCEPT ![t] = NoValue]
  /\ answer' = [answer EXCEPT ![t] = NoValue]
  /\ UNCHANGED <<index, asked>>

Change ==
  /\ index' \in Versions
  /\ UNCHANGED <<stage, asked, answer, returned>>

Next ==
  \/ \E t \in Threads : Call(t) \/ ServeQuery(t) \/ ServeUpdate(t) \/ Return(t) \/ Fail(t)
  \/ Change

Spec == Init /\ [][Next]_sVars
=============================================================================
