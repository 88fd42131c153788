---------------------------- MODULE TxnContract ----------------------------
(***************************************************************************)
(* What SQLEndTran promises an application about its units of work, with   *)
(* no driver, client or coordinator in sight.  A unit of work opens, is    *)
(* resolved one way for good, and whatever the application is told about   *)
(* it is true: a reported commit is a commit, a reported rollback (by      *)
(* SQL_SUCCESS or by SQLSTATE 25S03) is a rollback, and a report that      *)
(* settles the matter is never taken back.  Any other failure leaves the   *)
(* outcome open to the application.                                        *)
(***************************************************************************)
CONSTANT Txns

VARIABLES outcome,  \* [Txns -> Outcomes], what became of the unit of work
          told      \* [Txns -> Reports], what the application was told of it

vars == <<outcome, told>>

Outcomes == {"unused", "open", "committed", "rolledback"}
Reports  == {"nothing", "committed", "rolledback", "25S03", "error"}

Settles(report) == report \in {"committed", "rolledback", "25S03"}

\* The reports that are true of an outcome.
Honest(report, result) ==
  /\ report = "committed" => result = "committed"
  /\ report \in {"rolledback", "25S03"} => result = "rolledback"

Init ==
  /\ outcome = [t \in Txns |-> "unused"]
  /\ told = [t \in Txns |-> "nothing"]

Open(t) ==
  /\ outcome[t] = "unused"
  /\ outcome' = [outcome EXCEPT ![t] = "open"]
  /\ UNCHANGED told

\* The unit is resolved, and nobody says so yet.
Resolve(t) ==
  /\ outcome[t] = "open"
  /\ \E result \in {"committed", "rolledback"} :
       outcome' = [outcome EXCEPT ![t] = result]
  /\ UNCHANGED told

\* The application asks for an end and gets an answer, which may resolve it.
Answer(t) ==
  /\ outcome[t] # "unused"
  /\ ~ Settles(told[t])
  /\ \E result \in {outcome[t]} \union
          (IF outcome[t] = "open" THEN {"committed", "rolledback"} ELSE {}),
        report \in Reports \ {"nothing"} :
       /\ Honest(report, result)
       /\ outcome' = [outcome EXCEPT ![t] = result]
       /\ told' = [told EXCEPT ![t] = report]

Next == \E t \in Txns : Open(t) \/ Resolve(t) \/ Answer(t)

Spec == Init /\ [][Next]_vars
=============================================================================
