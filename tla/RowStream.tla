------------------------------ MODULE RowStream ------------------------------
(***************************************************************************)
(* What a result set promises the application, without pages, requests or  *)
(* threads: rows come one by one in the order they were produced, a stream *)
(* that has ended or died stays so until it is closed, and one that has    *)
(* ended has delivered everything.                                         *)
(***************************************************************************)
EXTENDS Naturals

VARIABLES
  phase,       \* "closed", "streaming", "ended" or "dead"
  produced,    \* rows that were handed to the driver
  delivered    \* rows the application has had

stream == <<phase, produced, delivered>>

Closed == phase = "closed" /\ produced = 0 /\ delivered = 0

Init == Closed

\* Streaming, or over: and then nothing is left.
GoesOn == phase' = "streaming" \/ (phase' = "ended" /\ delivered' = produced')

Open ==
  /\ phase = "closed"
  /\ produced' \in Nat /\ delivered' = 0
  /\ GoesOn

\* More rows, once those that came before have been delivered.
Produce ==
  /\ phase = "streaming" /\ delivered = produced
  /\ produced' \in Nat /\ produced' >= produced
  /\ UNCHANGED delivered
  /\ GoesOn

Deliver ==
  /\ phase = "streaming" /\ delivered < produced
  /\ delivered' = delivered + 1
  /\ UNCHANGED produced
  /\ GoesOn

\* What is left is not delivered, whoever gave the result set up.
Die ==
  /\ phase = "streaming"
  /\ phase' = "dead"
  /\ UNCHANGED <<produced, delivered>>

Close ==
  /\ phase # "closed"
  /\ Closed'

Next == Open \/ Produce \/ Deliver \/ Die \/ Close

Spec == Init /\ [][Next]_stream
=============================================================================
