----------------------------- MODULE SetupProofs -----------------------------
(***************************************************************************)
(* Proofs about SetupDialog, for pipes of any capacity and texts of any    *)
(* length. SetupInv ties the two processes together: what the pipes hold   *)
(* to what each end has counted, the phase of one process to that of the   *)
(* other, and the exit code to what the person did.                        *)
(***************************************************************************)
EXTENDS SetupDialog, TLAPS

\* What was written has been collected or is in the pipe, and the driver keeps
\* its end of the other pipe only while it writes.
PipesFit ==
  /\ written = collected + stdout
  /\ stdin.open <=> setup = "writing"

\* A call in progress has its dialog, which shows nothing before its input has
\* ended and writes nothing before a person accepted.
PhasesFit ==
  /\ setup = "idle" => dialog \in {"none", "exited"}
  /\ dialog = "none" => setup = "idle"
  /\ dialog \in {"shown", "writing"} => setup = "waiting"
  /\ outcome # "none" => setup = "idle"

\* The exit code comes with the exit, and says what the person did.
VerdictFits ==
  /\ dialog # "exited" => code = Running
  /\ dialog = "writing" => person = "accepted"
  /\ code = EXIT_ACCEPTED => person = "accepted" /\ written = ResultSize
  /\ code = EXIT_CANCELLED => person = "cancelled"

SetupInv == SetupTypeOK /\ PipesFit /\ PhasesFit /\ VerdictFits /\ OutcomeIsThePersons
-----------------------------------------------------------------------------
LEMMA SetupInvInit == SetupInit => SetupInv
  BY SetupAssumption
  DEF SetupInit, SetupInv, SetupTypeOK, PipesFit, PhasesFit, VerdictFits, OutcomeIsThePersons,
      Running, EXIT_ACCEPTED, EXIT_CANCELLED, EXIT_CRASHED

\* A unit that goes into a pipe or comes out of one moves no phase.
LEMMA TransferStep ==
  ASSUME SetupInv, Write \/ Collect \/ ReadInput \/ WriteOutput
  PROVE  SetupInv'
  <1> USE DEF SetupInv, SetupTypeOK, PipesFit, PhasesFit, VerdictFits, OutcomeIsThePersons,
              Running, EXIT_ACCEPTED, EXIT_CANCELLED, EXIT_CRASHED
  <1> USE SetupAssumption
  <1>1. CASE Write
    BY <1>1 DEF Write
  <1>2. CASE Collect
    BY <1>2 DEF Collect
  <1>3. CASE ReadInput
    BY <1>3 DEF ReadInput
  <1>4. CASE WriteOutput
    BY <1>4 DEF WriteOutput
  <1> QED
    BY <1>1, <1>2, <1>3, <1>4

\* The driver goes on, or returns.
LEMMA DriverPhaseStep ==
  ASSUME SetupInv, BrokenPipe \/ Wait \/ Interpret \/ Return
  PROVE  SetupInv'
  <1> USE DEF SetupInv, SetupTypeOK, PipesFit, PhasesFit, VerdictFits, OutcomeIsThePersons,
              Running, EXIT_ACCEPTED, EXIT_CANCELLED, EXIT_CRASHED
  <1>1. CASE BrokenPipe
    BY <1>1 DEF BrokenPipe
  <1>2. CASE Wait
    BY <1>2 DEF Wait
  <1>3. CASE Interpret
    \* Only an exit code of the dialog makes an outcome of the person's.
    <2>1. interpret_outcome(code, collected = ResultSize) \in {"accepted", "cancelled", "error"}
      BY DEF interpret_outcome
    <2>2. interpret_outcome(code, collected = ResultSize) = "accepted" =>
            code = EXIT_ACCEPTED /\ collected = ResultSize
      BY DEF interpret_outcome
    <2>3. interpret_outcome(code, collected = ResultSize) = "cancelled" => code = EXIT_CANCELLED
      BY DEF interpret_outcome
    <2> QED
      BY <1>3, <2>1, <2>2, <2>3 DEF Interpret
  <1>4. CASE Return
    BY <1>4 DEF Return
  <1> QED
    BY <1>1, <1>2, <1>3, <1>4

\* The dialog goes on, is answered, or dies.
LEMMA DialogPhaseStep ==
  ASSUME SetupInv, Show \/ Accept \/ Cancel \/ ExitAccepted \/ Crash
  PROVE  SetupInv'
  <1> USE DEF SetupInv, SetupTypeOK, PipesFit, PhasesFit, VerdictFits, OutcomeIsThePersons,
              Running, EXIT_ACCEPTED, EXIT_CANCELLED, EXIT_CRASHED
  <1>1. CASE Show
    BY <1>1 DEF Show
  <1>2. CASE Accept
    BY <1>2 DEF Accept
  <1>3. CASE Cancel
    BY <1>3 DEF Cancel
  <1>4. CASE ExitAccepted
    BY <1>4 DEF ExitAccepted
  <1>5. CASE Crash
    BY <1>5 DEF Crash
  <1> QED
    BY <1>1, <1>2, <1>3, <1>4, <1>5

\* A call that needs no dialog, cannot have one, or starts one.
LEMMA CallStep ==
  ASSUME SetupInv, NEW hwnd_is_null \in BOOLEAN, NEW request \in Requests,
         configure_dsn(hwnd_is_null, request)
  PROVE  SetupInv'
  <1> USE DEF SetupInv, SetupTypeOK, PipesFit, PhasesFit, VerdictFits, OutcomeIsThePersons,
              Running, EXIT_ACCEPTED, EXIT_CANCELLED, EXIT_CRASHED, Idle
  <1>1. CASE PassThrough(hwnd_is_null, request)
    BY <1>1 DEF PassThrough
  <1>2. CASE CannotStart(hwnd_is_null, request)
    BY <1>2 DEF CannotStart
  <1>3. CASE run_dialog(hwnd_is_null, request)
    BY <1>3, SetupAssumption DEF run_dialog
  <1> QED
    BY <1>1, <1>2, <1>3 DEF configure_dsn

LEMMA SetupInvStep == SetupInv /\ [SetupNext]_setup_vars => SetupInv'
  <1> SUFFICES ASSUME SetupInv, [SetupNext]_setup_vars PROVE SetupInv'
    OBVIOUS
  <1>1. CASE \E hwnd_is_null \in BOOLEAN, request \in Requests : configure_dsn(hwnd_is_null, request)
    BY <1>1, CallStep
  <1>2. CASE DriverStep \/ Return
    BY <1>2, TransferStep, DriverPhaseStep DEF DriverStep
  <1>3. CASE DialogStep \/ Accept \/ Cancel \/ Crash
    BY <1>3, TransferStep, DialogPhaseStep DEF DialogStep
  <1>4. CASE UNCHANGED setup_vars
    BY <1>4 DEF setup_vars, SetupInv, SetupTypeOK, PipesFit, PhasesFit, VerdictFits, OutcomeIsThePersons
  <1> QED
    BY <1>1, <1>2, <1>3, <1>4 DEF SetupNext

LEMMA SetupInvHolds == SetupSpec => []SetupInv
  BY SetupInvInit, SetupInvStep, PTL DEF SetupSpec
-----------------------------------------------------------------------------
(* Safety.                                                                  *)

\* No pipe holds more than it can and no text is sent, written or collected
\* past its end, at any capacity and length.
THEOREM TypeCorrect == SetupSpec => []SetupTypeOK
  <1>1. SetupInv => SetupTypeOK
    BY DEF SetupInv
  <1> QED
    BY <1>1, SetupInvHolds, PTL

\* configure_dsn hands the installer what a person accepted, whole, and drops a
\* request in silence only for a person who cancelled it.
THEOREM OutcomesAreThePersons == SetupSpec => []OutcomeIsThePersons
  <1>1. SetupInv => OutcomeIsThePersons
    BY DEF SetupInv
  <1> QED
    BY <1>1, SetupInvHolds, PTL

\* run_dialog and the script never wait on each other, however small a pipe is
\* and however long the texts are.
THEOREM NoCircularWait == SetupSpec => []NobodyWaitsInACircle
  <1>1. ASSUME SetupInv, setup # "idle", dialog # "shown"
        PROVE  DriverCanMove \/ DialogCanMove
    <2> USE DEF SetupInv, SetupTypeOK, PipesFit, PhasesFit, DriverCanMove, DialogCanMove
    <2>1. CASE setup = "writing"
      \* A full pipe has something to read, and the dialog is still reading.
      BY <1>1, <2>1, SetupAssumption
    <2>2. CASE setup = "waiting"
      \* The end of the input has come, and an empty pipe has room.
      BY <1>1, <2>2, SetupAssumption
    <2> QED
      BY <1>1, <2>1, <2>2
  <1>2. SetupInv => NobodyWaitsInACircle
    BY <1>1 DEF NobodyWaitsInACircle
  <1> QED
    BY <1>2, SetupInvHolds, PTL
-----------------------------------------------------------------------------
(* Progress.                                                                *)

LEMMA RemainingIsNatural ==
  ASSUME SetupTypeOK
  PROVE  Remaining \in Nat
  BY SetupAssumption DEF SetupTypeOK, Remaining, UnitsLeft, DriverPhases, DialogPhases

\* A transfer moves one unit on, and no phase.
LEMMA TransferLeavesLess ==
  ASSUME SetupTypeOK, Write \/ Collect \/ ReadInput \/ WriteOutput
  PROVE  Remaining' < Remaining
  <1> USE SetupAssumption DEF SetupTypeOK, Remaining, UnitsLeft, DriverPhases, DialogPhases
  <1>1. CASE Write
    BY <1>1 DEF Write
  <1>2. CASE Collect
    BY <1>2 DEF Collect
  <1>3. CASE ReadInput
    BY <1>3 DEF ReadInput
  <1>4. CASE WriteOutput
    BY <1>4 DEF WriteOutput
  <1> QED
    BY <1>1, <1>2, <1>3, <1>4

\* Any other step ends a phase, and moves no unit.
LEMMA PhaseLeavesLess ==
  ASSUME SetupTypeOK,
         BrokenPipe \/ Wait \/ Interpret \/ Show \/ Accept \/ Cancel \/ ExitAccepted \/ Crash
  PROVE  Remaining' < Remaining
  <1> USE SetupAssumption DEF SetupTypeOK, Remaining, UnitsLeft, DriverPhases, DialogPhases
  <1>1. CASE BrokenPipe
    BY <1>1 DEF BrokenPipe
  <1>2. CASE Wait
    BY <1>2 DEF Wait
  <1>3. CASE Interpret
    BY <1>3 DEF Interpret
  <1>4. CASE Show
    BY <1>4 DEF Show
  <1>5. CASE Accept
    BY <1>5 DEF Accept
  <1>6. CASE Cancel
    BY <1>6 DEF Cancel
  <1>7. CASE ExitAccepted
    BY <1>7 DEF ExitAccepted
  <1>8. CASE Crash
    BY <1>8 DEF Crash
  <1> QED
    BY <1>1, <1>2, <1>3, <1>4, <1>5, <1>6, <1>7, <1>8

\* The loops of write_all, of wait_with_output and of the script end: each step
\* of the two processes leaves less to do, and nothing is ever below nothing.
\* With NoCircularWait, a dialog that nobody has to answer takes no more than
\* Remaining steps from its start.
THEOREM DialogsEnd == SetupSpec => EveryStepIsProgress
  <1>1. ASSUME SetupInv, SetupInv', DriverStep \/ DialogStep \/ Accept \/ Cancel \/ Crash
        PROVE  Remaining' \in 0..(Remaining - 1)
    <2>1. SetupTypeOK /\ SetupTypeOK'
      BY <1>1 DEF SetupInv
    <2>2. Remaining \in Nat
      BY <2>1, RemainingIsNatural
    <2>3. Remaining' \in Nat
      BY <2>1, SetupAssumption DEF SetupTypeOK, Remaining, UnitsLeft, DriverPhases, DialogPhases
    <2>4. Remaining' < Remaining
      BY <1>1, <2>1, TransferLeavesLess, PhaseLeavesLess DEF DriverStep, DialogStep
    <2> QED
      BY <2>2, <2>3, <2>4
  <1>2. SetupInv /\ SetupInv' =>
          [DriverStep \/ DialogStep \/ Accept \/ Cancel \/ Crash => Remaining' \in 0..(Remaining - 1)]_setup_vars
    BY <1>1
  <1> QED
    BY <1>2, SetupInvHolds, PTL DEF EveryStepIsProgress
=============================================================================
