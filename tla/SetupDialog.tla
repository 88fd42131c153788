----------------------------- MODULE SetupDialog -----------------------------
(***************************************************************************)
(* setup.rs and packaging/windows/configure-dsn.ps1: the dialog behind     *)
(* ConfigDSN, a process of its own that the driver talks to through two    *)
(* pipes.                                                                  *)
(*                                                                         *)
(* The driver writes the stored keywords to the dialog's stdin and closes  *)
(* it, then reads stdout to its end and the exit code. The dialog (the     *)
(* script with -Emit) reads stdin to its end, shows the window, writes     *)
(* what was accepted to stdout, and exits. A pipe holds at most            *)
(* PipeCapacity units; both texts may be longer.                           *)
(***************************************************************************)
EXTENDS Naturals

CONSTANTS
  PipeCapacity,    \* units a pipe holds
  PayloadSize,     \* units of the keywords, as JSON
  ResultSize       \* units of the keywords that were accepted

ASSUME SetupAssumption ==
  /\ PipeCapacity \in Nat \ {0}
  /\ PayloadSize \in Nat \ {0}
  /\ ResultSize \in Nat \ {0}

VARIABLES
  setup,       \* where configure_dsn is
  sent,        \* units it has written
  stdin,       \* units in the pipe, and whether the driver's end is open
  dialog,      \* where the dialog is
  stdout,      \* units in the pipe
  written,     \* units the dialog has written
  collected,   \* units the driver has read
  code,        \* the exit code
  outcome,     \* what configure_dsn returned
  person       \* observer: what the person did with the window

setup_vars == <<setup, sent, stdin, dialog, stdout, written, collected, code, outcome, person>>

Requests == {"Add", "Config", "Remove"}
EXIT_ACCEPTED == 0
EXIT_CANCELLED == 2
EXIT_CRASHED == 1
Running == 3      \* no exit code yet

SetupInit ==
  /\ setup = "idle" /\ sent = 0
  /\ stdin = [held |-> 0, open |-> FALSE]
  /\ dialog = "none" /\ stdout = 0 /\ written = 0 /\ collected = 0
  /\ code = Running /\ outcome = "none" /\ person = "none"
-----------------------------------------------------------------------------
(* The driver.                                                              *)

\* A null window handle forbids a dialog, and ends the recursion: the script
\* on its own calls the installer with one, which calls configure_dsn again.
dialog_needed(hwnd_is_null, request) == ~hwnd_is_null /\ request \in {"Add", "Config"}

Idle == setup = "idle" /\ dialog \in {"none", "exited"}

\* No dialog: the keywords as they came.
PassThrough(hwnd_is_null, request) ==
  /\ Idle /\ outcome = "none"
  /\ ~dialog_needed(hwnd_is_null, request)
  /\ outcome' = "unchanged"
  /\ UNCHANGED <<setup, sent, stdin, dialog, stdout, written, collected, code, person>>

\* The script is not beside the driver, or PowerShell cannot be started.
CannotStart(hwnd_is_null, request) ==
  /\ Idle /\ outcome = "none"
  /\ dialog_needed(hwnd_is_null, request)
  /\ outcome' = "error"
  /\ UNCHANGED <<setup, sent, stdin, dialog, stdout, written, collected, code, person>>

run_dialog(hwnd_is_null, request) ==
  /\ Idle /\ outcome = "none"
  /\ dialog_needed(hwnd_is_null, request)
  /\ setup' = "writing" /\ dialog' = "reading"
  /\ stdin' = [held |-> 0, open |-> TRUE]
  /\ sent' = 0 /\ stdout' = 0 /\ written' = 0 /\ collected' = 0
  /\ code' = Running /\ person' = "none"
  /\ UNCHANGED outcome

\* write_all, as far as the pipe has room.
Write ==
  /\ setup = "writing" /\ sent < PayloadSize /\ dialog # "exited"
  /\ stdin.held < PipeCapacity
  /\ stdin' = [stdin EXCEPT !.held = @ + 1]
  /\ sent' = sent + 1
  /\ UNCHANGED <<setup, dialog, stdout, written, collected, code, outcome, person>>

\* A likely mistake: a write to a dead dialog is tried again.
RetryBrokenPipe ==
  /\ setup = "writing" /\ sent < PayloadSize /\ dialog = "exited"
  /\ UNCHANGED setup_vars

\* The dialog died while it was written to.
BrokenPipe ==
  /\ setup = "writing" /\ sent < PayloadSize /\ dialog = "exited"
  /\ setup' = "idle" /\ outcome' = "error"
  /\ stdin' = [stdin EXCEPT !.open = FALSE]
  /\ UNCHANGED <<sent, dialog, stdout, written, collected, code, person>>

\* A likely mistake: the pipe is kept until the child has been waited for.
WaitWithStdinOpen ==
  /\ setup = "writing" /\ sent = PayloadSize
  /\ setup' = "waiting"
  /\ UNCHANGED <<sent, stdin, dialog, stdout, written, collected, code, outcome, person>>

\* The end of the scope closes the pipe, and wait_with_output begins.
Wait ==
  /\ setup = "writing" /\ sent = PayloadSize
  /\ setup' = "waiting"
  /\ stdin' = [stdin EXCEPT !.open = FALSE]
  /\ UNCHANGED <<sent, dialog, stdout, written, collected, code, outcome, person>>

Collect ==
  /\ setup = "waiting" /\ stdout > 0
  /\ stdout' = stdout - 1 /\ collected' = collected + 1
  /\ UNCHANGED <<setup, sent, stdin, dialog, written, code, outcome, person>>

\* A likely mistake: whatever is not a list of keywords is a cancel.
anything_else_cancels(exit_code, complete) ==
  IF exit_code = EXIT_ACCEPTED /\ complete THEN "accepted" ELSE "cancelled"

\* The exit code is the verdict, and a list of keywords has to parse.
interpret_outcome(exit_code, complete) ==
  CASE exit_code = EXIT_ACCEPTED -> IF complete THEN "accepted" ELSE "error"
    [] exit_code = EXIT_CANCELLED -> "cancelled"
    [] OTHER -> "error"

Interpret ==
  /\ setup = "waiting" /\ stdout = 0 /\ dialog = "exited"
  /\ setup' = "idle"
  /\ outcome' = interpret_outcome(code, collected = ResultSize)
  /\ UNCHANGED <<sent, stdin, dialog, stdout, written, collected, code, person>>

Return ==
  /\ setup = "idle" /\ outcome # "none"
  /\ outcome' = "none"
  /\ UNCHANGED <<setup, sent, stdin, dialog, stdout, written, collected, code, person>>
-----------------------------------------------------------------------------
(* The dialog, and the person in front of it.                               *)

ReadInput ==
  /\ dialog = "reading" /\ stdin.held > 0
  /\ stdin' = [stdin EXCEPT !.held = @ - 1]
  /\ UNCHANGED <<setup, sent, dialog, stdout, written, collected, code, outcome, person>>

\* The end of the input is the other end closed.
Show ==
  /\ dialog = "reading" /\ stdin.held = 0 /\ ~stdin.open
  /\ dialog' = "shown"
  /\ UNCHANGED <<setup, sent, stdin, stdout, written, collected, code, outcome, person>>

Accept ==
  /\ dialog = "shown"
  /\ person' = "accepted" /\ dialog' = "writing"
  /\ UNCHANGED <<setup, sent, stdin, stdout, written, collected, code, outcome>>

Cancel ==
  /\ dialog = "shown"
  /\ person' = "cancelled" /\ dialog' = "exited" /\ code' = EXIT_CANCELLED
  /\ UNCHANGED <<setup, sent, stdin, stdout, written, collected, outcome>>

WriteOutput ==
  /\ dialog = "writing" /\ written < ResultSize /\ stdout < PipeCapacity
  /\ written' = written + 1 /\ stdout' = stdout + 1
  /\ UNCHANGED <<setup, sent, stdin, dialog, collected, code, outcome, person>>

ExitAccepted ==
  /\ dialog = "writing" /\ written = ResultSize
  /\ dialog' = "exited" /\ code' = EXIT_ACCEPTED
  /\ UNCHANGED <<setup, sent, stdin, stdout, written, collected, outcome, person>>

\* A terminating error, or a process somebody ends.
Crash ==
  /\ dialog \in {"reading", "shown", "writing"}
  /\ dialog' = "exited" /\ code' = EXIT_CRASHED
  /\ UNCHANGED <<setup, sent, stdin, stdout, written, collected, outcome, person>>
-----------------------------------------------------------------------------
configure_dsn(hwnd_is_null, request) ==
  \/ PassThrough(hwnd_is_null, request)
  \/ CannotStart(hwnd_is_null, request)
  \/ run_dialog(hwnd_is_null, request)

DriverStep == Write \/ BrokenPipe \/ Wait \/ Collect \/ Interpret
DialogStep == ReadInput \/ Show \/ WriteOutput \/ ExitAccepted

SetupNext ==
  \/ \E hwnd_is_null \in BOOLEAN, request \in Requests : configure_dsn(hwnd_is_null, request)
  \/ DriverStep \/ Return
  \/ DialogStep \/ Accept \/ Cancel \/ Crash

\* The driver and the script run on; a person does not have to answer.
SetupSpec == SetupInit /\ [][SetupNext]_setup_vars /\ WF_setup_vars(DriverStep) /\ WF_setup_vars(DialogStep)
-----------------------------------------------------------------------------
(* Properties.                                                              *)

\* Neither pipe holds more than it can, nothing is sent twice, and the
\* driver collects no more than the dialog wrote.
SetupTypeOK ==
  /\ setup \in {"idle", "writing", "waiting"}
  /\ sent \in 0..PayloadSize
  /\ stdin \in [held : 0..PipeCapacity, open : BOOLEAN]
  /\ dialog \in {"none", "reading", "shown", "writing", "exited"}
  /\ stdout \in 0..PipeCapacity
  /\ written \in 0..ResultSize /\ collected \in 0..ResultSize
  /\ code \in {EXIT_ACCEPTED, EXIT_CRASHED, EXIT_CANCELLED, Running}
  /\ outcome \in {"none", "unchanged", "accepted", "cancelled", "error"}
  /\ person \in {"none", "accepted", "cancelled"}

\* Keywords reach the installer only as a person accepted them, all of them,
\* and a request is dropped without an error only when a person cancelled it:
\* a dialog that dies, at any point of either transfer, is an error
\* (interpret_outcome: the exit code carries the verdict).
OutcomeIsThePersons ==
  /\ outcome = "accepted" => person = "accepted" /\ collected = ResultSize
  /\ outcome = "cancelled" => person = "cancelled"

DriverCanMove ==
  \/ setup = "writing" /\ (sent = PayloadSize \/ dialog = "exited" \/ stdin.held < PipeCapacity)
  \/ setup = "waiting" /\ (dialog = "exited" \/ stdout > 0)
DialogCanMove ==
  \/ dialog = "reading" /\ (stdin.held > 0 \/ ~stdin.open)
  \/ dialog = "writing" /\ (written = ResultSize \/ stdout < PipeCapacity)

\* The two processes never wait on each other, with texts longer than a pipe
\* and a script that dies at any point: until the person is asked, or the call
\* is over, one of them can go on (run_dialog closes stdin before it waits, and
\* the script writes nothing before it has read everything). The third pipe,
\* the script's stderr, is left out.
NobodyWaitsInACircle ==
  setup # "idle" /\ dialog # "shown" => DriverCanMove \/ DialogCanMove

\* What is left to do: the units, each counted at both ends of its pipe, and
\* the phases of the two processes.
UnitsLeft == 2 * (PayloadSize - sent) + stdin.held + 2 * (ResultSize - written) + stdout
DriverPhases == CASE setup = "writing" -> 2 [] setup = "waiting" -> 1 [] OTHER -> 0
DialogPhases ==
  CASE dialog = "reading" -> 3 [] dialog = "shown" -> 2 [] dialog = "writing" -> 1 [] OTHER -> 0
Remaining == UnitsLeft + DriverPhases + DialogPhases

\* No step of either process, nor the person's answer or a crash, is undone or
\* repeated: less remains after each, so a dialog takes a bounded number of
\* steps (the loops of write_all, wait_with_output and the script).
EveryStepIsProgress ==
  [][DriverStep \/ DialogStep \/ Accept \/ Cancel \/ Crash => Remaining' \in 0..(Remaining - 1)]_setup_vars

\* ConfigDSN returns, or waits for a person (run_dialog).
SetupReturns ==
  (setup # "idle" /\ dialog # "shown") ~> (setup = "idle" \/ dialog = "shown")
=============================================================================
