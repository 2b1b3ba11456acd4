------------------------------ MODULE PythonRuns ------------------------------
(***************************************************************************)
(* execute_python (agent/tools/code_execution.py): every call runs its      *)
(* program in a thread of the pool, with sys.stdout, which belongs to the   *)
(* process, redirected to a buffer of its own.  The call waits for the      *)
(* thread for 10 seconds; the thread itself is never stopped.               *)
(***************************************************************************)
EXTENDS Naturals, Sequences, FiniteSets

CONSTANTS
    Call,     \* calls of the tool
    Process,  \* sys.stdout of the process
    MaxPrints \* bound on the lines that a program prints

PythonRunsAssumption == Process \notin Call /\ MaxPrints \in Nat

VARIABLES
    thread,  \* where a call's thread is
    told,    \* what the call has answered
    stdout,  \* sys.stdout: a buffer, named by its call, or that of the process
    before,  \* _old_targets: what sys.stdout was when a thread redirected it
    buffer,  \* f_out of each call: the calls whose programs printed its lines
    printed, \* lines that a program has printed (history)
    result,  \* the answer's lines
    alone    \* no other thread was redirecting while this one was (history)

vars == <<thread, told, stdout, before, buffer, printed, result, alone>>

Target == Call \cup {Process}

TypeOK ==
    /\ thread \in [Call -> {"waiting", "inside", "ended"}]
    /\ told \in [Call -> {"none", "output", "error", "timeout"}]
    /\ stdout \in Target /\ before \in [Call -> Target]
    /\ buffer \in [Call -> Seq(Call)]
    /\ printed \in [Call -> 0 .. MaxPrints]
    /\ result \in [Call -> Seq(Call)]
    /\ alone \in [Call -> BOOLEAN]

\* A call that has not been made yet and one whose thread waits for its turn
\* (run_in_executor) are alike.
Init ==
    /\ thread = [c \in Call |-> "waiting"] /\ told = [c \in Call |-> "none"]
    /\ stdout = Process /\ before = [c \in Call |-> Process]
    /\ buffer = [c \in Call |-> <<>>] /\ result = [c \in Call |-> <<>>]
    /\ printed = [c \in Call |-> 0]
    /\ alone = [c \in Call |-> TRUE]

Inside == {c \in Call : thread[c] = "inside"}

\* redirect_stdout.__enter__
Enter(c) ==
    /\ thread[c] = "waiting"
    /\ thread' = [thread EXCEPT ![c] = "inside"]
    /\ before' = [before EXCEPT ![c] = stdout]
    /\ stdout' = c
    /\ alone' = [d \in Call |-> alone[d] /\ (d \in Inside \cup {c} => Inside = {})]
    /\ UNCHANGED <<told, buffer, printed, result>>

\* The program prints a line, to whatever sys.stdout is by now.
PrintLine(c) ==
    /\ thread[c] = "inside" /\ printed[c] < MaxPrints
    /\ printed' = [printed EXCEPT ![c] = @ + 1]
    /\ buffer' = IF stdout = Process THEN buffer ELSE [buffer EXCEPT ![stdout] = Append(@, c)]
    /\ UNCHANGED <<thread, told, stdout, before, result, alone>>

\* redirect_stdout.__exit__, when the program ends or raises.
Leave(c) ==
    /\ thread[c] = "inside"
    /\ thread' = [thread EXCEPT ![c] = "ended"]
    /\ stdout' = before[c]
    /\ UNCHANGED <<told, before, buffer, printed, result, alone>>

\* The event loop reads the buffer, some time after the thread ended; a program that
\* raised is answered with its exception instead.
Respond(c) ==
    /\ thread[c] = "ended" /\ told[c] = "none"
    /\ \/ told' = [told EXCEPT ![c] = "output"] /\ result' = [result EXCEPT ![c] = buffer[c]]
       \/ told' = [told EXCEPT ![c] = "error"] /\ UNCHANGED result
    /\ UNCHANGED <<thread, stdout, before, buffer, printed, alone>>

\* wait_for: the thread goes on, unless it had not begun and is taken off the queue.
Timeout(c) ==
    /\ thread[c] \in {"waiting", "inside"} /\ told[c] = "none"
    /\ told' = [told EXCEPT ![c] = "timeout"]
    /\ thread' = [thread EXCEPT ![c] = IF @ = "waiting" THEN "ended" ELSE @]
    /\ UNCHANGED <<stdout, before, buffer, printed, result, alone>>

Next == \E c \in Call :
    Enter(c) \/ PrintLine(c) \/ Leave(c) \/ Respond(c) \/ Timeout(c)

Spec == Init /\ [][Next]_vars

---------------------------------------------------------------------------
(* Properties.                                                             *)

\* A call whose thread redirected alone answers with the lines of its own program, all
\* of them, although threads of calls that timed out may run on and what they put
\* back may be the buffer of a call that is over; and sys.stdout is the process's own
\* again when no thread is inside, or else threads have overlapped.
OutputIsOwn ==
    /\ \A c \in Call :
          told[c] = "output" /\ alone[c] => result[c] = [i \in 1 .. printed[c] |-> c]
    /\ Inside = {} /\ stdout # Process => \E c, d \in Call : c # d /\ ~alone[c] /\ ~alone[d]
    /\ \A c \in Call : alone[c] /\ c \in Inside => stdout = c

(***************************************************************************)
(* The inductive invariant: the buffer of a call that has not begun is       *)
(* nobody's; that of one alone has its own lines, and once its thread has     *)
(* ended nothing prints there or puts it back; and before threads overlap     *)
(* the one inside puts back the process's own.                                *)
(***************************************************************************)
WaitingInv ==
    \A c \in Call : thread[c] = "waiting" =>
        /\ printed[c] = 0 /\ buffer[c] = <<>>
        /\ stdout # c /\ \A d \in Call : before[d] # c

AloneInv ==
    \A c \in Call : alone[c] =>
        /\ thread[c] = "inside" => Inside = {c} /\ stdout = c /\ before[c] # c
        /\ thread[c] = "ended" => stdout # c /\ \A d \in Inside : before[d] # c
        /\ buffer[c] = [i \in 1 .. printed[c] |-> c]
        /\ told[c] = "output" => thread[c] = "ended" /\ result[c] = buffer[c]

Overlapped == \E c, d \in Call : c # d /\ ~alone[c] /\ ~alone[d]

StdoutInv ==
    \/ Overlapped
    \/ /\ Inside = {} => stdout = Process
       /\ \A c \in Inside : before[c] = Process

IInv == TypeOK /\ WaitingInv /\ AloneInv /\ StdoutInv
=============================================================================
