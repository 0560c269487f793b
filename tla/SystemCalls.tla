---------------------------- MODULE SystemCalls -----------------------------
(* The three ways assignment-3-part-1/systemcalls.c runs a command, as two   *)
(* processes: the caller, with what it printed and stdio has not written     *)
(* yet, and the child that fork makes of it, with a copy of that text.  Each *)
(* call has an output file of its own.                                       *)
EXTENDS Naturals, Sequences

CONSTANTS MaxCalls,  \* bound: calls the caller makes
          MaxPrints, \* bound: texts it prints
          Faults     \* bound: what may go wrong, of "fork", "open", "dup2", "exec",
                     \* "kill", "signal"

ASSUME SystemCallsAssumption ==
    /\ MaxCalls \in Nat /\ MaxPrints \in Nat
    /\ Faults \subseteq {"fork", "open", "dup2", "exec", "kill", "signal"}

Calls == 1 .. MaxCalls

VARIABLES
    calls, printed, \* calls begun, texts printed
    caller,         \* "free", or in waitpid for the child of the last call
    result,         \* what each call returned
    text, stdout,   \* printed and not yet written; what was written
    child, copy,    \* where each child is; the copy it has of text
    to, status,     \* where its output goes; how it ended
    outputfile,     \* what each call left in its file
    interrupted     \* history: calls whose waitpid was interrupted

output == <<text, stdout, outputfile>>
childs == <<child, copy, to, status>>
vars == <<calls, printed, caller, result, output, childs, interrupted>>

Init ==
    /\ calls = 0 /\ printed = 0 /\ caller = "free"
    /\ result = [i \in Calls |-> "none"]
    /\ text = << >> /\ stdout = << >> /\ outputfile = [i \in Calls |-> << >>]
    /\ child = [i \in Calls |-> "none"] /\ copy = [i \in Calls |-> << >>]
    /\ to = [i \in Calls |-> "stdout"] /\ status = [i \in Calls |-> "none"]
    /\ interrupted = {}

\* Texts are told apart by who wrote them: the caller (0) or the command of a call.
Text(by, no) == [by |-> by, no |-> no]

\* A process whose output goes where the child's does writes s.
Puts(i, s) ==
    /\ stdout' = IF to[i] = "stdout" THEN stdout \o s ELSE stdout
    /\ outputfile' = IF to[i] = "file" THEN [outputfile EXCEPT ![i] = @ \o s] ELSE outputfile

-----------------------------------------------------------------------------
\* The caller, between calls.
Printf ==
    /\ caller = "free" /\ printed < MaxPrints
    /\ printed' = printed + 1 /\ text' = Append(text, Text(0, printed + 1))
    /\ UNCHANGED <<calls, caller, result, stdout, outputfile, childs, interrupted>>

Flush ==
    /\ caller = "free" /\ text # << >>
    /\ stdout' = stdout \o text /\ text' = << >>
    /\ UNCHANGED <<calls, printed, caller, result, outputfile, childs, interrupted>>

Begin == caller = "free" /\ calls < MaxCalls /\ calls' = calls + 1

Answer(i, r) == result' = [result EXCEPT ![i] = r]

\* do_system.  The shell system(3) runs never sees what stdio holds.
DoSystem ==
    /\ Begin
    /\ \/ stdout' = Append(stdout, Text(calls', 1)) /\ Answer(calls', "true")
       \/ stdout' = Append(stdout, Text(calls', 1)) /\ Answer(calls', "false")
       \/ stdout' = stdout /\ Answer(calls', "false")
    /\ UNCHANGED <<printed, caller, text, outputfile, childs, interrupted>>

\* do_exec and do_exec_redirect up to the fork.
Fork(redirect) ==
    /\ Begin /\ caller' = "wait"
    /\ child' = [child EXCEPT ![calls'] = IF redirect THEN "open" ELSE "exec"]
    /\ copy' = [copy EXCEPT ![calls'] = text]
    /\ UNCHANGED <<printed, result, output, to, status, interrupted>>

ForkFails ==
    /\ "fork" \in Faults /\ Begin /\ Answer(calls', "false")
    /\ UNCHANGED <<printed, caller, output, childs, interrupted>>

Returns(r) ==
    /\ caller = "wait" /\ caller' = "free" /\ Answer(calls, r)
    /\ UNCHANGED <<calls, printed, output, copy, to, status>>

\* Mutant of Wait: does not wait for the child to end.
WaitNoHang ==
    /\ Returns(IF child[calls] = "zombie" /\ status[calls] = "0" THEN "true" ELSE "false")
    /\ child' = IF child[calls] = "zombie" THEN [child EXCEPT ![calls] = "reaped"] ELSE child
    /\ UNCHANGED interrupted

\* Mutant of Wait: any end of the child will do.
WaitAnyStatus ==
    /\ caller = "wait" /\ child[calls] = "zombie"
    /\ Returns("true")
    /\ child' = [child EXCEPT ![calls] = "reaped"]
    /\ UNCHANGED interrupted

Wait ==
    /\ caller = "wait" /\ child[calls] = "zombie"
    /\ Returns(IF status[calls] = "0" THEN "true" ELSE "false")
    /\ child' = [child EXCEPT ![calls] = "reaped"]
    /\ UNCHANGED interrupted

\* A handler of the caller's ran: waitpid fails, and is not called again.
WaitInterrupted ==
    /\ "signal" \in Faults /\ Returns("false")
    /\ interrupted' = interrupted \cup {calls}
    /\ UNCHANGED child

-----------------------------------------------------------------------------
\* The child.
Moves(i, from, into) == child[i] = from /\ child' = [child EXCEPT ![i] = into]

Elsewhere == UNCHANGED <<calls, printed, caller, result, text, interrupted>>

Open(i) == Moves(i, "open", "dup2") /\ Elsewhere
           /\ UNCHANGED <<stdout, outputfile, copy, to, status>>

OpenFails(i) == "open" \in Faults /\ Moves(i, "open", "exit") /\ Elsewhere
                /\ UNCHANGED <<stdout, outputfile, copy, to, status>>

Dup2(i) == Moves(i, "dup2", "exec") /\ to' = [to EXCEPT ![i] = "file"] /\ Elsewhere
           /\ UNCHANGED <<stdout, outputfile, copy, status>>

Dup2Fails(i) == "dup2" \in Faults /\ Moves(i, "dup2", "exit") /\ Elsewhere
                /\ UNCHANGED <<stdout, outputfile, copy, to, status>>

\* The command takes the place of the program, and of what it had to write.
Exec(i) == Moves(i, "exec", "run") /\ copy' = [copy EXCEPT ![i] = << >>] /\ Elsewhere
           /\ UNCHANGED <<stdout, outputfile, to, status>>

ExecFails(i) == "exec" \in Faults /\ Moves(i, "exec", "exit") /\ Elsewhere
                /\ UNCHANGED <<stdout, outputfile, copy, to, status>>

\* Mutant of Exit: exit(EXIT_SUCCESS).
ExitSuccess(i) ==
    /\ Moves(i, "exit", "zombie") /\ status' = [status EXCEPT ![i] = "0"]
    /\ Puts(i, copy[i]) /\ Elsewhere /\ UNCHANGED <<copy, to>>

\* Mutant of Exit: the call is forgotten, and the child goes on as a second
\* caller.
ExitForgotten(i) ==
    /\ Moves(i, "exit", "lost") /\ Elsewhere
    /\ UNCHANGED <<stdout, outputfile, copy, to, status>>

\* exit, not _exit: stdio writes out what the child has of the caller's text.
Exit(i) ==
    /\ Moves(i, "exit", "zombie") /\ status' = [status EXCEPT ![i] = "1"]
    /\ Puts(i, copy[i]) /\ Elsewhere /\ UNCHANGED <<copy, to>>

Command(i) ==
    /\ Moves(i, "run", "ran") /\ Puts(i, <<Text(i, 1)>>)
    /\ Elsewhere /\ UNCHANGED <<copy, to, status>>

CommandEnds(i) ==
    /\ Moves(i, "ran", "zombie") /\ \E s \in {"0", "1"} : status' = [status EXCEPT ![i] = s]
    /\ Elsewhere /\ UNCHANGED <<stdout, outputfile, copy, to>>

Killed(i) ==
    /\ "kill" \in Faults /\ child[i] \notin {"none", "zombie", "reaped"}
    /\ Moves(i, child[i], "zombie") /\ status' = [status EXCEPT ![i] = "killed"]
    /\ Elsewhere /\ UNCHANGED <<stdout, outputfile, copy, to>>

Child(i) == \/ Open(i) \/ OpenFails(i) \/ Dup2(i) \/ Dup2Fails(i) \/ Exec(i) \/ ExecFails(i)
            \/ Exit(i) \/ Command(i) \/ CommandEnds(i)

Next == \/ Printf \/ Flush \/ DoSystem \/ ForkFails \/ Wait \/ WaitInterrupted
        \/ \E r \in BOOLEAN : Fork(r)
        \/ \E i \in Calls : Child(i) \/ Killed(i)

Spec == Init /\ [][Next]_vars

\* Both processes keep running, and commands end.
FairSpec == Spec /\ WF_vars(Wait) /\ \A i \in Calls : WF_vars(Child(i))

-----------------------------------------------------------------------------
Texts == [by : 0 .. MaxCalls, no : 1 .. MaxPrints + 1]

Places == {"none", "open", "dup2", "exec", "exit", "run", "ran", "zombie", "reaped"}

TypeOK ==
    /\ calls \in 0 .. MaxCalls /\ printed \in 0 .. MaxPrints
    /\ caller \in {"free", "wait"} /\ result \in [Calls -> {"none", "true", "false"}]
    /\ text \in Seq(Texts) /\ stdout \in Seq(Texts) /\ outputfile \in [Calls -> Seq(Texts)]
    /\ child \in [Calls -> Places] /\ copy \in [Calls -> Seq(Texts)]
    /\ to \in [Calls -> {"stdout", "file"}]
    /\ status \in [Calls -> {"none", "0", "1", "killed"}]
    /\ interrupted \subseteq Calls

Forked == {i \in Calls : child[i] # "none"}

\* The command of call i has written what it writes.
Ran(i) == \E k \in 1 .. Len(stdout \o outputfile[i]) : (stdout \o outputfile[i])[k] = Text(i, 1)

\* A call is true exactly if its command was run, to its end and with success,
\* and what it wrote is then all there is in the output file.  Only a wait that
\* was interrupted is wrong about it.
TrueMeansDone ==
    \A i \in Forked \ interrupted :
        result[i] # "none" =>
            /\ result[i] = "true" <=> status[i] = "0" /\ Ran(i)
            /\ result[i] = "true" /\ to[i] = "file" => outputfile[i] = <<Text(i, 1)>>

\* The texts of the caller among those of s are the first n, once each and in
\* order.
InOrder(s, n) ==
    /\ \A no \in 1 .. n : \E k \in 1 .. Len(s) : s[k] = Text(0, no)
    /\ \A k \in 1 .. Len(s) :
          s[k].by = 0 => s[k].no <= n /\ \A j \in 1 .. k - 1 : s[j].by = 0 => s[j].no < s[k].no

\* What the caller printed comes out once, in order and nowhere else, however
\* many copies fork made of it, as long as no call was false.  A call that was
\* may have left a copy, and in the output file at that.
CallerTextOnce ==
    caller = "free" /\ (\A i \in Calls : result[i] # "false") => InOrder(stdout \o text, printed)

\* Nobody is left that runs, waits to be reaped or holds the output file when a
\* call has returned, unless its wait was interrupted.
NobodyLeft ==
    \A i \in Calls \ interrupted : result[i] # "none" => child[i] \in {"none", "reaped"}

\* A call returns, wherever its child failed.
CallsReturn == caller = "wait" ~> caller = "free"
=============================================================================
