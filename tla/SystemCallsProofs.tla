------------------------- MODULE SystemCallsProofs --------------------------
(* Theorems about the three ways to run a command, for any number of calls   *)
(* and of printed texts, and whatever fails.                                 *)
EXTENDS SystemCalls, SequenceTheorems, TLAPS

\* What is known of a call from the time it began: who waits for whom, and that
\* an answer tells how the child ended.
CallOK(i) ==
    /\ i > calls => child[i] = "none" /\ result[i] = "none"
    /\ i <= calls /\ result[i] = "none" => i = calls /\ caller = "wait"
    /\ i = calls /\ caller = "wait" =>
          result[i] = "none" /\ child[i] \notin {"none", "reaped"} /\ i \notin interrupted
    /\ i \in interrupted => result[i] = "false"
    /\ i \notin interrupted /\ result[i] # "none" =>
          /\ child[i] \in {"none", "reaped"}
          /\ child[i] = "reaped" => (result[i] = "true" <=> status[i] = "0")

WaitOK == caller = "wait" => calls \in Calls

Wrote(i) == \/ \E k \in 1 .. Len(stdout) : stdout[k] = Text(i, 1)
            \/ \E k \in 1 .. Len(outputfile[i]) : outputfile[i][k] = Text(i, 1)

\* Where a child is tells what it has written, and where to.
ChildOK(i) ==
    /\ status[i] # "none" <=> child[i] \in {"zombie", "reaped"}
    /\ child[i] \in {"none", "open", "dup2"} => to[i] = "stdout"
    /\ child[i] \in {"none", "open", "dup2", "exec", "exit", "run"} => outputfile[i] = << >>
    /\ child[i] = "ran" \/ status[i] = "0" =>
          /\ Wrote(i)
          /\ to[i] = "file" => outputfile[i] = <<Text(i, 1)>>

\* What stdio holds are the last texts printed.
TextOK ==
    /\ Len(text) <= printed
    /\ \A k \in 1 .. Len(text) : text[k] = Text(0, printed - Len(text) + k)

\* No child has called exit, and no call was false.
Clean == \A i \in Calls : result[i] # "false" /\ status[i] # "1"

\* The texts before those are in stdout.
StdoutOK == Clean => InOrder(stdout, printed - Len(text))

CallsInv == /\ TypeOK /\ WaitOK /\ TextOK /\ StdoutOK
            /\ \A i \in Calls : CallOK(i) /\ ChildOK(i)

-----------------------------------------------------------------------------
\* The kinds of steps.
ByCaller == Printf \/ Flush \/ DoSystem \/ ForkFails \/ Wait \/ WaitInterrupted
            \/ \E r \in BOOLEAN : Fork(r)
ByChild(i) == Child(i) \/ Killed(i)
\* Steps of a child that write nothing.
Silent(i) == Open(i) \/ OpenFails(i) \/ Dup2(i) \/ Dup2Fails(i) \/ Exec(i) \/ ExecFails(i)
             \/ CommandEnds(i) \/ Killed(i)

LEMMA NextKinds ==
  ASSUME [Next]_vars
  PROVE  ByCaller \/ (\E i \in Calls : Silent(i) \/ Exit(i) \/ Command(i)) \/ UNCHANGED vars
  BY DEF Next, ByCaller, Silent, Child

LEMMA TextTyped ==
  /\ \A i \in Calls : Text(i, 1) \in Texts /\ Text(i, 1).by # 0
  /\ \A no \in 1 .. MaxPrints : Text(0, no) \in Texts
<1>1. MaxCalls \in Nat /\ MaxPrints \in Nat
  BY SystemCallsAssumption
<1>2. ASSUME NEW i \in Calls PROVE Text(i, 1) \in Texts /\ Text(i, 1).by # 0
  <2>1. i \in 0 .. MaxCalls /\ 1 \in 1 .. MaxPrints + 1 /\ i # 0
    BY <1>1 DEF Calls
  <2> QED
    BY <2>1 DEF Text, Texts
<1>3. ASSUME NEW no \in 1 .. MaxPrints PROVE Text(0, no) \in Texts
  <2>1. 0 \in 0 .. MaxCalls /\ no \in 1 .. MaxPrints + 1
    BY <1>1
  <2> QED
    BY <2>1 DEF Text, Texts
<1> QED
  BY <1>2, <1>3

LEMMA ChildFrame ==
  ASSUME NEW i \in Calls, Silent(i) \/ Exit(i) \/ Command(i)
  PROVE  UNCHANGED <<calls, printed, caller, result, text, interrupted>>
  BY DEF Silent, Open, OpenFails, Dup2, Dup2Fails, Exec, ExecFails, CommandEnds, Killed, Exit,
     Command, Elsewhere

LEMMA PutsTyped ==
  ASSUME TypeOK, NEW i \in Calls, NEW s \in Seq(Texts), Puts(i, s)
  PROVE  stdout' \in Seq(Texts) /\ outputfile' \in [Calls -> Seq(Texts)]
<1>1. stdout \in Seq(Texts) /\ outputfile \in [Calls -> Seq(Texts)]
  BY DEF TypeOK
<1>2. stdout \o s \in Seq(Texts) /\ outputfile[i] \o s \in Seq(Texts)
  BY <1>1, ConcatProperties
<1> DEFINE a == stdout \o s
           b == outputfile[i] \o s
<1>3. stdout' = (IF to[i] = "stdout" THEN a ELSE stdout)
      /\ outputfile' = (IF to[i] = "file" THEN [outputfile EXCEPT ![i] = b] ELSE outputfile)
  BY DEF Puts
<1> HIDE DEF a, b
<1>4. a \in Seq(Texts) /\ b \in Seq(Texts)
  BY <1>2 DEF a, b
<1> QED
  BY <1>1, <1>3, <1>4

LEMMA TypeKeeps ==
  ASSUME CallsInv, [Next]_vars
  PROVE  TypeOK'
<1>1. /\ calls \in 0 .. MaxCalls /\ printed \in 0 .. MaxPrints
      /\ caller \in {"free", "wait"} /\ result \in [Calls -> {"none", "true", "false"}]
      /\ text \in Seq(Texts) /\ stdout \in Seq(Texts) /\ outputfile \in [Calls -> Seq(Texts)]
      /\ child \in [Calls -> Places] /\ copy \in [Calls -> Seq(Texts)]
      /\ to \in [Calls -> {"stdout", "file"}]
      /\ status \in [Calls -> {"none", "0", "1", "killed"}]
      /\ interrupted \subseteq Calls
      /\ MaxCalls \in Nat /\ MaxPrints \in Nat
  BY SystemCallsAssumption DEF CallsInv, TypeOK
<1>2. CASE UNCHANGED vars
  BY <1>1, <1>2 DEF vars, output, childs, TypeOK
<1>3. CASE Printf
  <2>1. printed' = printed + 1 /\ printed' \in 1 .. MaxPrints
    BY <1>1, <1>3 DEF Printf
  <2>2. text' = Append(text, Text(0, printed + 1)) /\ Text(0, printed + 1) \in Texts
    BY <1>3, <2>1, TextTyped DEF Printf
  <2>3. text' \in Seq(Texts)
    BY <1>1, <2>2
  <2>4. UNCHANGED <<calls, caller, result, stdout, outputfile, child, copy, to, status, interrupted>>
    BY <1>3 DEF Printf, childs
  <2> QED
    BY <1>1, <2>1, <2>3, <2>4 DEF TypeOK
<1>4. CASE Flush
  <2>1. stdout' \in Seq(Texts)
    BY <1>1, <1>4, ConcatProperties DEF Flush
  <2>2. text' \in Seq(Texts)
    BY <1>4, EmptySeq DEF Flush
  <2>3. UNCHANGED <<calls, printed, caller, result, outputfile, child, copy, to, status, interrupted>>
    BY <1>4 DEF Flush, childs
  <2> QED
    BY <1>1, <2>1, <2>2, <2>3 DEF TypeOK
<1>5. CASE DoSystem \/ ForkFails
  <2>1. /\ calls' \in Calls /\ \E r \in {"true", "false"} : result' = [result EXCEPT ![calls'] = r]
        /\ UNCHANGED <<printed, caller, text, outputfile, child, copy, to, status, interrupted>>
        /\ stdout' = stdout \/ stdout' = Append(stdout, Text(calls', 1))
    BY <1>1, <1>5 DEF DoSystem, ForkFails, Begin, Calls, Answer, output, childs
  <2>2. stdout' \in Seq(Texts)
    <3> DEFINE t == Text(calls', 1)
    <3>1. t \in Texts /\ (stdout' = stdout \/ stdout' = Append(stdout, t))
      BY <2>1, TextTyped
    <3> HIDE DEF t
    <3>2. Append(stdout, t) \in Seq(Texts)
      BY <1>1, <3>1, AppendProperties
    <3> QED
      BY <1>1, <3>1, <3>2
  <2>3. calls' \in 0 .. MaxCalls
    BY <2>1 DEF Calls
  <2>4. result' \in [Calls -> {"none", "true", "false"}]
    BY <1>1, <2>1
  <2> QED
    BY <1>1, <2>1, <2>2, <2>3, <2>4 DEF TypeOK
<1>6. ASSUME NEW r \in BOOLEAN, Fork(r) PROVE TypeOK'
  <2>1. /\ calls' \in Calls /\ caller' = "wait" /\ copy' = [copy EXCEPT ![calls'] = text]
        /\ child' = [child EXCEPT ![calls'] = IF r THEN "open" ELSE "exec"]
        /\ UNCHANGED <<printed, result, text, stdout, outputfile, to, status, interrupted>>
    BY <1>1, <1>6 DEF Fork, Begin, Calls, output
  <2>2. child' \in [Calls -> Places]
    BY <1>1, <2>1 DEF Places
  <2>3. copy' \in [Calls -> Seq(Texts)]
    BY <1>1, <2>1
  <2>4. calls' \in 0 .. MaxCalls
    BY <2>1 DEF Calls
  <2> QED
    BY <1>1, <2>1, <2>2, <2>3, <2>4 DEF TypeOK
<1>7. CASE Wait \/ WaitInterrupted
  <2>1. /\ caller' = "free" /\ caller = "wait" /\ \E r \in {"true", "false"} : result' = [result EXCEPT ![calls] = r]
        /\ child' = child \/ child' = [child EXCEPT ![calls] = "reaped"]
        /\ interrupted' = interrupted \/ interrupted' = interrupted \cup {calls}
        /\ UNCHANGED <<calls, printed, text, stdout, outputfile, copy, to, status>>
    BY <1>7 DEF Wait, WaitInterrupted, Returns, Answer, output
  <2>2. calls \in Calls
    BY <2>1 DEF CallsInv, WaitOK
  <2>3. child' \in [Calls -> Places]
    BY <1>1, <2>1 DEF Places
  <2>4. result' \in [Calls -> {"none", "true", "false"}]
    BY <1>1, <2>1
  <2> QED
    BY <1>1, <2>1, <2>2, <2>3, <2>4 DEF TypeOK
<1>8. ASSUME NEW i \in Calls, Silent(i) \/ Exit(i) \/ Command(i) PROVE TypeOK'
  <2>1. UNCHANGED <<calls, printed, caller, result, text, interrupted>>
    BY <1>8, ChildFrame
  <2>2. child' \in [Calls -> Places]
    BY <1>1, <1>8 DEF Silent, Open, OpenFails, Dup2, Dup2Fails, Exec, ExecFails, CommandEnds,
       Killed, Exit, Command, Moves, Places
  <2>3. to' \in [Calls -> {"stdout", "file"}]
    BY <1>1, <1>8 DEF Silent, Open, OpenFails, Dup2, Dup2Fails, Exec, ExecFails, CommandEnds,
       Killed, Exit, Command
  <2>4. status' \in [Calls -> {"none", "0", "1", "killed"}]
    BY <1>1, <1>8 DEF Silent, Open, OpenFails, Dup2, Dup2Fails, Exec, ExecFails, CommandEnds,
       Killed, Exit, Command
  <2>5. copy' \in [Calls -> Seq(Texts)]
    <3>1. << >> \in Seq(Texts)
      BY EmptySeq
    <3> QED
      BY <1>1, <1>8, <3>1 DEF Silent, Open, OpenFails, Dup2, Dup2Fails, Exec, ExecFails, CommandEnds,
         Killed, Exit, Command
  <2>6. stdout' \in Seq(Texts) /\ outputfile' \in [Calls -> Seq(Texts)]
    <3>1. TypeOK
      BY DEF CallsInv
    <3>2. CASE Silent(i)
      BY <1>1, <3>2 DEF Silent, Open, OpenFails, Dup2, Dup2Fails, Exec, ExecFails, CommandEnds, Killed
    <3>3. CASE Exit(i)
      BY <1>1, <3>1, <3>3, PutsTyped DEF Exit
    <3>4. CASE Command(i)
      <4>1. <<Text(i, 1)>> \in Seq(Texts)
        BY TextTyped
      <4> QED
        BY <3>1, <3>4, <4>1, PutsTyped DEF Command
    <3> QED
      BY <1>8, <3>2, <3>3, <3>4
  <2> QED
    BY <1>1, <2>1, <2>2, <2>3, <2>4, <2>5, <2>6 DEF TypeOK
<1> QED
  BY <1>2, <1>3, <1>4, <1>5, <1>6, <1>7, <1>8, NextKinds DEF ByCaller

LEMMA PutsAt ==
  ASSUME TypeOK, NEW i \in Calls, NEW s \in Seq(Texts), Puts(i, s)
  PROVE  /\ to[i] = "stdout" => stdout' = stdout \o s /\ outputfile' = outputfile
         /\ to[i] = "file" => stdout' = stdout /\ outputfile'[i] = outputfile[i] \o s
         /\ \A j \in Calls \ {i} : outputfile'[j] = outputfile[j]
  BY DEF Puts, TypeOK

LEMMA Extends ==
  ASSUME NEW s \in Seq(Texts), NEW t \in Seq(Texts), NEW k \in 1 .. Len(s)
  PROVE  k \in 1 .. Len(s \o t) /\ (s \o t)[k] = s[k]
<1>1. Len(s) \in Nat /\ Len(t) \in Nat
  OBVIOUS
<1>2. /\ Len(s \o t) = Len(s) + Len(t)
      /\ \A j \in 1 .. Len(s) + Len(t) : (s \o t)[j] = IF j <= Len(s) THEN s[j] ELSE t[j - Len(s)]
  BY ConcatProperties
<1> DEFINE u == s \o t
<1> HIDE DEF u
<1>3. Len(u) = Len(s) + Len(t)
      /\ \A j \in 1 .. Len(s) + Len(t) : u[j] = IF j <= Len(s) THEN s[j] ELSE t[j - Len(s)]
  BY <1>2 DEF u
<1>4. k \in 1 .. Len(u) /\ u[k] = s[k]
  BY <1>1, <1>3
<1> QED
  BY <1>4 DEF u

\* What is written stays written, in stdout and in the output files.
LEMMA Written ==
  ASSUME CallsInv, [Next]_vars, NEW i \in Calls
  PROVE  /\ \E s \in Seq(Texts) : stdout' = stdout \o s
         /\ \E s \in Seq(Texts) : outputfile'[i] = outputfile[i] \o s
<1>1. /\ TypeOK /\ text \in Seq(Texts) /\ stdout \in Seq(Texts) /\ outputfile[i] \in Seq(Texts)
      /\ << >> \in Seq(Texts) /\ \A j \in Calls : copy[j] \in Seq(Texts) /\ to[j] \in {"stdout", "file"}
  BY EmptySeq DEF CallsInv, TypeOK
<1>2. stdout \o << >> = stdout /\ outputfile[i] \o << >> = outputfile[i]
  BY <1>1, ConcatEmptySeq
<1>3. CASE UNCHANGED <<stdout, outputfile>>
  BY <1>1, <1>2, <1>3
<1>4. CASE Printf \/ ForkFails \/ Wait \/ WaitInterrupted \/ \E r \in BOOLEAN : Fork(r)
  BY <1>3, <1>4 DEF Printf, ForkFails, Wait, WaitInterrupted, Returns, Fork, output
<1>5. CASE Flush
  BY <1>1, <1>2, <1>5 DEF Flush
<1>6. CASE DoSystem
  <2>1. outputfile' = outputfile /\ (stdout' = stdout \/ stdout' = Append(stdout, Text(calls', 1)))
        /\ calls < MaxCalls /\ calls' = calls + 1
    BY <1>6 DEF DoSystem, Begin
  <2>5. calls' \in Calls
    BY <2>1, SystemCallsAssumption DEF Calls, CallsInv, TypeOK
  <2> DEFINE t == Text(calls', 1)
  <2>2. t \in Texts
    BY <2>5, TextTyped
  <2>3. stdout' = stdout \/ stdout' = Append(stdout, t)
    BY <2>1
  <2> HIDE DEF t
  <2>4. <<t>> \in Seq(Texts) /\ Append(stdout, t) = stdout \o <<t>>
    BY <1>1, <2>2
  <2> QED
    BY <1>1, <1>2, <2>1, <2>3, <2>4
<1>7. ASSUME NEW j \in Calls, Silent(j) PROVE UNCHANGED <<stdout, outputfile>>
  BY <1>7 DEF Silent, Open, OpenFails, Dup2, Dup2Fails, Exec, ExecFails, CommandEnds, Killed
<1>8. ASSUME NEW j \in Calls, NEW s \in Seq(Texts), Puts(j, s)
      PROVE  /\ \E t \in Seq(Texts) : stdout' = stdout \o t
             /\ \E t \in Seq(Texts) : outputfile'[i] = outputfile[i] \o t
  BY <1>1, <1>2, <1>8, PutsAt
<1>9. ASSUME NEW j \in Calls, Exit(j) \/ Command(j)
      PROVE  \E s \in Seq(Texts) : Puts(j, s)
  <2>1. <<Text(j, 1)>> \in Seq(Texts)
    BY TextTyped
  <2> QED
    BY <1>1, <1>9, <2>1 DEF Exit, Command
<1>10. CASE UNCHANGED vars
  BY <1>3, <1>10 DEF vars, output
<1> QED
  BY <1>3, <1>4, <1>5, <1>6, <1>7, <1>8, <1>9, <1>10, NextKinds DEF ByCaller

LEMMA WroteKeeps ==
  ASSUME CallsInv, [Next]_vars, NEW i \in Calls, Wrote(i)
  PROVE  Wrote(i)'
<1>1. stdout \in Seq(Texts) /\ outputfile[i] \in Seq(Texts)
  BY DEF CallsInv, TypeOK
<1>2. PICK s \in Seq(Texts) : stdout' = stdout \o s
  BY Written
<1>3. PICK t \in Seq(Texts) : outputfile'[i] = outputfile[i] \o t
  BY Written
<1>4. ASSUME NEW k \in 1 .. Len(stdout), stdout[k] = Text(i, 1) PROVE Wrote(i)'
  BY <1>1, <1>2, <1>4, Extends DEF Wrote
<1>5. ASSUME NEW k \in 1 .. Len(outputfile[i]), outputfile[i][k] = Text(i, 1) PROVE Wrote(i)'
  BY <1>1, <1>3, <1>5, Extends DEF Wrote
<1> QED
  BY <1>4, <1>5 DEF Wrote

LEMMA CommandWrites ==
  ASSUME CallsInv, NEW i \in Calls, Command(i)
  PROVE  Wrote(i)' /\ (to[i] = "file" => outputfile'[i] = <<Text(i, 1)>>)
<1> DEFINE t == Text(i, 1)
<1>1. TypeOK /\ stdout \in Seq(Texts) /\ to[i] \in {"stdout", "file"} /\ t \in Texts
  BY TextTyped DEF CallsInv, TypeOK
<1>2. child[i] = "run" /\ Puts(i, <<t>>)
  BY DEF Command, Moves
<1>3. outputfile[i] = << >>
  BY <1>2 DEF CallsInv, ChildOK
<1> HIDE DEF t
<1>4. <<t>> \in Seq(Texts) /\ Len(<<t>>) = 1 /\ <<t>>[1] = t
  BY <1>1
<1>5. << >> \o <<t>> = <<t>>
  BY <1>4, ConcatEmptySeq
<1>6. CASE to[i] = "file"
  <2>1. outputfile'[i] = <<t>>
    BY <1>1, <1>2, <1>3, <1>4, <1>5, <1>6, PutsAt
  <2>2. 1 \in 1 .. Len(outputfile'[i]) /\ outputfile'[i][1] = t
    BY <1>4, <2>1
  <2> QED
    BY <2>1, <2>2 DEF Wrote, t
<1>7. CASE to[i] = "stdout"
  <2>1. stdout' = stdout \o <<t>>
    BY <1>1, <1>2, <1>4, <1>7, PutsAt
  <2>2. stdout \o <<t>> = Append(stdout, t)
    BY <1>1
  <2>3. Len(stdout') = Len(stdout) + 1 /\ stdout'[Len(stdout) + 1] = t /\ Len(stdout) \in Nat
    BY <1>1, <2>1, <2>2, AppendProperties
  <2> QED
    BY <1>7, <2>3 DEF Wrote, t
<1> QED
  BY <1>1, <1>6, <1>7

LEMMA ChildKeeps ==
  ASSUME CallsInv, [Next]_vars, NEW i \in Calls
  PROVE  ChildOK(i)'
<1>1. /\ TypeOK /\ ChildOK(i) /\ CallOK(i) /\ WaitOK /\ child \in [Calls -> Places]
      /\ status \in [Calls -> {"none", "0", "1", "killed"}] /\ to \in [Calls -> {"stdout", "file"}]
      /\ outputfile \in [Calls -> Seq(Texts)]
  BY DEF CallsInv, TypeOK
<1>2. CASE UNCHANGED <<child[i], status[i], to[i], outputfile[i]>>
  BY <1>1, <1>2, WroteKeeps DEF ChildOK
<1>3. CASE Printf \/ Flush \/ DoSystem \/ ForkFails \/ UNCHANGED vars
  BY <1>2, <1>3 DEF Printf, Flush, DoSystem, ForkFails, vars, childs, output
<1>4. ASSUME NEW r \in BOOLEAN, Fork(r) PROVE ChildOK(i)'
  <2>1. /\ child' = [child EXCEPT ![calls'] = IF r THEN "open" ELSE "exec"] /\ calls' = calls + 1
        /\ UNCHANGED <<outputfile, to, status>>
    BY <1>4 DEF Fork, Begin, output
  <2>2. CASE i # calls'
    BY <1>1, <1>2, <2>1, <2>2
  <2>3. CASE i = calls'
    <3>1. child[i] = "none"
      BY <1>1, <2>1, <2>3 DEF CallOK, CallsInv, TypeOK
    <3>2. child'[i] \in {"open", "exec"}
      BY <1>1, <2>1, <2>3
    <3> QED
      BY <1>1, <2>1, <3>1, <3>2 DEF ChildOK
  <2> QED
    BY <2>2, <2>3
<1>5. CASE Wait \/ WaitInterrupted
  <2>1. /\ UNCHANGED <<outputfile, to, status>>
        /\ child' = child \/ (child[calls] = "zombie" /\ child' = [child EXCEPT ![calls] = "reaped"])
    BY <1>5 DEF Wait, WaitInterrupted, Returns, output
  <2>2. CASE child'[i] = child[i]
    BY <1>2, <2>1, <2>2
  <2>3. CASE child[i] = "zombie" /\ child'[i] = "reaped"
    BY <1>1, <2>1, <2>3, WroteKeeps DEF ChildOK
  <2> QED
    BY <1>1, <2>1, <2>2, <2>3
<1>6. ASSUME NEW j \in Calls, Silent(j) \/ Exit(j) \/ Command(j), i # j PROVE ChildOK(i)'
  <2>1. /\ \E l : child' = [child EXCEPT ![j] = l]
        /\ status' = status \/ \E l : status' = [status EXCEPT ![j] = l]
        /\ to' = to \/ \E l : to' = [to EXCEPT ![j] = l]
    BY <1>6 DEF Silent, Open, OpenFails, Dup2, Dup2Fails, Exec, ExecFails, CommandEnds, Killed,
       Exit, Command, Moves
  <2>2. outputfile'[i] = outputfile[i]
    BY <1>1, <1>6 DEF Silent, Open, OpenFails, Dup2, Dup2Fails, Exec, ExecFails, CommandEnds, Killed,
       Exit, Command, Puts
  <2> QED
    BY <1>1, <1>2, <1>6, <2>1, <2>2
<1>7. ASSUME Silent(i) PROVE ChildOK(i)'
  <2>1. outputfile' = outputfile
    BY <1>7 DEF Silent, Open, OpenFails, Dup2, Dup2Fails, Exec, ExecFails, CommandEnds, Killed
  <2>2. CASE Open(i) \/ OpenFails(i) \/ Dup2(i) \/ Dup2Fails(i) \/ Exec(i) \/ ExecFails(i)
    <3>1. /\ child[i] \in {"open", "dup2", "exec"} /\ child'[i] \in {"dup2", "exec", "run", "exit"}
          /\ status' = status /\ (child'[i] = "dup2" => to' = to /\ child[i] = "open")
      BY <1>1, <2>2 DEF Open, OpenFails, Dup2, Dup2Fails, Exec, ExecFails, Moves
    <3> QED
      BY <1>1, <2>1, <3>1 DEF ChildOK
  <2>3. CASE CommandEnds(i) \/ Killed(i)
    <3>1. /\ child'[i] = "zombie" /\ to' = to
          /\ \/ child[i] = "ran" /\ status'[i] \in {"0", "1"}
             \/ status'[i] = "killed"
      BY <1>1, <2>3 DEF CommandEnds, Killed, Moves
    <3> QED
      BY <1>1, <2>1, <3>1, WroteKeeps DEF ChildOK
  <2> QED
    BY <1>7, <2>2, <2>3 DEF Silent
<1>8. ASSUME Exit(i) PROVE ChildOK(i)'
  <2>1. child'[i] = "zombie" /\ status'[i] = "1"
    BY <1>1, <1>8 DEF Exit, Moves
  <2> QED
    BY <2>1 DEF ChildOK
<1>9. ASSUME Command(i) PROVE ChildOK(i)'
  <2>1. child[i] = "run" /\ child'[i] = "ran" /\ UNCHANGED <<to, status>>
    BY <1>1, <1>9 DEF Command, Moves
  <2> QED
    BY <1>1, <1>9, <2>1, CommandWrites DEF ChildOK
<1> QED
  BY <1>3, <1>4, <1>5, <1>6, <1>7, <1>8, <1>9, NextKinds DEF ByCaller

LEMMA CallKeeps ==
  ASSUME CallsInv, [Next]_vars
  PROVE  WaitOK' /\ \A i \in Calls : CallOK(i)'
<1>1. /\ WaitOK /\ \A i \in Calls : CallOK(i) /\ ChildOK(i)
      /\ calls \in Nat /\ MaxCalls \in Nat /\ Calls \subseteq Nat /\ caller \in {"free", "wait"}
      /\ child \in [Calls -> Places] /\ result \in [Calls -> {"none", "true", "false"}]
      /\ status \in [Calls -> {"none", "0", "1", "killed"}] /\ interrupted \subseteq Calls
  BY SystemCallsAssumption DEF CallsInv, TypeOK, Calls
<1>2. CASE Printf \/ Flush \/ UNCHANGED vars
  <2>1. UNCHANGED <<calls, caller, result, child, status, interrupted>>
    BY <1>2 DEF Printf, Flush, vars, childs
  <2> QED
    BY <1>1, <2>1 DEF WaitOK, CallOK
<1>3. CASE DoSystem \/ ForkFails
  <2>1. /\ caller = "free" /\ calls' = calls + 1 /\ calls' \in Calls
        /\ \E r \in {"true", "false"} : result' = [result EXCEPT ![calls'] = r]
        /\ UNCHANGED <<caller, child, status, interrupted>>
    BY <1>1, <1>3 DEF DoSystem, ForkFails, Begin, Calls, Answer, childs
  <2>2. WaitOK'
    BY <2>1 DEF WaitOK
  <2>3. ASSUME NEW i \in Calls PROVE CallOK(i)'
    <3>1. CASE i = calls'
      <4>1. i > calls /\ child[i] = "none" /\ result[i] = "none" /\ result'[i] \in {"true", "false"}
        BY <1>1, <2>1, <3>1 DEF CallOK
      <4>2. i \notin interrupted
        BY <1>1, <4>1 DEF CallOK
      <4> QED
        BY <1>1, <2>1, <3>1, <4>1, <4>2 DEF CallOK
    <3>2. CASE i # calls'
      <4>1. result'[i] = result[i] /\ i \in Nat /\ (i > calls' => i > calls) /\ (i <= calls' => i <= calls)
        BY <1>1, <2>1, <3>2
      <4> QED
        BY <1>1, <2>1, <3>2, <4>1 DEF CallOK
    <3> QED
      BY <3>1, <3>2
  <2> QED
    BY <2>2, <2>3
<1>4. ASSUME NEW r \in BOOLEAN, Fork(r) PROVE WaitOK' /\ \A i \in Calls : CallOK(i)'
  <2>1. /\ caller = "free" /\ caller' = "wait" /\ calls' = calls + 1 /\ calls' \in Calls
        /\ \E l \in {"open", "exec"} : child' = [child EXCEPT ![calls'] = l]
        /\ UNCHANGED <<result, status, interrupted>>
    <3>1. (IF r THEN "open" ELSE "exec") \in {"open", "exec"}
      OBVIOUS
    <3>2. calls' = calls + 1 /\ calls' \in Calls
      BY <1>1, <1>4 DEF Fork, Begin, Calls
    <3> QED
      BY <1>4, <3>1, <3>2 DEF Fork, Begin
  <2>2. WaitOK'
    BY <2>1 DEF WaitOK
  <2>3. ASSUME NEW i \in Calls PROVE CallOK(i)'
    <3>1. CASE i = calls'
      <4>1. i > calls /\ result[i] = "none" /\ child'[i] \in {"open", "exec"}
        BY <1>1, <2>1, <3>1 DEF CallOK
      <4>2. i \notin interrupted
        BY <1>1, <4>1 DEF CallOK
      <4> QED
        BY <1>1, <2>1, <3>1, <4>1, <4>2 DEF CallOK
    <3>2. CASE i # calls'
      <4>1. child'[i] = child[i] /\ i \in Nat /\ (i > calls' => i > calls) /\ (i <= calls' => i <= calls)
        BY <1>1, <2>1, <3>2
      <4> QED
        BY <1>1, <2>1, <3>2, <4>1 DEF CallOK
    <3> QED
      BY <3>1, <3>2
  <2> QED
    BY <2>2, <2>3
<1>5. CASE Wait \/ WaitInterrupted
  <2>1. /\ caller = "wait" /\ caller' = "free" /\ calls \in Calls /\ UNCHANGED <<calls, status>>
        /\ \/ /\ result' = [result EXCEPT ![calls] = IF status[calls] = "0" THEN "true" ELSE "false"]
              /\ child' = [child EXCEPT ![calls] = "reaped"] /\ interrupted' = interrupted
           \/ /\ result' = [result EXCEPT ![calls] = "false"]
              /\ child' = child /\ interrupted' = interrupted \cup {calls}
    BY <1>1, <1>5 DEF Wait, WaitInterrupted, Returns, Answer, WaitOK
  <2>2. WaitOK'
    BY <2>1 DEF WaitOK
  <2>3. ASSUME NEW i \in Calls PROVE CallOK(i)'
    <3>1. CASE i = calls
      BY <1>1, <2>1, <3>1 DEF CallOK
    <3>2. CASE i # calls
      BY <1>1, <2>1, <3>2 DEF CallOK
    <3> QED
      BY <3>1, <3>2
  <2> QED
    BY <2>2, <2>3
<1>6. ASSUME NEW j \in Calls, Silent(j) \/ Exit(j) \/ Command(j) PROVE WaitOK' /\ \A i \in Calls : CallOK(i)'
  <2>1. UNCHANGED <<calls, caller, result, interrupted>>
    BY <1>6, ChildFrame
  <2>2. /\ \A i \in Calls \ {j} : child'[i] = child[i] /\ status'[i] = status[i]
        /\ child[j] \notin {"none", "zombie", "reaped"} /\ child'[j] \notin {"none", "reaped"}
    BY <1>1, <1>6 DEF Silent, Open, OpenFails, Dup2, Dup2Fails, Exec, ExecFails, CommandEnds,
       Killed, Exit, Command, Moves
  <2>3. WaitOK'
    BY <1>1, <2>1 DEF WaitOK
  <2>4. ASSUME NEW i \in Calls PROVE CallOK(i)'
    <3>1. CASE i = j
      BY <1>1, <2>1, <2>2, <3>1 DEF CallOK
    <3>2. CASE i # j
      BY <1>1, <2>1, <2>2, <3>2 DEF CallOK
    <3> QED
      BY <3>1, <3>2
  <2> QED
    BY <2>3, <2>4
<1> QED
  BY <1>2, <1>3, <1>4, <1>5, <1>6, NextKinds DEF ByCaller

-----------------------------------------------------------------------------
\* What another writes does not count.
LEMMA AnothersText ==
  ASSUME NEW s \in Seq(Texts), NEW n \in Nat, NEW t \in Texts, t.by # 0, InOrder(s, n)
  PROVE  InOrder(Append(s, t), n)
<1> DEFINE u == Append(s, t)
           l == Len(s)
<1>1. l \in Nat /\ Len(u) = l + 1 /\ u[l + 1] = t /\ \A k \in 1 .. l : u[k] = s[k]
  BY AppendProperties
<1>2. \A no \in 1 .. n : \E k \in 1 .. l : s[k] = Text(0, no)
  BY DEF InOrder
<1>3. \A k \in 1 .. l :
          s[k].by = 0 => s[k].no <= n /\ \A j \in 1 .. k - 1 : s[j].by = 0 => s[j].no < s[k].no
  BY DEF InOrder
<1> HIDE DEF u, l
<1>4. ASSUME NEW no \in 1 .. n PROVE \E k \in 1 .. Len(u) : u[k] = Text(0, no)
  <2>1. PICK k \in 1 .. l : s[k] = Text(0, no)
    BY <1>2
  <2>2. k \in 1 .. Len(u) /\ u[k] = s[k]
    BY <1>1
  <2> QED
    BY <2>1, <2>2
<1>5. ASSUME NEW k \in 1 .. Len(u), u[k].by = 0
      PROVE  u[k].no <= n /\ \A j \in 1 .. k - 1 : u[j].by = 0 => u[j].no < u[k].no
  <2>1. k \in 1 .. l
    BY <1>1, <1>5
  <2>2. u[k] = s[k] /\ \A j \in 1 .. k - 1 : j \in 1 .. l /\ u[j] = s[j]
    BY <1>1, <2>1
  <2> QED
    BY <1>3, <1>5, <2>1, <2>2
<1>6. InOrder(u, n)
  BY <1>4, <1>5 DEF InOrder
<1> QED
  BY <1>6 DEF u

\* What stdio writes goes on where stdout ends.
LEMMA CallersTexts ==
  ASSUME NEW s \in Seq(Texts), NEW n \in Nat, NEW t \in Seq(Texts), InOrder(s, n),
         \A k \in 1 .. Len(t) : t[k] = Text(0, n + k)
  PROVE  InOrder(s \o t, n + Len(t))
<1> DEFINE u == s \o t
           l == Len(s)
           m == Len(t)
<1>1. l \in Nat /\ m \in Nat
  OBVIOUS
<1>2. Len(u) = l + m /\ \A k \in 1 .. l + m : u[k] = IF k <= l THEN s[k] ELSE t[k - l]
  BY ConcatProperties
<1>3. \A no \in 1 .. n : \E k \in 1 .. l : s[k] = Text(0, no)
  BY DEF InOrder
<1>4. \A k \in 1 .. l :
          s[k].by = 0 => s[k].no <= n /\ \A j \in 1 .. k - 1 : s[j].by = 0 => s[j].no < s[k].no
  BY DEF InOrder
<1>5. \A k \in 1 .. m : t[k] = Text(0, n + k)
  OBVIOUS
<1>6. \A k \in 1 .. l : s[k].no \in Nat
  <2>1. ASSUME NEW k \in 1 .. l PROVE s[k].no \in Nat
    <3>1. s[k] \in Texts
      OBVIOUS
    <3> QED
      BY <3>1, SystemCallsAssumption DEF Texts
  <2> QED
    BY <2>1
<1> HIDE DEF u, l, m
<1>7. \A k \in 1 .. l : u[k] = s[k] /\ k \in 1 .. l + m
  BY <1>1, <1>2
<1>8. \A k \in 1 .. m : u[l + k] = Text(0, n + k) /\ l + k \in 1 .. l + m
  <2>1. ASSUME NEW k \in 1 .. m PROVE u[l + k] = Text(0, n + k) /\ l + k \in 1 .. l + m
    <3>1. l + k \in 1 .. l + m /\ ~ (l + k <= l) /\ (l + k) - l = k
      BY <1>1
    <3>2. u[l + k] = t[(l + k) - l]
      BY <1>2, <3>1
    <3>3. u[l + k] = t[k] /\ t[k] = Text(0, n + k)
      BY <1>5, <3>1, <3>2
    <3> QED
      BY <3>1, <3>3
  <2> QED
    BY <2>1
<1>9. ASSUME NEW k \in 1 .. m PROVE u[l + k].no = n + k
  <2>1. u[l + k] = Text(0, n + k)
    BY <1>8
  <2> QED
    BY <2>1 DEF Text
<1>10. ASSUME NEW no \in 1 .. n + m PROVE \E k \in 1 .. Len(u) : u[k] = Text(0, no)
  <2>1. CASE no \in 1 .. n
    BY <1>2, <1>3, <1>7, <2>1
  <2>2. CASE no > n
    <3>1. no - n \in 1 .. m /\ n + (no - n) = no
      BY <1>1, <2>2
    <3> QED
      BY <1>2, <1>8, <3>1
  <2> QED
    BY <2>1, <2>2
<1>11. ASSUME NEW k \in 1 .. Len(u), u[k].by = 0
       PROVE  u[k].no <= n + m /\ \A j \in 1 .. k - 1 : u[j].by = 0 => u[j].no < u[k].no
  <2>1. CASE k <= l
    <3>1. k \in 1 .. l /\ u[k] = s[k] /\ \A j \in 1 .. k - 1 : u[j] = s[j]
      BY <1>1, <1>7, <2>1
    <3>2. u[k].no <= n /\ u[k].no \in Nat
      BY <1>4, <1>6, <1>11, <3>1
    <3>3. u[k].no <= n + m
      BY <1>1, <3>2
    <3> QED
      BY <1>4, <1>11, <3>1, <3>3
  <2>2. CASE k > l
    <3>1. PICK i \in 1 .. m : k = l + i
      <4>1. k - l \in 1 .. m /\ k = l + (k - l)
        BY <1>1, <1>2, <2>2
      <4> QED
        BY <4>1
    <3>2. u[k].no = n + i
      BY <1>9, <3>1
    <3>3. ASSUME NEW j \in 1 .. k - 1, u[j].by = 0 PROVE u[j].no < u[k].no
      <4>1. CASE j <= l
        <5>1. j \in 1 .. l
          BY <1>1, <4>1
        <5>2. u[j].no <= n /\ u[j].no \in Nat
          BY <1>4, <1>6, <1>7, <3>3, <5>1
        <5> QED
          BY <1>1, <3>2, <5>2
      <4>2. CASE j > l
        <5>1. j - l \in 1 .. m /\ l + (j - l) = j /\ j - l < i
          BY <1>1, <3>1, <4>2
        <5>2. u[j].no = n + (j - l)
          BY <1>9, <5>1
        <5> QED
          BY <1>1, <3>2, <5>1, <5>2
      <4> QED
        BY <1>1, <4>1, <4>2
    <3> QED
      BY <1>1, <3>2, <3>3
  <2> QED
    BY <1>1, <1>2, <2>1, <2>2
<1>12. InOrder(u, n + m)
  BY <1>10, <1>11 DEF InOrder
<1> QED
  BY <1>12 DEF u, m

LEMMA TextKeeps ==
  ASSUME CallsInv, [Next]_vars
  PROVE  TextOK'
<1>1. text \in Seq(Texts) /\ printed \in Nat /\ Len(text) \in Nat /\ TextOK
  BY SystemCallsAssumption DEF CallsInv, TypeOK
<1>2. CASE UNCHANGED <<text, printed>>
  BY <1>1, <1>2 DEF TextOK
<1>3. CASE Printf
  <2> DEFINE t == Text(0, printed + 1)
             l == Len(text)
  <2>1. printed < MaxPrints /\ printed' = printed + 1 /\ text' = Append(text, t)
    BY <1>3 DEF Printf
  <2>2. t \in Texts
    BY <1>1, <2>1, TextTyped, SystemCallsAssumption
  <2>3. l \in Nat /\ l <= printed /\ \A k \in 1 .. l : text[k] = Text(0, printed - l + k)
    BY <1>1 DEF TextOK
  <2>4. Len(text') = l + 1 /\ text'[l + 1] = t /\ \A k \in 1 .. l : text'[k] = text[k]
    BY <1>1, <2>1, <2>2, AppendProperties
  <2>5. t = Text(0, printed + 1)
    OBVIOUS
  <2> HIDE DEF t, l
  <2>6. Len(text') <= printed'
    BY <1>1, <2>1, <2>3, <2>4
  <2>7. ASSUME NEW k \in 1 .. Len(text') PROVE text'[k] = Text(0, printed' - Len(text') + k)
    <3>1. printed' - Len(text') + k = printed - l + k
      BY <1>1, <2>1, <2>3, <2>4
    <3>2. CASE k \in 1 .. l
      BY <2>3, <2>4, <3>1, <3>2
    <3>3. CASE k = l + 1
      <4>1. printed - l + k = printed + 1
        BY <1>1, <2>3, <3>3
      <4> QED
        BY <2>4, <2>5, <3>1, <3>3, <4>1
    <3> QED
      BY <2>3, <2>4, <3>2, <3>3
  <2> QED
    BY <2>6, <2>7 DEF TextOK
<1>4. CASE Flush
  <2>1. text' = << >> /\ printed' = printed
    BY <1>4 DEF Flush
  <2> QED
    BY <1>1, <2>1 DEF TextOK
<1>5. CASE DoSystem \/ ForkFails \/ Wait \/ WaitInterrupted \/ UNCHANGED vars
           \/ \E r \in BOOLEAN : Fork(r)
  BY <1>2, <1>5 DEF DoSystem, ForkFails, Wait, WaitInterrupted, Returns, Fork, output, vars
<1> QED
  BY <1>2, <1>3, <1>4, <1>5, ChildFrame, NextKinds DEF ByCaller

\* An answer and the end of a child stay what they are.
LEMMA CleanBefore ==
  ASSUME CallsInv, [Next]_vars, Clean'
  PROVE  Clean
<1>1. /\ WaitOK /\ \A i \in Calls : CallOK(i) /\ ChildOK(i)
      /\ calls \in Nat /\ MaxCalls \in Nat /\ Calls = 1 .. MaxCalls
      /\ result \in [Calls -> {"none", "true", "false"}]
      /\ status \in [Calls -> {"none", "0", "1", "killed"}]
  BY SystemCallsAssumption DEF CallsInv, TypeOK, Calls
<1>2. ASSUME NEW i \in Calls, result[i] = "false" PROVE result'[i] = "false"
  <2>1. CASE Begin /\ \E r : Answer(calls', r)
    <3>1. calls' = calls + 1 /\ \E r : result' = [result EXCEPT ![calls'] = r]
      BY <2>1 DEF Begin, Answer
    <3>2. i # calls'
      BY <1>1, <1>2, <3>1 DEF CallOK
    <3> QED
      BY <1>1, <1>2, <3>1, <3>2
  <2>2. CASE Wait \/ WaitInterrupted
    <3>1. caller = "wait" /\ \E r : result' = [result EXCEPT ![calls] = r]
      BY <2>2 DEF Wait, WaitInterrupted, Returns, Answer
    <3>2. i # calls
      BY <1>1, <1>2, <3>1 DEF CallOK
    <3> QED
      BY <1>1, <1>2, <3>1, <3>2
  <2>3. CASE result' = result
    BY <1>2, <2>3
  <2>4. CASE Printf \/ Flush \/ UNCHANGED vars \/ \E r \in BOOLEAN : Fork(r)
    BY <2>3, <2>4 DEF Printf, Flush, Fork, vars
  <2>5. CASE DoSystem \/ ForkFails
    BY <2>1, <2>5 DEF DoSystem, ForkFails
  <2> QED
    BY <2>2, <2>3, <2>4, <2>5, ChildFrame, NextKinds DEF ByCaller
<1>3. ASSUME NEW i \in Calls, status[i] = "1" PROVE status'[i] = "1"
  <2>1. child[i] \in {"zombie", "reaped"}
    BY <1>1, <1>3 DEF ChildOK
  <2>2. CASE status' = status
    BY <1>3, <2>2
  <2>3. CASE ByCaller \/ UNCHANGED vars
    BY <2>2, <2>3 DEF ByCaller, Printf, Flush, DoSystem, ForkFails, Fork, Wait, WaitInterrupted,
       Returns, childs, vars
  <2>4. ASSUME NEW j \in Calls, Silent(j) \/ Exit(j) \/ Command(j) PROVE status'[i] = "1"
    <3>1. child[j] \notin {"zombie", "reaped"}
          /\ (status' = status \/ \E l : status' = [status EXCEPT ![j] = l])
      BY <2>4 DEF Silent, Open, OpenFails, Dup2, Dup2Fails, Exec, ExecFails, CommandEnds, Killed,
         Exit, Command, Moves
    <3> QED
      BY <1>1, <1>3, <2>1, <3>1
  <2> QED
    BY <2>3, <2>4, NextKinds
<1>4. ASSUME NEW i \in Calls PROVE result[i] # "false" /\ status[i] # "1"
  BY <1>2, <1>3 DEF Clean
<1> QED
  BY <1>4 DEF Clean

LEMMA StdoutKeeps ==
  ASSUME CallsInv, [Next]_vars
  PROVE  StdoutOK'
<1> SUFFICES ASSUME Clean' PROVE InOrder(stdout, printed - Len(text))'
  BY DEF StdoutOK
<1> DEFINE n == printed - Len(text)
<1>1. /\ TypeOK /\ text \in Seq(Texts) /\ stdout \in Seq(Texts) /\ printed \in Nat
      /\ Len(text) \in Nat /\ Len(text) <= printed
      /\ \A k \in 1 .. Len(text) : text[k] = Text(0, n + k)
      /\ \A i \in Calls : to[i] \in {"stdout", "file"}
  BY SystemCallsAssumption DEF CallsInv, TypeOK, TextOK
<1>2. n \in Nat /\ n + Len(text) = printed
  BY <1>1
<1>3. InOrder(stdout, n)
  BY CleanBefore DEF CallsInv, StdoutOK
<1>4. CASE UNCHANGED <<printed, text, stdout>>
  BY <1>3, <1>4 DEF InOrder
<1>5. CASE Printf
  <2>1. /\ printed' = printed + 1 /\ printed < MaxPrints /\ stdout' = stdout
        /\ text' = Append(text, Text(0, printed + 1))
    BY <1>5 DEF Printf
  <2>2. Text(0, printed + 1) \in Texts
    BY <1>1, <2>1, TextTyped, SystemCallsAssumption
  <2>3. Len(text') = Len(text) + 1
    BY <1>1, <2>1, <2>2, AppendProperties
  <2>4. printed' - Len(text') = n
    BY <1>1, <2>1, <2>3
  <2> QED
    BY <1>3, <2>1, <2>4 DEF InOrder
<1>6. CASE Flush
  <2>1. stdout' = stdout \o text /\ Len(text') = 0 /\ printed' = printed
    BY <1>6 DEF Flush
  <2>2. InOrder(stdout \o text, n + Len(text))
    <3> HIDE DEF n
    <3> QED
      BY <1>1, <1>2, <1>3, CallersTexts
  <2>3. printed' - Len(text') = n + Len(text)
    BY <1>1, <1>2, <2>1
  <2> QED
    BY <2>1, <2>2, <2>3 DEF InOrder
<1>7. ASSUME NEW i \in Calls, stdout' = Append(stdout, Text(i, 1)), UNCHANGED <<printed, text>>
      PROVE  InOrder(stdout, printed - Len(text))'
  <2>1. Text(i, 1) \in Texts /\ Text(i, 1).by # 0
    BY TextTyped
  <2>2. InOrder(Append(stdout, Text(i, 1)), n)
    <3> HIDE DEF n
    <3> QED
      BY <1>1, <1>2, <1>3, <2>1, AnothersText
  <2> QED
    BY <1>7, <2>2 DEF InOrder
<1>8. CASE DoSystem
  <2>1. /\ UNCHANGED <<printed, text>> /\ calls' = calls + 1 /\ calls < MaxCalls
        /\ stdout' = stdout \/ stdout' = Append(stdout, Text(calls', 1))
    BY <1>8 DEF DoSystem, Begin
  <2>2. calls' \in Calls
    BY <1>1, <2>1, SystemCallsAssumption DEF Calls, TypeOK
  <2> QED
    BY <1>4, <1>7, <2>1, <2>2
<1>9. CASE ForkFails \/ Wait \/ WaitInterrupted \/ UNCHANGED vars \/ \E r \in BOOLEAN : Fork(r)
  BY <1>4, <1>9 DEF ForkFails, Wait, WaitInterrupted, Returns, Fork, output, vars
<1>10. ASSUME NEW i \in Calls, Silent(i) PROVE UNCHANGED <<printed, text, stdout>>
  BY <1>10 DEF Silent, Open, OpenFails, Dup2, Dup2Fails, Exec, ExecFails, CommandEnds, Killed,
     Elsewhere
<1>11. ASSUME NEW i \in Calls, Exit(i) PROVE FALSE
  <2>1. status'[i] = "1"
    BY <1>1, <1>11 DEF Exit, TypeOK
  <2> QED
    BY <2>1 DEF Clean
<1>12. ASSUME NEW i \in Calls, Command(i) PROVE InOrder(stdout, printed - Len(text))'
  <2> DEFINE t == Text(i, 1)
  <2>1. Puts(i, <<t>>) /\ UNCHANGED <<printed, text>> /\ t \in Texts
    BY <1>12, TextTyped DEF Command, Elsewhere
  <2>2. t = Text(i, 1)
    OBVIOUS
  <2> HIDE DEF t
  <2>3. <<t>> \in Seq(Texts) /\ stdout \o <<t>> = Append(stdout, t)
    BY <1>1, <2>1
  <2>4. stdout' = stdout \/ stdout' = Append(stdout, t)
    BY <1>1, <2>1, <2>3, PutsAt
  <2> QED
    BY <1>4, <1>7, <2>1, <2>2, <2>4
<1> QED
  BY <1>4, <1>5, <1>6, <1>8, <1>9, <1>10, <1>11, <1>12, NextKinds DEF ByCaller

-----------------------------------------------------------------------------
LEMMA InitInv ==
  ASSUME Init
  PROVE  CallsInv
<1>1. << >> \in Seq(Texts) /\ Len(<< >>) = 0
  BY EmptySeq
<1>2. TypeOK
  <2>1. 0 \in 0 .. MaxCalls /\ 0 \in 0 .. MaxPrints
    BY SystemCallsAssumption
  <2>2. text \in Seq(Texts) /\ stdout \in Seq(Texts) /\ outputfile \in [Calls -> Seq(Texts)]
        /\ copy \in [Calls -> Seq(Texts)]
    BY <1>1 DEF Init
  <2> QED
    BY <2>1, <2>2 DEF Init, TypeOK, Places
<1>3. WaitOK
  BY DEF Init, WaitOK
<1>4. TextOK /\ StdoutOK
  BY <1>1 DEF Init, TextOK, StdoutOK, InOrder
<1>5. ASSUME NEW i \in Calls PROVE CallOK(i) /\ ChildOK(i)
  <2>1. i \in Nat /\ i > 0
    BY <1>5, SystemCallsAssumption DEF Calls
  <2> QED
    BY <2>1 DEF Init, CallOK, ChildOK
<1> QED
  BY <1>2, <1>3, <1>4, <1>5 DEF CallsInv

\* CallsInv holds in every reachable state, for any number of calls and of
\* printed texts, whichever of fork, open, dup2, execv and waitpid fail, and
\* however the child is killed.
THEOREM Invariance == Spec => []CallsInv
<1>1. ASSUME CallsInv, [Next]_vars PROVE CallsInv'
  BY <1>1, TypeKeeps, TextKeeps, StdoutKeeps, CallKeeps, ChildKeeps DEF CallsInv
<1> QED
  BY InitInv, <1>1, PTL DEF Spec

\* Every variable of the two processes stays in its set.
THEOREM TypeCorrect == Spec => []TypeOK
<1>1. CallsInv => TypeOK
  BY DEF CallsInv
<1> QED
  BY <1>1, Invariance, PTL

\* do_exec and do_exec_redirect return true exactly if the command was run, to
\* its end and with success, and then what it wrote is what the output file
\* holds, unless a handler of the caller's interrupted waitpid.
THEOREM TrueDone == Spec => []TrueMeansDone
<1>1. ASSUME CallsInv, NEW i \in Forked \ interrupted, result[i] # "none"
      PROVE  /\ result[i] = "true" <=> status[i] = "0" /\ Ran(i)
             /\ result[i] = "true" /\ to[i] = "file" => outputfile[i] = <<Text(i, 1)>>
  <2>1. i \in Calls /\ child[i] # "none" /\ i \notin interrupted
    BY <1>1 DEF Forked
  <2>2. CallOK(i) /\ ChildOK(i) /\ stdout \in Seq(Texts) /\ outputfile[i] \in Seq(Texts)
    BY <1>1, <2>1 DEF CallsInv, TypeOK
  <2>3. result[i] = "true" <=> status[i] = "0"
    BY <1>1, <2>1, <2>2 DEF CallOK
  <2>4. status[i] = "0" => Wrote(i) /\ (to[i] = "file" => outputfile[i] = <<Text(i, 1)>>)
    BY <2>2 DEF ChildOK
  <2>5. ASSUME NEW k \in 1 .. Len(stdout), stdout[k] = Text(i, 1) PROVE Ran(i)
    BY <2>2, <2>5, Extends DEF Ran
  <2>6. ASSUME NEW k \in 1 .. Len(outputfile[i]), outputfile[i][k] = Text(i, 1) PROVE Ran(i)
    <3> DEFINE u == stdout \o outputfile[i]
               s == outputfile[i]
               l == Len(stdout)
    <3>1. l \in Nat /\ Len(s) \in Nat /\ Len(u) = l + Len(s)
          /\ \A j \in 1 .. l + Len(s) : u[j] = IF j <= l THEN stdout[j] ELSE s[j - l]
      BY <2>2, ConcatProperties
    <3>2. k \in 1 .. Len(s) /\ s[k] = Text(i, 1)
      BY <2>6
    <3> HIDE DEF u, s, l
    <3>3. l + k \in 1 .. l + Len(s) /\ ~ (l + k <= l) /\ l + k - l = k
      BY <3>1, <3>2
    <3>4. l + k \in 1 .. Len(u) /\ u[l + k] = Text(i, 1)
      BY <3>1, <3>2, <3>3
    <3> QED
      BY <3>4 DEF Ran, u, s
  <2>7. Wrote(i) => Ran(i)
    BY <2>5, <2>6 DEF Wrote
  <2> QED
    BY <2>3, <2>4, <2>7
<1>2. CallsInv => TrueMeansDone
  BY <1>1 DEF TrueMeansDone
<1> QED
  BY <1>2, Invariance, PTL

\* When a call has returned, its child runs no more and has been reaped, unless
\* a handler of the caller's interrupted waitpid.
THEOREM NoneLeft == Spec => []NobodyLeft
<1>1. CallsInv => NobodyLeft
  BY DEF CallsInv, CallOK, NobodyLeft
<1> QED
  BY <1>1, Invariance, PTL

\* What the caller printed comes out once and in order, with every copy fork
\* made of it gone, as long as no call was false: the argument is that only a
\* child that calls exit writes its copy, and that its call is false.
THEOREM CallerText == Spec => []CallerTextOnce
<1>1. ASSUME CallsInv, caller = "free", \A i \in Calls : result[i] # "false"
      PROVE  InOrder(stdout \o text, printed)
  <2>1. ASSUME NEW i \in Calls PROVE status[i] # "1"
    <3>1. CallOK(i) /\ ChildOK(i) /\ result[i] \in {"none", "true"}
          /\ calls \in Nat /\ i \in Nat
      BY <1>1, SystemCallsAssumption DEF CallsInv, TypeOK, Calls
    <3>2. CASE result[i] = "none"
      <4>1. i > calls
        BY <1>1, <3>1, <3>2 DEF CallOK
      <4> QED
        BY <3>1, <4>1 DEF CallOK, ChildOK
    <3>3. CASE result[i] = "true"
      BY <3>1, <3>3 DEF CallOK, ChildOK
    <3> QED
      BY <3>1, <3>2, <3>3
  <2>2. InOrder(stdout, printed - Len(text))
    BY <1>1, <2>1 DEF CallsInv, StdoutOK, Clean
  <2> DEFINE n == printed - Len(text)
  <2>3. /\ text \in Seq(Texts) /\ stdout \in Seq(Texts) /\ printed \in Nat
        /\ Len(text) \in Nat /\ Len(text) <= printed
        /\ \A k \in 1 .. Len(text) : text[k] = Text(0, n + k)
    BY <1>1, SystemCallsAssumption DEF CallsInv, TypeOK, TextOK
  <2>4. n \in Nat /\ n + Len(text) = printed
    BY <2>3
  <2>5. InOrder(stdout, n)
    BY <2>2
  <2> HIDE DEF n
  <2>6. InOrder(stdout \o text, n + Len(text))
    BY <2>3, <2>4, <2>5, CallersTexts
  <2> QED
    BY <2>4, <2>6
<1>2. CallsInv => CallerTextOnce
  BY <1>1 DEF CallerTextOnce
<1> QED
  BY <1>2, Invariance, PTL
=============================================================================
