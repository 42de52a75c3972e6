-------------------------- MODULE CDCConsoleProofs --------------------------
(***************************************************************************)
(* Proofs about the CDC console model, for every value of the constants:   *)
(* the type invariant, and that while every collection ended at its own    *)
(* prompt, read_memory and write_memory keep the registers consistent     *)
(* (RegisterConsistency).                                                  *)
(***************************************************************************)
EXTENDS CDCConsole, TLAPS

(* The commands read_memory and write_memory send are well formed.        *)
LEMMA ReadMemoryCommand == \A a \in Addrs : [op |-> "read", addr |-> a, val |-> NoValue] \in Command
BY DEF Command

LEMMA WriteMemoryCommand == \A a \in Addrs, v \in Vals : [op |-> "write", addr |-> a, val |-> v] \in Command
BY DEF Command

(* The type invariant holds initially and is kept by every step.          *)
LEMMA TypeInit == Init => TypeOK
BY ConstantsAssumption DEF Init, TypeOK, Result, NoResult

LEMMA TypeStep == TypeOK /\ [Next]_vars => TypeOK'
<1> SUFFICES ASSUME TypeOK, [Next]_vars PROVE TypeOK'
  OBVIOUS
<1>1. ASSUME NEW c \in Command, Send(c) PROVE TypeOK'
  <2>1. cmds' \in Seq(Command) /\ Len(cmds') = Len(cmds) + 1
    BY <1>1 DEF Send, TypeOK
  <2>2. Len(cmds') <= MaxCmds
    BY <1>1, <2>1, ConstantsAssumption DEF Send, TypeOK
  <2>3. late' \subseteq 1..Len(cmds') /\ served' \in 0..Len(cmds')
    BY <1>1, <2>1 DEF Send, TypeOK
  <2>4. QED
    BY <1>1, <2>1, <2>2, <2>3 DEF Send, TypeOK
<1>2. CASE \E a \in Addrs : ReadMemory(a)
  <2>1. PICK a \in Addrs : ReadMemory(a)
    BY <1>2
  <2>2. [op |-> "read", addr |-> a, val |-> NoValue] \in Command
    BY DEF Command
  <2>3. QED
    BY <2>1, <2>2, <1>1 DEF ReadMemory
<1>3. CASE \E a \in Addrs, v \in Vals : WriteMemory(a, v)
  <2>1. PICK a \in Addrs, v \in Vals : WriteMemory(a, v)
    BY <1>3
  <2>2. [op |-> "write", addr |-> a, val |-> v] \in Command
    BY DEF Command
  <2>3. QED
    BY <2>1, <2>2, <1>1 DEF WriteMemory
<1>4. CASE TargetServe
  <2> DEFINE k == served + 1
             c == cmds[k]
  <2>1. k \in 1..Len(cmds) /\ c \in Command
    BY <1>4 DEF TargetServe, TypeOK
  <2>2. Reply(c, k) \in Line /\ Prompt(k) \in Line
    BY <2>1 DEF Reply, Prompt, Line, Command, TypeOK, Kinds
  <2>3. mem' \in [Addrs -> Vals]
    <3>1. mem' = IF c.op = "write" THEN [mem EXCEPT ![c.addr] = c.val] ELSE mem
      BY <1>4 DEF TargetServe
    <3>2. CASE c.op = "write"
      <4>1. c.addr \in Addrs /\ c.val \in Vals
        BY <2>1, <3>2 DEF Command
      <4>2. QED
        BY <3>1, <3>2, <4>1 DEF TypeOK
    <3>3. CASE c.op # "write"
      BY <3>1, <3>3 DEF TypeOK
    <3>4. QED
      BY <3>2, <3>3
  <2>4. log' \in Seq(Line) /\ Len(log') = Len(log) + 2
    <3>1. log' = Append(Append(log, Reply(c, k)), Prompt(k))
      BY <1>4 DEF TargetServe
    <3>2. QED
      BY <3>1, <2>2 DEF TypeOK
  <2>5. QED
    BY <1>4, <2>3, <2>4 DEF TargetServe, TypeOK
<1>5. CASE Reader
  BY <1>5 DEF Reader, TypeOK
<1>6. CASE CollectLine
  BY <1>6 DEF CollectLine, TypeOK
<1>7. ASSUME NEW lines \in Seq(Line), NEW own, hpc = "collect", Finish(lines, own)
      PROVE  result' \in Result /\ hpc' = "idle" /\ late' \subseteq 1..Len(cmds)
  <2>1. /\ cmds[Cur] \in Command
        /\ cmds[Cur].addr \in Addrs
        /\ cmds[Cur].val \in Vals \cup {NoValue}
        /\ Cur \in Nat
    BY <1>7 DEF TypeOK, Cur, Command
  <2>2. ReadParses(lines) => lines[1] \in Line
    BY DEF ReadParses
  <2>3. result' \in Result
    <3>1. CASE cmds[Cur].op = "read"
      BY <1>7, <2>1, <2>2, <3>1 DEF Finish, Result, Line, Ops, ReadParses
    <3>2. CASE cmds[Cur].op # "read"
      BY <1>7, <2>1, <3>2 DEF Finish, Result, Ops, WriteAcked
    <3>3. QED
      BY <3>1, <3>2
  <2>4. late' \subseteq 1..Len(cmds)
    <3>1. late' \subseteq late \cup {Cur}
      BY <1>7 DEF Finish
    <3>2. late \subseteq 1..Len(cmds) /\ Cur \in 1..Len(cmds)
      BY <1>7 DEF TypeOK, Cur
    <3>3. QED
      BY <3>1, <3>2
  <2>5. QED
    BY <1>7, <2>3, <2>4 DEF Finish
<1>8. CASE CollectPrompt
  BY <1>8, <1>7 DEF CollectPrompt, TypeOK
<1>9. CASE Deadline
  BY <1>9, <1>7 DEF Deadline, TypeOK
<1>10. CASE UNCHANGED vars
  BY <1>10 DEF vars, TypeOK
<1>11. QED
  BY <1>2, <1>3, <1>4, <1>5, <1>6, <1>8, <1>9, <1>10 DEF Next

(* The console model is well typed in every reachable state.              *)
THEOREM TypeCorrect == Spec => []TypeOK
BY TypeInit, TypeStep, PTL DEF Spec

-----------------------------------------------------------------------------
(* RegInv holds initially: nothing sent, nothing printed, no result.      *)
LEMMA RegInit == Init => RegInv
BY TypeInit DEF Init, RegInv, CleanIdle, RegisterConsistency, NoResult

(* No step takes a command out of late.                                   *)
LEMMA LateGrows == [Next]_vars => late \subseteq late'
BY DEF Next, vars, ReadMemory, WriteMemory, Send, TargetServe, Reader,
       CollectLine, CollectPrompt, Deadline, Finish

(* The target's reply to a read carries the register's value; to a write, *)
(* it is a plain "OK" line.  Neither is a prompt.                          *)
LEMMA ReplyKind ==
  ASSUME NEW c \in Command, NEW k
  PROVE  /\ c.op = "read" => Reply(c, k).kind = "OKVAL" /\ Reply(c, k).val = mem[c.addr]
         /\ c.op = "write" => Reply(c, k).kind = "OK"
         /\ Reply(c, k).kind # "PROMPT"
BY DEF Reply, Command

(* Each action keeps RegInv.  A step that makes late non-empty has nothing *)
(* to show, and late never shrinks, so every case assumes late' = {}.      *)
LEMMA RegStep == RegInv /\ [Next]_vars => RegInv'
<1> SUFFICES ASSUME RegInv, [Next]_vars PROVE RegInv'
  OBVIOUS
<1>0. TypeOK'
  BY TypeStep DEF RegInv
<1> SUFFICES ASSUME late' = {}
             PROVE  /\ hpc' = "idle" => CleanIdle'
                    /\ hpc' = "collect" => CleanCollect'
  BY <1>0 DEF RegInv
<1>1. late = {}
  BY LateGrows
<1> USE DEF RegInv, TypeOK
<1>2. ASSUME NEW c \in Command, Send(c)
      PROVE  /\ hpc' = "idle" => CleanIdle'
             /\ hpc' = "collect" => CleanCollect'
  <2>1. hpc = "idle" /\ hpc' = "collect"
    BY <1>2 DEF Send
  <2>2. served = Len(cmds) /\ consumed = Len(log)
    BY <1>1, <2>1 DEF CleanIdle
  <2>3. /\ Len(cmds') = Len(cmds) + 1 /\ served' = served
        /\ consumed' = queued /\ log' = log /\ resp' = <<>>
    BY <1>2 DEF Send
  <2>4. queued = Len(log)
    BY <2>2
  <2>5. QED
    BY <2>1, <2>2, <2>3, <2>4 DEF CleanCollect, Cur
<1>3. CASE \E a \in Addrs : ReadMemory(a)
  BY <1>2, <1>3, ReadMemoryCommand DEF ReadMemory
<1>4. CASE \E a \in Addrs, v \in Vals : WriteMemory(a, v)
  BY <1>2, <1>4, WriteMemoryCommand DEF WriteMemory
<1>5. CASE TargetServe
  <2> DEFINE k == served + 1
             c == cmds[k]
  <2>1. /\ served < Len(cmds)
        /\ mem' = IF c.op = "write" THEN [mem EXCEPT ![c.addr] = c.val] ELSE mem
        /\ log' = Append(Append(log, Reply(c, k)), Prompt(k))
        /\ served' = k
        /\ UNCHANGED <<cmds, consumed, hpc, resp>>
    BY <1>5 DEF TargetServe
  <2>2. hpc = "collect" /\ served = Cur - 1 /\ consumed = Len(log) /\ resp = <<>>
    BY <1>1, <2>1 DEF CleanIdle, CleanCollect, Cur
  <2>3. k = Cur /\ c \in Command /\ c.addr \in Addrs
    BY <2>1, <2>2 DEF Cur, Command
  <2>4. Cur' = k /\ served' = Cur' /\ cmds'[Cur'] = c
    BY <2>1, <2>3 DEF Cur
  <2>5. /\ Len(log') = Len(log) + 2
        /\ log'[Len(log') - 1] = Reply(c, k)
        /\ log'[Len(log')] = Prompt(k)
    BY <2>1
  <2>6. Reply(c, k) = Reply(cmds[Cur], Cur)'
    <3>1. CASE c.op = "read"
      BY <2>1, <2>4, <3>1 DEF Reply
    <3>2. CASE c.op # "read"
      BY <2>4, <3>2 DEF Reply
    <3>3. QED
      BY <3>1, <3>2
  <2>7. Prompt(k) = Prompt(Cur)'
    BY <2>4 DEF Prompt
  <2>8. cmds'[Cur'].op = "write" => mem'[cmds'[Cur'].addr] = cmds'[Cur'].val
    BY <2>1, <2>3, <2>4
  <2>9. QED
    BY <2>1, <2>2, <2>4, <2>5, <2>6, <2>7, <2>8 DEF CleanCollect
<1>6. CASE Reader
  <2>1. UNCHANGED <<mem, cmds, served, log, consumed, hpc, resp, late, result>>
    BY <1>6 DEF Reader
  <2>2. QED
    BY <1>1, <2>1 DEF CleanIdle, CleanCollect, RegisterConsistency, Cur, Reply, Prompt
<1>7. CASE CollectLine
  <2>1. /\ hpc = "collect" /\ consumed < queued
        /\ log[consumed + 1].kind # "PROMPT"
        /\ consumed' = consumed + 1
        /\ resp' = Append(resp, log[consumed + 1])
        /\ UNCHANGED <<mem, cmds, served, log, hpc>>
    BY <1>7 DEF CollectLine
  <2>2. CleanCollect
    BY <1>1, <2>1
  <2>3. /\ served = Cur /\ Len(log) >= 2
        /\ log[Len(log)] = Prompt(Cur)
        /\ \/ consumed = Len(log) - 2 /\ resp = <<>>
           \/ consumed = Len(log) - 1 /\ resp = <<log[Len(log) - 1]>>
    BY <2>1, <2>2 DEF CleanCollect
  <2>4. consumed = Len(log) - 2 /\ resp = <<>>
    BY <2>1, <2>3 DEF Prompt
  <2>5. resp' = <<log[Len(log) - 1]>> /\ consumed' = Len(log) - 1
    BY <2>1, <2>4
  <2>6. QED
    BY <2>1, <2>2, <2>5 DEF CleanCollect, Cur, Reply, Prompt
<1>8. CASE CollectPrompt
  <2> DEFINE c == cmds[Cur]
             r == log[Len(log) - 1]
  <2>1. /\ hpc = "collect" /\ consumed < queued
        /\ log[consumed + 1].kind = "PROMPT"
        /\ consumed' = consumed + 1
        /\ Finish(resp, log[consumed + 1].tag = Cur)
        /\ UNCHANGED <<mem, cmds, served, log, resp>>
    BY <1>8 DEF CollectPrompt
  <2>2. CleanCollect
    BY <1>1, <2>1
  <2>3. /\ served = Cur /\ Len(log) >= 2 /\ Cur \in 1..Len(cmds)
        /\ r = Reply(c, Cur)
        /\ c.op = "write" => mem[c.addr] = c.val
        /\ consumed = Len(log) - 1 /\ resp = <<r>>
    <3>1. consumed < Len(log) /\ Cur \in 1..Len(cmds)
      BY <2>1 DEF Cur
    <3>2. c \in Command
      BY <3>1 DEF Cur
    <3>3. served = Cur /\ Len(log) >= 2 /\ r = Reply(c, Cur)
      BY <2>2, <3>1 DEF CleanCollect
    <3>4. consumed # Len(log) - 2
      <4>1. r.kind # "PROMPT"
        BY <3>3, <3>2, ReplyKind
      <4>2. log[consumed + 1].kind = "PROMPT"
        BY <2>1
      <4>3. QED
        BY <4>1, <4>2, SMT
    <3>5. QED
      BY <2>2, <3>1, <3>3, <3>4 DEF CleanCollect
  <2>4. c \in Command
    BY <2>3
  <2>5. /\ hpc' = "idle"
        /\ result' =
             IF c.op = "read"
             THEN [op |-> "read", id |-> Cur, addr |-> c.addr, ok |-> ReadParses(resp),
                   val |-> IF ReadParses(resp) THEN resp[1].val ELSE NoValue,
                   src |-> IF ReadParses(resp) THEN resp[1].tag ELSE 0]
             ELSE [op |-> "write", id |-> Cur, addr |-> c.addr, ok |-> WriteAcked(resp),
                   val |-> c.val, src |-> 0]
    BY <2>1 DEF Finish
  <2>6. served' = Len(cmds') /\ consumed' = Len(log')
    BY <2>1, <2>3 DEF Cur
  <2>7. CASE c.op = "read"
    <3>1. r.kind = "OKVAL" /\ r.val = mem[c.addr]
      BY <2>3, <2>4, <2>7, ReplyKind
    <3>2. ReadParses(resp)
      BY <2>3, <3>1 DEF ReadParses
    <3>3. result' = [op |-> "read", id |-> Cur, addr |-> c.addr, ok |-> TRUE,
                     val |-> r.val, src |-> r.tag]
      BY <2>3, <2>5, <2>7, <3>2
    <3>4. RegisterConsistency'
      BY <2>1, <3>1, <3>3 DEF RegisterConsistency
    <3>5. QED
      BY <2>5, <2>6, <3>4 DEF CleanIdle
  <2>8. CASE c.op # "read"
    <3>1. c.op = "write" /\ r.kind = "OK"
      BY <2>3, <2>4, <2>8, ReplyKind DEF Command
    <3>2. WriteAcked(resp)
      BY <2>3, <3>1 DEF WriteAcked
    <3>3. result' = [op |-> "write", id |-> Cur, addr |-> c.addr, ok |-> TRUE,
                     val |-> c.val, src |-> 0]
      BY <2>5, <2>8, <3>2
    <3>4. RegisterConsistency'
      BY <2>1, <2>3, <3>1, <3>3 DEF RegisterConsistency
    <3>5. QED
      BY <2>5, <2>6, <3>4 DEF CleanIdle
  <2>9. QED
    BY <2>7, <2>8
<1>9. CASE Deadline
  BY <1>9 DEF Deadline, Finish
<1>10. CASE UNCHANGED vars
  BY <1>1, <1>10 DEF vars, CleanIdle, CleanCollect, RegisterConsistency, Cur, Reply, Prompt
<1>11. QED
  BY <1>3, <1>4, <1>5, <1>6, <1>7, <1>8, <1>9, <1>10 DEF Next

(* For every number of registers, data words and commands: as long as     *)
(* every collection ended at its own prompt, a read_memory or             *)
(* write_memory that has returned succeeded, a read returned what the     *)
(* register holds and a write is in the register.                         *)
THEOREM CleanRegistersConsistent == Spec => []RegisterConsistency
<1>1. RegInv => RegisterConsistency
  BY DEF RegInv, CleanIdle, RegisterConsistency
<1>2. QED
  BY RegInit, RegStep, <1>1, PTL DEF Spec

=============================================================================
