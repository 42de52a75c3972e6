----------------------------- MODULE CDCConsole -----------------------------
(***************************************************************************)
(* The CDC debug console of the development loop: class CDCConsole in     *)
(* src/tools/devloop/fluxripper_dev.py (lines 64-235) and the firmware at  *)
(* the other end of the serial port.                                       *)
(*                                                                         *)
(* Three actors share the port:                                            *)
(*   - the caller's thread runs send() through read_memory() and           *)
(*     write_memory(): drain response_queue, write the command, then       *)
(*     collect lines until a prompt line or the 2 s deadline;              *)
(*   - the background thread _reader_loop() turns received bytes into      *)
(*     lines on response_queue;                                            *)
(*   - the target answers each command in order with one reply line and a  *)
(*     prompt line (the firmware is not under src/: modelled from the      *)
(*     spec, section 6).                                                   *)
(*                                                                         *)
(* Everything the target ever printed is the append-only sequence log.     *)
(* The reader has moved lines 1..queued onto response_queue and the        *)
(* caller has taken lines 1..consumed off it, so response_queue holds      *)
(* log[consumed+1..queued] and the bytes not yet split into lines (in the  *)
(* serial driver and in the reader's local buffer) are                     *)
(* log[queued+1..Len(log)].  Commands are likewise the append-only cmds,   *)
(* of which the target has served the first `served`.  Each line carries  *)
(* a tag, the index of the command it answers: a history field that the   *)
(* code never reads and the properties use to say whose answer a caller    *)
(* got.                                                                    *)
(***************************************************************************)
EXTENDS Naturals, Sequences

CONSTANTS
  Addrs,            \* register addresses the caller reads and writes
  Vals,             \* 32-bit data words, abstracted to a few values
  MaxCmds,          \* bound on the number of commands sent on the connection
  TargetMayBeLate,  \* TRUE: a reply can come after send()'s 2 s deadline
  NoValue           \* model value: None in the code

ASSUME ConstantsAssumption ==
  /\ Addrs # {}
  /\ Vals # {}
  /\ NoValue \notin Vals \cup Addrs
  /\ MaxCmds \in Nat
  /\ TargetMayBeLate \in BOOLEAN

VARIABLES
  mem,       \* the target's registers and memory
  cmds,      \* every command written to the port, in order
  served,    \* the target has answered cmds[1..served]
  log,       \* every line the target printed, in order
  queued,    \* _reader_loop has put log[1..queued] on response_queue
  consumed,  \* send() has taken log[1..consumed] off response_queue
  hpc,       \* the caller: "idle" or "collect" (inside send's wait loop)
  resp,      \* the list `responses` of the send() in progress
  late,      \* history: commands whose collection did not end at their own prompt
  result     \* what the last read_memory / write_memory returned

vars == <<mem, cmds, served, log, queued, consumed, hpc, resp, late, result>>

-----------------------------------------------------------------------------
Ops == {"read", "write"}

(* "dbg r <addr>" carries no data word (val is NoValue), "dbg w" one.    *)
Command == [op : {"read"}, addr : Addrs, val : {NoValue}]
             \cup [op : {"write"}, addr : Addrs, val : Vals]

(* The three kinds of line of the register protocol: "OK:<hex>", a line   *)
(* containing "OK", and a line starting with the prompt character '>'.    *)
Kinds == {"OKVAL", "OK", "PROMPT"}

Line == [kind : Kinds, val : Vals \cup {NoValue}, tag : Nat]

Result == [op : Ops \cup {"none"}, id : Nat, addr : Addrs \cup {NoValue},
           ok : BOOLEAN, val : Vals \cup {NoValue}, src : Nat]

NoResult == [op |-> "none", id |-> 0, addr |-> NoValue, ok |-> FALSE,
             val |-> NoValue, src |-> 0]

(* The command the caller is waiting on (the last one written).           *)
Cur == Len(cmds)

-----------------------------------------------------------------------------
(* read_memory: command() joins the lines with "\n"; the result is parsed  *)
(* when it starts with "OK:" and int(split(":")[1].strip(), 16) succeeds.  *)
(* A second line leaves a "\n" inside the hex field and int() raises, so  *)
(* a value comes back exactly when the lines are one "OK:<hex>" line.     *)
ReadParses(lines) == Len(lines) = 1 /\ lines[1].kind = "OKVAL"

(* write_memory: `"OK" in response` holds when any line contains "OK",     *)
(* and "OK:<hex>" contains it too.                                         *)
WriteAcked(lines) == \E i \in DOMAIN lines : lines[i].kind \in {"OK", "OKVAL"}

(* send() returns `lines` for the current command and the caller's helper  *)
(* turns them into its result; ownPrompt says whether collection stopped   *)
(* at the current command's own prompt.                                    *)
Finish(lines, ownPrompt) ==
  LET c == cmds[Cur] IN
  /\ hpc' = "idle"
  /\ result' =
       IF c.op = "read"
       THEN [op |-> "read", id |-> Cur, addr |-> c.addr, ok |-> ReadParses(lines),
             val |-> IF ReadParses(lines) THEN lines[1].val ELSE NoValue,
             src |-> IF ReadParses(lines) THEN lines[1].tag ELSE 0]
       ELSE [op |-> "write", id |-> Cur, addr |-> c.addr, ok |-> WriteAcked(lines),
             val |-> c.val, src |-> 0]
  /\ late' = IF ownPrompt THEN late ELSE late \cup {Cur}

-----------------------------------------------------------------------------
(* The target's reply to command number k (spec section 6).               *)
Reply(c, k) ==
  IF c.op = "read"
  THEN [kind |-> "OKVAL", val |-> mem[c.addr], tag |-> k]
  ELSE [kind |-> "OK", val |-> NoValue, tag |-> k]

Prompt(k) == [kind |-> "PROMPT", val |-> NoValue, tag |-> k]

Init ==
  /\ mem \in [Addrs -> Vals]
  /\ cmds = <<>>
  /\ served = 0
  /\ log = <<>>
  /\ queued = 0
  /\ consumed = 0
  /\ hpc = "idle"
  /\ resp = <<>>
  /\ late = {}
  /\ result = NoResult

(* send(cmd) from read_memory or write_memory: empty response_queue with   *)
(* get_nowait(), write "<cmd>\r\n" and flush, reset `responses` and enter  *)
(* the wait loop.  A line the reader queues during the drain is one it     *)
(* queued before the drain, so the drain takes all of queue at once.       *)
Send(c) ==
  /\ hpc = "idle"
  /\ Len(cmds) < MaxCmds
  /\ consumed' = queued
  /\ cmds' = Append(cmds, c)
  /\ resp' = <<>>
  /\ hpc' = "collect"
  /\ UNCHANGED <<mem, served, log, queued, late, result>>

ReadMemory(a) == Send([op |-> "read", addr |-> a, val |-> NoValue])

WriteMemory(a, v) == Send([op |-> "write", addr |-> a, val |-> v])

(* The firmware takes the next command off the port, executes it and      *)
(* prints its reply and a prompt.                                          *)
TargetServe ==
  /\ served < Len(cmds)
  /\ LET k == served + 1
         c == cmds[k]
     IN /\ mem' = IF c.op = "write" THEN [mem EXCEPT ![c.addr] = c.val] ELSE mem
        /\ log' = Append(Append(log, Reply(c, k)), Prompt(k))
        /\ served' = k
  /\ UNCHANGED <<cmds, queued, consumed, hpc, resp, late, result>>

(* Mutant of Reader: a line is queued before it has arrived.             *)
ReaderAhead ==
  /\ queued' = queued + 1
  /\ UNCHANGED <<mem, cmds, served, log, consumed, hpc, resp, late, result>>

(* _reader_loop: read what is waiting, split off a complete line, strip   *)
(* it and put it on response_queue.  A read error is printed and the loop  *)
(* goes on, which changes nothing here.                                    *)
Reader ==
  /\ queued < Len(log)
  /\ queued' = queued + 1
  /\ UNCHANGED <<mem, cmds, served, log, consumed, hpc, resp, late, result>>

(* send's wait loop: response_queue.get() returns a line that is not a     *)
(* prompt, and it is appended to `responses`.                              *)
CollectLine ==
  /\ hpc = "collect"
  /\ consumed < queued
  /\ log[consumed + 1].kind # "PROMPT"
  /\ consumed' = consumed + 1
  /\ resp' = Append(resp, log[consumed + 1])
  /\ UNCHANGED <<mem, cmds, served, log, queued, hpc, late, result>>

(* Mutant of CollectPrompt: the line is appended to `responses` before    *)
(* the prompt test.                                                        *)
CollectPromptKept ==
  /\ hpc = "collect"
  /\ consumed < queued
  /\ log[consumed + 1].kind = "PROMPT"
  /\ consumed' = consumed + 1
  /\ resp' = Append(resp, log[consumed + 1])
  /\ Finish(Append(resp, log[consumed + 1]), log[consumed + 1].tag = Cur)
  /\ UNCHANGED <<mem, cmds, served, log, queued>>

(* send's wait loop: the line starts with '>', the loop breaks and send   *)
(* returns what it collected.  Any prompt ends it, whichever command it    *)
(* belongs to.                                                             *)
CollectPrompt ==
  /\ hpc = "collect"
  /\ consumed < queued
  /\ log[consumed + 1].kind = "PROMPT"
  /\ consumed' = consumed + 1
  /\ Finish(resp, log[consumed + 1].tag = Cur)
  /\ UNCHANGED <<mem, cmds, served, log, queued, resp>>

(* send's wait loop: time.time() reached the deadline before a prompt;     *)
(* send returns what it collected.  Only a late target lets it win.        *)
Deadline ==
  /\ hpc = "collect"
  /\ TargetMayBeLate
  /\ Finish(resp, FALSE)
  /\ UNCHANGED <<mem, cmds, served, log, queued, consumed, resp>>

Next ==
  \/ \E a \in Addrs : ReadMemory(a)
  \/ \E a \in Addrs, v \in Vals : WriteMemory(a, v)
  \/ TargetServe
  \/ Reader
  \/ CollectLine
  \/ CollectPrompt
  \/ Deadline

(* The reader thread polls every 10 ms, send's loop runs on the caller's   *)
(* thread until it returns, the deadline is measured by the wall clock,    *)
(* and the firmware serves its console: all are weakly fair.  The caller   *)
(* issuing commands is not.                                                *)
Fairness ==
  /\ WF_vars(TargetServe)
  /\ WF_vars(Reader)
  /\ WF_vars(CollectLine)
  /\ WF_vars(CollectPrompt)
  /\ WF_vars(Deadline)

Spec == Init /\ [][Next]_vars /\ Fairness

-----------------------------------------------------------------------------
TypeOK ==
  /\ mem \in [Addrs -> Vals]
  /\ cmds \in Seq(Command)
  /\ Len(cmds) <= MaxCmds
  /\ served \in 0..Len(cmds)
  /\ log \in Seq(Line)
  /\ queued \in 0..Len(log)
  /\ consumed \in 0..queued
  /\ hpc \in {"idle", "collect"}
  /\ hpc = "collect" => Len(cmds) >= 1
  /\ resp \in Seq(Line)
  /\ late \subseteq 1..Len(cmds)
  /\ result \in Result

(* Spec 4.1: draining the queue before a command "protects against        *)
(* responses to a previous timed-out command leaking into the next read":  *)
(* a value returned by read_memory is the target's answer to that very     *)
(* read.                                                                   *)
ReadReturnsOwnValue ==
  result.op = "read" /\ result.ok => result.src = result.id

(* Spec section 8, write-then-read consistency on a healthy transport:    *)
(* as long as every command so far ended at its own prompt, once          *)
(* read_memory or write_memory has returned, the call succeeded, a read    *)
(* returned what the register holds and a write is in the register.       *)
RegisterConsistency ==
  late = {} /\ hpc = "idle" /\ result.op # "none" =>
    /\ result.ok
    /\ result.op = "read" => result.val = mem[result.addr]
    /\ result.op = "write" => mem[result.addr] = result.val

-----------------------------------------------------------------------------
(* Why a clean history gives consistent registers (the inductive          *)
(* strengthening of RegisterConsistency).  While every collection so far   *)
(* ended at its own prompt, the caller, once idle, has seen every command  *)
(* served and every line consumed; while collecting, either the target has *)
(* not served the current command and nothing is left to read, or it has,  *)
(* the log ends with that command's reply and prompt, and the caller is at *)
(* most past the reply.  Nothing is served after the current command, so   *)
(* the reply still shows the register as it is.                            *)
CleanCollect ==
  \/ /\ served = Cur - 1
     /\ consumed = Len(log)
     /\ resp = <<>>
  \/ /\ served = Cur
     /\ Len(log) >= 2
     /\ log[Len(log) - 1] = Reply(cmds[Cur], Cur)
     /\ log[Len(log)] = Prompt(Cur)
     /\ cmds[Cur].op = "write" => mem[cmds[Cur].addr] = cmds[Cur].val
     /\ \/ consumed = Len(log) - 2 /\ resp = <<>>
        \/ consumed = Len(log) - 1 /\ resp = <<log[Len(log) - 1]>>

CleanIdle ==
  /\ served = Len(cmds)
  /\ consumed = Len(log)
  /\ RegisterConsistency

RegInv ==
  /\ TypeOK
  /\ late = {} =>
       /\ hpc = "idle" => CleanIdle
       /\ hpc = "collect" => CleanCollect

=============================================================================
