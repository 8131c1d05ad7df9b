------------------------------ MODULE DebugHalt ------------------------------
(***************************************************************************)
(* Halting and resuming the core from the debugger: the emulation thread   *)
(* (PPC_e200z7.stepi, e200INTC) and the GDB server thread (e200GDB), which *)
(* share the pending list and its flag, the _run event, _halt_reason and   *)
(* the breakpoints.  A step of this model is what one thread does between  *)
(* two points where the other can be scheduled: list updates are under     *)
(* e200INTC.lock, every other assignment is not.                           *)
(*                                                                         *)
(* Either thread may execute stepi(): the server does it to get past a     *)
(* breakpoint.  Each exception class is queued once, so the pending list,  *)
(* sorted by priority, is a set here (two threads in stepi at a time could *)
(* queue an interrupt twice; that is left out).  The base class of the     *)
(* server, which speaks the GDB protocol, is outside the repository: a     *)
(* client is taken to send what a client may as soon as _halt_reason says  *)
(* that the target has stopped, be that true or not.                       *)
(***************************************************************************)
EXTENDS Naturals, FiniteSets

CONSTANTS
  Addr,      \* the addresses where a breakpoint can be set
  Elsewhere  \* any other address

Exc == {"reset", "debug", "irq"}

ASSUME ConstAssumption == Elsewhere \notin Addr

VARIABLES
  pending,      \* e200INTC.pending
  hasInterrupt, \* e200INTC.hasInterrupt
  handling,     \* is the handler of irq running (stack and curlvl)?
  pc,           \* what each thread does next
  cur,          \* newexc, the exception it popped
  flag,         \* the value it is about to store in hasInterrupt
  todo,         \* the breakpoints its loop, or its command, has yet to write
  at,           \* the program counter of the core
  run,          \* PPC_e200z7._run
  reason,       \* e200GDB._halt_reason: "none" is SIGNAL_NONE, "trap" is SIGTRAP
  bps,          \* the addresses in e200GDB._bpdata
  inPlace,      \* e200GDB._bps_in_place
  patched,      \* where memory holds a break instruction
  attached,     \* is a client connected?
  overlap,      \* history: has the server executed stepi beside the core?
  haste         \* history: when did a command come before the core was at rest?

intcVars == <<pending, hasInterrupt, handling>>
localVars == <<cur, flag>>
gdbVars == <<bps, inPlace, patched>>
coreVars == <<at, run>>
history == <<overlap, haste>>
vars == <<intcVars, pc, localVars, todo, coreVars, reason, gdbVars, attached, history>>

Thread == {"core", "server"}

\* the labels of stepi with all it calls, and those of the server's commands
Stepping == {"step", "pop", "enter", "eval", "store", "settle", "exec", "reset", "unflag",
             "halt", "reason", "pullup", "lift", "wait"}
Serving == {"idle", "check", "append", "where", "assert", "putdown", "put", "resume",
            "detach", "unlift", "clear", "install", "write", "unwrite", "drop"}

TypeOK ==
  /\ pending \subseteq Exc /\ hasInterrupt \in BOOLEAN /\ handling \in BOOLEAN
  /\ pc \in [Thread -> Stepping \union Serving \union {"dead"}]
  /\ pc["core"] \notin Serving
  /\ cur \in [Thread -> Exc] /\ flag \in [Thread -> BOOLEAN]
  /\ todo \in [Thread -> SUBSET Addr]
  /\ \A t \in Thread :
       /\ pc[t] \in {"enter", "settle"} => cur[t] = "irq"
       /\ pc[t] \in {"reset", "unflag"} => cur[t] = "reset"
  /\ at \in Addr \union {Elsewhere}
  /\ run \in BOOLEAN /\ reason \in {"none", "trap"}
  /\ bps \subseteq Addr /\ inPlace \in BOOLEAN /\ patched \subseteq Addr
  /\ attached \in BOOLEAN /\ overlap \in BOOLEAN
  /\ haste \in {"never", "before", "lately"}

\* as after waitForClient (--gdb-port), and without it
Init ==
  /\ \E wait \in BOOLEAN :
       /\ pending = (IF wait THEN {"debug"} ELSE {})
       /\ hasInterrupt = wait
       /\ reason = (IF wait THEN "trap" ELSE "none")
  /\ handling = FALSE
  /\ pc = [t \in Thread |-> IF t = "core" THEN "step" ELSE "idle"]
  /\ cur = [t \in Thread |-> "irq"] /\ flag = [t \in Thread |-> FALSE]
  /\ todo = [t \in Thread |-> {}]
  /\ at = Elsewhere /\ run = TRUE
  /\ bps = {} /\ inPlace = FALSE /\ patched = {}
  /\ attached = FALSE /\ overlap = FALSE /\ haste = "never"

-----------------------------------------------------------------------------
(* Control.                                                                *)

Goto(t, label) == pc' = [pc EXCEPT ![t] = label]

\* where stepi returns to: run() calls it again, _serverCont goes on
Return(t) == IF t = "core" THEN "step" ELSE "putdown"

\* the server thread's newexc goes out of scope
Forget(t) == cur' = IF t = "core" THEN cur ELSE [cur EXCEPT ![t] = "irq"]

\* An exception that stepi does not catch ends the emulation thread.  What the
\* base class of the server does with one is not in the repository: the server
\* thread gives the command up, or ends.
Raise(t) == \E label \in {"dead"} \union (IF t = "server" THEN {"idle"} ELSE {}) : Goto(t, label)

\* the core waits for a resume
Halted == pc["core"] = "wait" /\ ~run

-----------------------------------------------------------------------------
(* The interrupt controller.                                               *)

Urgent == {"reset", "debug"}

\* self.pending and self.curlvl > self.pending[0].prio: a running handler has
\* the level of irq, which reset and debug precede
Ready(queue, busy) == queue # {} /\ (busy => queue \intersect Urgent # {})

\* the first of the sorted list
First(queue) ==
  IF "reset" \in queue THEN "reset" ELSE IF "debug" \in queue THEN "debug" ELSE "irq"

\* queueException's locked section
Queue(e) ==
  /\ pending' = pending \union {e}
  /\ hasInterrupt' = Ready(pending', handling)
  /\ UNCHANGED handling

-----------------------------------------------------------------------------
(* stepi(), by thread t.                                                   *)

CheckException(t) ==
  /\ pc[t] = "step"
  /\ Goto(t, IF hasInterrupt THEN "pop" ELSE "exec")
  /\ UNCHANGED <<intcVars, localVars, todo, coreVars, reason, gdbVars, attached, history>>

\* an empty list raises IndexError
Pop(t) ==
  /\ pc[t] = "pop"
  /\ IF pending = {}
     THEN Raise(t) /\ UNCHANGED <<pending, cur>>
     ELSE LET e == First(pending) IN
          /\ cur' = [cur EXCEPT ![t] = e]
          /\ pending' = pending \ {e}
          /\ Goto(t, IF e \in Urgent THEN "eval" ELSE "enter")
  /\ UNCHANGED <<hasInterrupt, handling, flag, todo, coreVars, reason, gdbVars, attached, history>>

Enter(t) ==
  /\ pc[t] = "enter"
  /\ handling' = TRUE
  /\ Goto(t, "eval")
  /\ UNCHANGED <<pending, hasInterrupt, localVars, todo, coreVars, reason, gdbVars, attached, history>>

\* mutant: hasInterrupt is set from the list as it was before the pop
EvalStale(t) ==
  /\ pc[t] = "eval"
  /\ flag' = [flag EXCEPT ![t] = TRUE]
  /\ Goto(t, "store")
  /\ UNCHANGED <<intcVars, cur, todo, coreVars, reason, gdbVars, attached, history>>

\* hasInterrupt = pending and curlvl > ..., computed and stored without the lock
Eval(t) ==
  /\ pc[t] = "eval"
  /\ flag' = [flag EXCEPT ![t] = Ready(pending, handling)]
  /\ Goto(t, "store")
  /\ UNCHANGED <<intcVars, cur, todo, coreVars, reason, gdbVars, attached, history>>

Store(t) ==
  /\ pc[t] = "store"
  /\ hasInterrupt' = flag[t]
  /\ flag' = [flag EXCEPT ![t] = FALSE]
  /\ Goto(t, CASE cur[t] = "debug" -> "halt" [] cur[t] = "reset" -> "reset"
               [] cur[t] = "irq" -> "settle")
  /\ UNCHANGED <<pending, handling, cur, todo, coreVars, reason, gdbVars, attached, history>>

\* mutant: handleException does not look at the list again when it has the PC
SettleBlind(t) ==
  /\ pc[t] = "settle"
  /\ Goto(t, "exec")
  /\ UNCHANGED <<intcVars, localVars, todo, coreVars, reason, gdbVars, attached, history>>

\* the end of handleException: once more, under the lock
Settle(t) ==
  /\ pc[t] = "settle"
  /\ hasInterrupt' = Ready(pending, handling)
  /\ Goto(t, "exec")
  /\ UNCHANGED <<pending, handling, localVars, todo, coreVars, reason, gdbVars, attached, history>>

\* one instruction, during which a timer or peripheral may raise an exception, or
\* the handler return
Instruction(t) ==
  /\ pc[t] = "exec" /\ at \notin patched
  /\ at' \in Addr \union {Elsewhere}
  /\ \/ UNCHANGED intcVars
     \/ Queue("irq")
     \/ Queue("reset")
     \/ /\ handling                                       \* e200INTC._rfi
        /\ handling' = FALSE
        /\ hasInterrupt' = Ready(pending, FALSE)
        /\ UNCHANGED pending
  /\ Goto(t, Return(t)) /\ Forget(t)
  /\ UNCHANGED <<flag, todo, run, reason, gdbVars, attached, history>>

\* a DNH instruction raises DebugException out of executeOpcode
Breakpoint(t) ==
  /\ pc[t] = "exec" /\ at \in patched
  /\ Goto(t, "halt")
  /\ UNCHANGED <<intcVars, localVars, todo, coreVars, reason, gdbVars, attached, history>>

\* e200INTC.reset: the lists under the lock, then the flag and the level
Reset(t) ==
  /\ pc[t] = "reset"
  /\ pending' = {}
  /\ Goto(t, "unflag")
  /\ UNCHANGED <<hasInterrupt, handling, localVars, todo, coreVars, reason, gdbVars, attached, history>>

Unflag(t) ==
  /\ pc[t] = "unflag"
  /\ hasInterrupt' = FALSE /\ handling' = FALSE
  /\ at' \in Addr \union {Elsewhere}
  /\ Goto(t, Return(t)) /\ Forget(t)
  /\ UNCHANGED <<pending, flag, todo, run, reason, gdbVars, attached, history>>

-----------------------------------------------------------------------------
(* e200GDB.handleInterrupts, by the thread whose stepi met the exception.  *)

DoHalt(t) ==
  /\ pc[t] = "halt"
  /\ run' = FALSE
  /\ Goto(t, "reason")
  /\ UNCHANGED <<intcVars, localVars, todo, at, reason, gdbVars, attached, history>>

SetReason(t) ==
  /\ pc[t] = "reason"
  /\ reason' = "trap"
  /\ Goto(t, "pullup")
  /\ UNCHANGED <<intcVars, localVars, todo, coreVars, gdbVars, attached, history>>

\* what follows _pullUpBreakpoints in handleInterrupts and in _serverDetach
AfterPullUp(t) == IF pc[t] \in {"pullup", "lift"} THEN "wait" ELSE "clear"

\* mutant: the breakpoints stay in memory while the core is halted
PullUpNothing(t) ==
  /\ pc[t] \in {"pullup", "detach"}
  /\ Goto(t, AfterPullUp(t))
  /\ UNCHANGED <<intcVars, localVars, todo, coreVars, reason, gdbVars, attached, history>>

\* _pullUpBreakpoints: the test, then the loop over _bpdata
PullUp(t) ==
  /\ pc[t] \in {"pullup", "detach"}
  /\ todo' = [todo EXCEPT ![t] = IF inPlace THEN bps ELSE {}]
  /\ Goto(t, CASE ~inPlace -> AfterPullUp(t)
               [] inPlace /\ pc[t] = "pullup" -> "lift"
               [] inPlace /\ pc[t] = "detach" -> "unlift")
  /\ UNCHANGED <<intcVars, localVars, coreVars, reason, gdbVars, attached, history>>

\* an address that _serverDetach has thrown away meanwhile raises KeyError
Lift(t) ==
  /\ pc[t] \in {"lift", "unlift"}
  /\ \E a \in todo[t] :
       IF a \in bps
       THEN /\ patched' = patched \ {a}
            /\ todo' = [todo EXCEPT ![t] = @ \ {a}]
            /\ UNCHANGED pc
       ELSE Raise(t) /\ UNCHANGED <<patched, todo>>
  /\ UNCHANGED <<intcVars, localVars, coreVars, reason, bps, inPlace, attached, history>>

Lifted(t) ==
  /\ pc[t] \in {"lift", "unlift"} /\ todo[t] = {}
  /\ inPlace' = FALSE
  /\ Goto(t, AfterPullUp(t))
  /\ UNCHANGED <<intcVars, localVars, todo, coreVars, reason, bps, patched, attached, history>>

WaitResume(t) ==
  /\ pc[t] = "wait" /\ run
  /\ Goto(t, Return(t))
  /\ UNCHANGED <<intcVars, localVars, todo, coreVars, reason, gdbVars, attached, history>>

Stepi(t) ==
  \/ CheckException(t) \/ Pop(t) \/ Enter(t) \/ Eval(t) \/ Store(t) \/ Settle(t)
  \/ Instruction(t) \/ Breakpoint(t) \/ Reset(t) \/ Unflag(t)
  \/ DoHalt(t) \/ SetReason(t) \/ PullUp(t) \/ Lift(t) \/ Lifted(t) \/ WaitResume(t)

-----------------------------------------------------------------------------
(* The commands of a client.                                               *)

Idle == pc["server"] = "idle"

\* a client that is told that the target has stopped sends a command about it
Stopped == Idle /\ attached /\ reason = "trap"

\* history of a command that a client gives too early, or in time
Hurried == haste' = IF Halted THEN haste ELSE "lately"

\* CPython refuses to go on in a loop over a dictionary that has changed
Torn == IF pc["core"] = "lift" THEN "dead" ELSE pc["core"]

\* _postClientAttach
Attach ==
  /\ Idle /\ ~attached
  /\ attached' = TRUE
  /\ reason' = "trap"
  /\ Goto("server", IF reason = "none" THEN "check" ELSE "idle")
  /\ UNCHANGED <<intcVars, localVars, todo, coreVars, gdbVars, history>>

\* _serverBreak: the client interrupts a core it sees running
Break ==
  /\ Idle /\ attached /\ reason = "none"
  /\ Goto("server", "check")
  /\ UNCHANGED <<intcVars, localVars, todo, coreVars, reason, gdbVars, attached, history>>

\* _serverCont; the base class has forgotten the halt reason when it calls it
Cont ==
  /\ Stopped
  /\ reason' = "none"
  /\ haste' = IF ~Halted THEN "lately" ELSE IF haste = "never" THEN "never" ELSE "before"
  /\ Goto("server", "where")
  /\ UNCHANGED <<intcVars, localVars, todo, coreVars, gdbVars, attached, overlap>>

\* _serverDetach
Detach ==
  /\ Stopped
  /\ attached' = FALSE /\ reason' = "none"
  /\ Hurried
  /\ Goto("server", "detach")
  /\ UNCHANGED <<intcVars, localVars, todo, coreVars, gdbVars, overlap>>

\* _serverSetHWBreak
SetBreak(a) ==
  /\ Stopped
  /\ a \notin bps
  /\ bps' = bps \union {a}
  /\ todo' = [todo EXCEPT !["server"] = {a}]
  /\ pc' = [pc EXCEPT !["core"] = Torn, !["server"] = "install"]
  /\ Hurried
  /\ UNCHANGED <<intcVars, localVars, coreVars, reason, inPlace, patched, attached, overlap>>

\* _serverRemoveHWBreak
RemoveBreak(a) ==
  /\ Stopped
  /\ a \in bps
  /\ todo' = [todo EXCEPT !["server"] = {a}]
  /\ Goto("server", IF inPlace THEN "unwrite" ELSE "drop")
  /\ Hurried
  /\ UNCHANGED <<intcVars, localVars, coreVars, reason, gdbVars, attached, overlap>>

Command ==
  \/ Attach \/ Break \/ Cont \/ Detach
  \/ \E a \in Addr : SetBreak(a) \/ RemoveBreak(a)

-----------------------------------------------------------------------------
(* The server thread.                                                      *)

\* halt_exec: queueException first compares with the pending list, unlocked
CheckDuplicate ==
  /\ pc["server"] = "check"
  /\ Goto("server", IF "debug" \in pending THEN "idle" ELSE "append")
  /\ UNCHANGED <<intcVars, localVars, todo, coreVars, reason, gdbVars, attached, history>>

AppendHalt ==
  /\ pc["server"] = "append"
  /\ Queue("debug")
  /\ Goto("server", "idle")
  /\ UNCHANGED <<localVars, todo, coreVars, reason, gdbVars, attached, history>>

\* _serverCont: is the core at a breakpoint?
ContWhere ==
  /\ pc["server"] = "where"
  /\ Goto("server", IF at \in bps THEN "assert" ELSE "putdown")
  /\ UNCHANGED <<intcVars, localVars, todo, coreVars, reason, gdbVars, attached, history>>

\* assert not self._bps_in_place, and _serverStepi
ContAssert ==
  /\ pc["server"] = "assert"
  /\ IF inPlace
     THEN Raise("server") /\ UNCHANGED overlap
     ELSE Goto("server", "step") /\ overlap' = (overlap \/ ~Halted)
  /\ UNCHANGED <<intcVars, localVars, todo, coreVars, reason, gdbVars, attached, haste>>

\* _putDownBreakpoints
PutDown ==
  /\ pc["server"] = "putdown"
  /\ todo' = [todo EXCEPT !["server"] = IF inPlace THEN {} ELSE bps]
  /\ Goto("server", IF inPlace THEN "resume" ELSE "put")
  /\ UNCHANGED <<intcVars, localVars, coreVars, reason, gdbVars, attached, history>>

Put ==
  /\ pc["server"] = "put"
  /\ \E a \in todo["server"] :
       /\ patched' = patched \union {a}
       /\ todo' = [todo EXCEPT !["server"] = @ \ {a}]
  /\ UNCHANGED <<intcVars, pc, localVars, coreVars, reason, bps, inPlace, attached, history>>

AllPut ==
  /\ pc["server"] = "put" /\ todo["server"] = {}
  /\ inPlace' = TRUE
  /\ Goto("server", "resume")
  /\ UNCHANGED <<intcVars, localVars, todo, coreVars, reason, bps, patched, attached, history>>

ResumeExec ==
  /\ pc["server"] = "resume"
  /\ run' = TRUE
  /\ Goto("server", "idle")
  /\ UNCHANGED <<intcVars, localVars, todo, at, reason, gdbVars, attached, history>>

\* _bpdata = {}; _bps_in_place is FALSE already
DetachClear ==
  /\ pc["server"] = "clear"
  /\ bps' = {} /\ inPlace' = FALSE
  /\ Goto("server", "resume")
  /\ UNCHANGED <<intcVars, localVars, todo, coreVars, reason, patched, attached, history>>

\* _serverSetHWBreak: "If breakpoints are currently installed, add the new one."
Install ==
  /\ pc["server"] = "install"
  /\ Goto("server", IF inPlace THEN "write" ELSE "idle")
  /\ todo' = IF inPlace THEN todo ELSE [todo EXCEPT !["server"] = {}]
  /\ UNCHANGED <<intcVars, localVars, coreVars, reason, gdbVars, attached, history>>

Write ==
  /\ pc["server"] = "write"
  /\ patched' = patched \union todo["server"]
  /\ Goto("server", "idle")
  /\ todo' = [todo EXCEPT !["server"] = {}]
  /\ UNCHANGED <<intcVars, localVars, coreVars, reason, bps, inPlace, attached, history>>

\* _serverRemoveHWBreak: the original bytes, if the break is in memory
Unwrite ==
  /\ pc["server"] = "unwrite"
  /\ patched' = patched \ todo["server"]
  /\ Goto("server", "drop")
  /\ UNCHANGED <<intcVars, localVars, todo, coreVars, reason, bps, inPlace, attached, history>>

Drop ==
  /\ pc["server"] = "drop"
  /\ bps' = bps \ todo["server"]
  /\ pc' = [pc EXCEPT !["core"] = Torn, !["server"] = "idle"]
  /\ todo' = [todo EXCEPT !["server"] = {}]
  /\ UNCHANGED <<intcVars, localVars, coreVars, reason, inPlace, patched, attached, history>>

Serve ==
  \/ CheckDuplicate \/ AppendHalt \/ ContWhere \/ ContAssert \/ PutDown \/ Put \/ AllPut
  \/ ResumeExec \/ DetachClear \/ Install \/ Write \/ Unwrite \/ Drop

Next == Stepi("core") \/ Stepi("server") \/ Serve \/ Command

Spec == Init /\ [][Next]_vars

\* both threads keep running; nothing makes a client send a command
FairSpec == Spec /\ WF_vars(Stepi("core")) /\ WF_vars(Stepi("server") \/ Serve)

-----------------------------------------------------------------------------
(* Properties.                                                             *)

\* Two threads write hasInterrupt, one of them without the lock.  The flag may
\* fall behind the list, but it is never ahead of it: when it is TRUE, what
\* handleException pops is there, and is above the level.
FlagNeverAhead ==
  pc["core"] \in {"step", "pop"} /\ hasInterrupt => Ready(pending, handling)

\* An exception queued while another one enters its handler is never overlooked:
\* handleException looks again under the lock, and from there the flag is exact
\* until a reset or debug exception is taken.
FlagExactAfterHandler ==
  pc["core"] = "step" /\ cur["core"] = "irq" => hasInterrupt = Ready(pending, handling)

\* What stepi may rely on when it looks at the flag without the lock: the two
\* statements above, which the check in queueException and the second look of
\* handleException keep between them.  It holds for as long as no client continues
\* so early, and just at a breakpoint, that both threads execute stepi at a time.
FlagTrusted == ~overlap => FlagNeverAhead /\ FlagExactAfterHandler

\* A halt the debugger asks for after a handler was entered is acted upon: the
\* core stops or resets, it does not run on for ever (two threads in stepi apart).
HaltServed ==
  (pc["core"] = "step" /\ cur["core"] = "irq" /\ "debug" \in pending)
    ~> ("debug" \notin pending \/ overlap)

\* The breakpoints, for any client.  A core at rest has none of them in place (the
\* assertion in _serverCont), and its memory holds no break instruction at all if
\* no command ever came before the core was at rest.  A continue that comes when
\* it is at rest restores all of them until the next stop is reported, whatever the
\* client did too early before.  (And the state has its types.)
BreakpointsRestored ==
  /\ TypeOK
  /\ Halted /\ Idle =>
       /\ ~inPlace
       /\ haste = "never" => patched = {}
  /\ attached /\ run /\ reason = "none" /\ haste # "lately" => bps \subseteq patched

\* "At each emulator stop, we want to replace the original bytes.  On resume, we
\* put the Break instruction bytes back in" (_putDownBreakpoints).  handleInterrupts
\* reports the stop first and lifts the breakpoints after that, so a continue in
\* between finds them in place, leaves them to be lifted, and the core runs without.
BreakpointsArmed ==
  ~overlap /\ Idle =>
    /\ Halted => patched = {}
    /\ attached /\ reason = "none" /\ pc["core"] \in {"step", "exec"} => bps \subseteq patched

\* "The breakpoints should not be installed because we are halted" (_serverCont).
AssertionHolds == pc["server"] = "assert" => ~inPlace

\* "Should have no problem doing stepi in the server thread because the primary
\* thread should be halted" (_serverCont): the server thread, which alone can
\* resume the core, never waits for that itself.
ServerNeverWaits == pc["server"] # "wait"

\* "Since the client has detached let the core start executing" (_serverDetach):
\* without a client, a core that was let go does not stay halted.
DetachedRuns == pc["server"] = "clear" ~> (attached \/ []~Halted)

=============================================================================
