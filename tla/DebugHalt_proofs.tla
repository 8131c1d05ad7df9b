--------------------------- MODULE DebugHalt_proofs ---------------------------
(***************************************************************************)
(* Proofs about DebugHalt, for any set of addresses and any client: what   *)
(* stepi may conclude from a flag that two threads write, and where break  *)
(* instructions are when the debugger has stopped or resumed the core.     *)
(***************************************************************************)
EXTENDS DebugHalt, TLAPS

\* between the pop of an exception and the end of its handling
Mid == {"enter", "eval", "store", "settle", "reset", "unflag"}
\* outside of that
Ahead == {"step", "pop", "exec", "halt", "reason", "pullup", "lift", "wait"}
\* the same without the pop, which names a new exception
Calm == {"step", "exec", "halt", "reason", "pullup", "lift", "wait"}
\* the server has no command about a stopped target in hand
Away == {"idle", "check", "append", "dead"}

\* The flag, followed to where it was computed: a handler that was entered has
\* looked again, and who executes stepi is alone with the list.
FlagInv ==
  ~overlap =>
    /\ pc["server"] \in Stepping => Halted
    /\ pc["server"] = "store" => flag["server"] = Ready(pending, handling)
    /\ pc["server"] = "unflag" => pending = {}
    /\ pc["core"] = "store" /\ flag["core"] => Ready(pending, handling)
    /\ pc["server"] \notin Mid =>
         /\ pc["core"] \in Ahead /\ hasInterrupt => Ready(pending, handling)
         /\ pc["core"] \in Calm /\ cur["core"] = "irq" => hasInterrupt = Ready(pending, handling)

\* Whose turn it is: a server that steps the core has passed the assertion, and one
\* whose command came in time finds the core at rest until it resumes it.
TurnInv ==
  /\ pc["server"] \in Stepping => ~inPlace
  /\ pc["server"] # "lift"
  /\ Halted /\ inPlace => pc["server"] = "resume"
  /\ haste # "lately" /\ pc["server"] \notin Away => Halted
  /\ haste # "lately" => pc["server"] \notin {"unlift", "write", "unwrite"}
  /\ pc["server"] \in {"detach", "unlift", "clear"} => ~attached
  /\ pc["server"] \in {"install", "write", "unwrite", "drop"} => reason = "trap"
  /\ attached /\ reason = "none" /\ haste # "lately" => pc["core"] \notin {"pullup", "lift"}

\* A continue that came in time has put down all breakpoints when it resumes.
ArmInv ==
  haste # "lately" /\ attached =>
    /\ pc["server"] = "put" => bps \subseteq patched \union todo["server"]
    /\ pc["server"] = "resume" => bps \subseteq patched
    /\ run /\ reason = "none" => bps \subseteq patched

\* Without a hurried command, memory is what _bps_in_place says.
CleanInv ==
  haste = "never" =>
    /\ patched \subseteq bps
    /\ ~inPlace /\ pc["server"] # "put" => patched = {}
    /\ pc["core"] = "lift" => patched \subseteq todo["core"]
    /\ pc["server"] = "put" => todo["server"] \subseteq bps

PatchInv == TurnInv /\ ArmInv /\ CleanInv
IInv == TypeOK /\ FlagInv /\ PatchInv

-----------------------------------------------------------------------------
(* The list.                                                               *)

\* What is popped is there.
LEMMA FirstIsThere ==
  ASSUME NEW S \in SUBSET Exc, S # {}
  PROVE  First(S) \in S /\ First(S) \in Exc
BY DEF First, Exc

LEMMA InitHolds == Init => IInv
<1> SUFFICES ASSUME Init PROVE IInv
  OBVIOUS
<1>1. /\ pc["core"] = "step" /\ pc["server"] = "idle" /\ cur["core"] = "irq" /\ run = TRUE
      /\ patched = {} /\ bps = {} /\ inPlace = FALSE /\ attached = FALSE
  BY DEF Init, Thread
<1>2. PICK wait \in BOOLEAN : /\ pending = (IF wait THEN {"debug"} ELSE {}) /\ hasInterrupt = wait
                              /\ reason = (IF wait THEN "trap" ELSE "none")
  BY DEF Init
<1>3. TypeOK
  BY <1>1, <1>2 DEF Init, TypeOK, Exc, Thread, Stepping, Serving
<1>4. hasInterrupt = Ready(pending, handling)
  BY <1>2 DEF Init, Ready
<1> QED
  BY <1>1, <1>3, <1>4 DEF IInv, FlagInv, PatchInv, TurnInv, ArmInv, CleanInv, Halted, Stepping, Away

-----------------------------------------------------------------------------
(* The types.                                                              *)

USE DEF intcVars, localVars, coreVars, gdbVars, history

LEMMA StepiType ==
  ASSUME TypeOK, NEW t \in Thread, Stepi(t)
  PROVE  TypeOK'
<1> USE DEF TypeOK, Thread, Stepping, Serving, Goto, Raise, Return, Forget
<1>1. CASE CheckException(t)
  BY <1>1 DEF CheckException
<1>2. CASE Pop(t)
  <2>1. CASE pending = {}
    BY <1>2, <2>1 DEF Pop
  <2>2. CASE pending # {}
    <3> DEFINE e == First(pending)
    <3>1. e \in Exc
      BY <2>2, FirstIsThere
    <3>2. /\ cur' = [cur EXCEPT ![t] = e] /\ pending' = pending \ {e}
          /\ pc' = [pc EXCEPT ![t] = IF e \in Urgent THEN "eval" ELSE "enter"]
      BY <1>2, <2>2 DEF Pop
    <3>3. e \notin Urgent => e = "irq"
      BY <3>1 DEF Exc, Urgent
    <3> HIDE DEF e
    <3> QED
      BY <1>2, <3>1, <3>2, <3>3 DEF Pop
  <2> QED
    BY <2>1, <2>2
<1>3. CASE Enter(t)
  BY <1>3 DEF Enter
<1>4. CASE Eval(t)
  BY <1>4 DEF Eval, Ready
<1>5. CASE Store(t)
  BY <1>5 DEF Store, Exc
<1>6. CASE Settle(t)
  BY <1>6 DEF Settle, Ready
<1>7. CASE Instruction(t)
  BY <1>7 DEF Instruction, Queue, Ready, Exc
<1>8. CASE Breakpoint(t)
  BY <1>8 DEF Breakpoint
<1>9. CASE Reset(t)
  BY <1>9 DEF Reset
<1>10. CASE Unflag(t)
  BY <1>10 DEF Unflag, Exc
<1>15. CASE DoHalt(t)
  BY <1>15 DEF DoHalt
<1>16. CASE SetReason(t)
  BY <1>16 DEF SetReason
<1>11. CASE PullUp(t)
  BY <1>11 DEF PullUp, AfterPullUp
<1>12. CASE Lift(t)
  BY <1>12 DEF Lift
<1>13. CASE Lifted(t)
  BY <1>13 DEF Lifted, AfterPullUp
<1>14. CASE WaitResume(t)
  BY <1>14 DEF WaitResume
<1> QED
  BY <1>1, <1>2, <1>3, <1>4, <1>5, <1>6, <1>7, <1>8, <1>9, <1>10, <1>11, <1>12, <1>13, <1>14,
     <1>15, <1>16
  DEF Stepi

LEMMA CommandType == ASSUME TypeOK, Command PROVE TypeOK'
<1> USE DEF TypeOK, Thread, Stepping, Serving, Goto, Stopped, Idle, Hurried, Torn
<1>1. CASE Attach
  BY <1>1 DEF Attach
<1>2. CASE Break
  BY <1>2 DEF Break
<1>3. CASE Cont
  BY <1>3 DEF Cont
<1>4. CASE Detach
  BY <1>4 DEF Detach
<1>5. ASSUME NEW a \in Addr, SetBreak(a) PROVE TypeOK'
  BY <1>5 DEF SetBreak
<1>6. ASSUME NEW a \in Addr, RemoveBreak(a) PROVE TypeOK'
  BY <1>6 DEF RemoveBreak
<1> QED
  BY <1>1, <1>2, <1>3, <1>4, <1>5, <1>6 DEF Command

LEMMA ServeType == ASSUME TypeOK, Serve PROVE TypeOK'
<1> USE DEF TypeOK, Thread, Stepping, Serving, Goto, Raise, Torn
<1>1. CASE CheckDuplicate
  BY <1>1 DEF CheckDuplicate
<1>9. CASE ContWhere
  BY <1>9 DEF ContWhere
<1>10. CASE ResumeExec
  BY <1>10 DEF ResumeExec
<1>2. CASE AppendHalt
  BY <1>2 DEF AppendHalt, Queue, Ready, Exc
<1>3. CASE ContAssert
  <2>1. overlap' \in BOOLEAN
    BY <1>3 DEF ContAssert
  <2> QED
    BY <1>3, <2>1 DEF ContAssert
<1>4. CASE PutDown
  BY <1>4 DEF PutDown
<1>11. CASE AllPut
  BY <1>11 DEF AllPut
<1>12. CASE DetachClear
  BY <1>12 DEF DetachClear
<1>5. CASE Put
  BY <1>5 DEF Put
<1>6. CASE Install
  BY <1>6 DEF Install
<1>7. CASE Write \/ Unwrite
  BY <1>7 DEF Write, Unwrite
<1>8. CASE Drop
  BY <1>8 DEF Drop
<1> QED
  BY <1>1, <1>2, <1>3, <1>4, <1>5, <1>6, <1>7, <1>8, <1>9, <1>10, <1>11, <1>12
  DEF Serve

LEMMA TypeStep == ASSUME TypeOK, [Next]_vars PROVE TypeOK'
<1>1. CASE UNCHANGED vars
  BY <1>1 DEF vars, TypeOK
<1> QED
  BY <1>1, StepiType, CommandType, ServeType DEF Next, Thread

-----------------------------------------------------------------------------
(* The flag.                                                               *)

USE DEF Mid, Ahead, Calm, Away, Thread, Goto

\* Who executes stepi is alone: the other thread is at rest, or has no command.
LEMMA CoreFlag ==
  ASSUME TypeOK, FlagInv, ~overlap, Stepi("core")
  PROVE  FlagInv'
<1> USE DEF TypeOK, FlagInv, Return, Forget, Halted
<1>0. pc["server"] \notin Stepping
  BY DEF Stepi, CheckException, Pop, Enter, Eval, Store, Settle, Instruction, Breakpoint, Reset,
     Unflag, DoHalt, SetReason, PullUp, Lift, Lifted, WaitResume
<1>a. pc["server"] \notin Mid /\ pc["server"] # "store" /\ pc["server"] # "unflag"
  BY <1>0 DEF Stepping
<1>b. ASSUME pc'["server"] = pc["server"], overlap' = overlap,
             pc'["core"] = "store" /\ flag'["core"] => Ready(pending', handling'),
             pc'["core"] \in Ahead /\ hasInterrupt' => Ready(pending', handling'),
             pc'["core"] \in Calm /\ cur'["core"] = "irq" => hasInterrupt' = Ready(pending', handling')
      PROVE  FlagInv'
  BY <1>0, <1>a, <1>b
<1> USE <1>0, <1>a, <1>b
<1>1. CASE CheckException("core")
  BY <1>1 DEF CheckException, Ready
<1>2. CASE Pop("core")
  BY <1>2 DEF Pop, Ready, Raise
<1>3. CASE Enter("core")
  BY <1>3 DEF Enter
<1>4. CASE Eval("core")
  BY <1>4 DEF Eval
<1>5. CASE Store("core")
  BY <1>5 DEF Store, Exc, Ready
<1>6. CASE Settle("core")
  BY <1>6 DEF Settle
<1>7. CASE Instruction("core")
  BY <1>7 DEF Instruction, Queue, Ready
<1>8. CASE Breakpoint("core")
  BY <1>8 DEF Breakpoint
<1>9. CASE Reset("core")
  BY <1>9 DEF Reset
<1>10. CASE Unflag("core")
  BY <1>10 DEF Unflag
<1>11. CASE DoHalt("core")
  BY <1>11 DEF DoHalt
<1>12. CASE SetReason("core")
  BY <1>12 DEF SetReason
<1>13. CASE PullUp("core")
  BY <1>13 DEF PullUp, AfterPullUp
<1>14. CASE Lift("core")
  BY <1>14 DEF Lift, Raise
<1>15. CASE Lifted("core")
  BY <1>15 DEF Lifted, AfterPullUp
<1>16. CASE WaitResume("core")
  BY <1>16 DEF WaitResume
<1> QED
  BY <1>1, <1>2, <1>3, <1>4, <1>5, <1>6, <1>7, <1>8, <1>9, <1>10, <1>11, <1>12, <1>13, <1>14,
     <1>15, <1>16
  DEF Stepi

\* The server steps the core while that waits, and what it leaves behind is exact.
LEMMA ServerFlag ==
  ASSUME TypeOK, FlagInv, ~overlap, Stepi("server")
  PROVE  FlagInv'
<1> USE DEF TypeOK, FlagInv, Return, Forget, Halted
<1>0. pc["server"] \in Stepping \/ pc["server"] \in {"detach", "unlift"}
  BY DEF Stepi, CheckException, Pop, Enter, Eval, Store, Settle, Instruction, Breakpoint, Reset,
     Unflag, DoHalt, SetReason, PullUp, Lift, Lifted, WaitResume, Stepping
<1>a. pc["server"] \in Stepping => pc["core"] = "wait" /\ ~run
  OBVIOUS
<1>1. CASE CheckException("server")
  BY <1>1, <1>a DEF CheckException, Ready, Stepping
<1>2. CASE Pop("server")
  BY <1>2, <1>a DEF Pop, Ready, Raise, Stepping
<1>3. CASE Enter("server")
  BY <1>3, <1>a DEF Enter, Stepping
<1>4. CASE Eval("server")
  BY <1>4, <1>a DEF Eval, Stepping, Ready
<1>5. CASE Store("server")
  BY <1>5, <1>a DEF Store, Exc, Ready, Stepping
<1>6. CASE Settle("server")
  BY <1>6, <1>a DEF Settle, Stepping
<1>7. CASE Instruction("server")
  BY <1>7, <1>a DEF Instruction, Queue, Ready, Stepping
<1>8. CASE Breakpoint("server")
  BY <1>8, <1>a DEF Breakpoint, Stepping
<1>9. CASE Reset("server")
  BY <1>9, <1>a DEF Reset, Stepping
<1>10. CASE Unflag("server")
  BY <1>10, <1>a DEF Unflag, Ready, Stepping
<1>11. CASE DoHalt("server")
  BY <1>11, <1>a DEF DoHalt, Stepping
<1>12. CASE SetReason("server")
  BY <1>12, <1>a DEF SetReason, Stepping
<1>13. CASE PullUp("server")
  BY <1>13, <1>a DEF PullUp, AfterPullUp, Stepping
<1>14. CASE Lift("server")
  BY <1>14, <1>a DEF Lift, Raise, Stepping
<1>15. CASE Lifted("server")
  BY <1>15, <1>a DEF Lifted, AfterPullUp, Stepping
<1>16. CASE WaitResume("server")
  BY <1>16, <1>a DEF WaitResume, Stepping
<1> QED
  BY <1>1, <1>2, <1>3, <1>4, <1>5, <1>6, <1>7, <1>8, <1>9, <1>10, <1>11, <1>12, <1>13, <1>14,
     <1>15, <1>16
  DEF Stepi

LEMMA CommandFlag == ASSUME TypeOK, FlagInv, Command PROVE FlagInv'
<1> USE DEF TypeOK, FlagInv, Halted, Stopped, Idle, Torn, Stepping
<1>1. CASE Attach
  BY <1>1 DEF Attach
<1>2. CASE Break
  BY <1>2 DEF Break
<1>3. CASE Cont
  BY <1>3 DEF Cont
<1>4. CASE Detach
  BY <1>4 DEF Detach
<1>5. ASSUME NEW a \in Addr, SetBreak(a) PROVE FlagInv'
  BY <1>5 DEF SetBreak
<1>6. ASSUME NEW a \in Addr, RemoveBreak(a) PROVE FlagInv'
  BY <1>6 DEF RemoveBreak
<1> QED
  BY <1>1, <1>2, <1>3, <1>4, <1>5, <1>6 DEF Command

LEMMA ServeFlag == ASSUME TypeOK, FlagInv, Serve PROVE FlagInv'
<1> USE DEF TypeOK, FlagInv, Halted, Torn, Stepping
<1>1. CASE CheckDuplicate
  BY <1>1 DEF CheckDuplicate
<1>2. CASE AppendHalt
  <2>1. pending' = pending \union {"debug"} /\ handling' = handling
        /\ hasInterrupt' = Ready(pending', handling')
    BY <1>2 DEF AppendHalt, Queue
  <2>2. Ready(pending, handling) => Ready(pending', handling')
    <3>1. handling \in BOOLEAN
      OBVIOUS
    <3>2. Ready(pending, handling) => Ready(pending \union {"debug"}, handling)
      BY <3>1 DEF Ready
    <3> QED
      BY <2>1, <3>2
  <2> QED
    BY <1>2, <2>1, <2>2 DEF AppendHalt
<1>3. CASE ContWhere
  BY <1>3 DEF ContWhere
<1>4. CASE ContAssert
  BY <1>4 DEF ContAssert, Raise
<1>5. CASE PutDown
  BY <1>5 DEF PutDown
<1>6. CASE Put
  BY <1>6 DEF Put
<1>7. CASE AllPut
  BY <1>7 DEF AllPut
<1>8. CASE ResumeExec
  BY <1>8 DEF ResumeExec
<1>9. CASE DetachClear
  BY <1>9 DEF DetachClear
<1>10. CASE Install
  BY <1>10 DEF Install
<1>11. CASE Write
  BY <1>11 DEF Write
<1>12. CASE Unwrite
  BY <1>12 DEF Unwrite
<1>13. CASE Drop
  BY <1>13 DEF Drop
<1> QED
  BY <1>1, <1>2, <1>3, <1>4, <1>5, <1>6, <1>7, <1>8, <1>9, <1>10, <1>11, <1>12, <1>13 DEF Serve

LEMMA FlagStep == ASSUME TypeOK, FlagInv, [Next]_vars PROVE FlagInv'
<1>1. CASE UNCHANGED vars
  BY <1>1 DEF vars, FlagInv, Halted, Ready
<1>2. ASSUME NEW t \in Thread, Stepi(t) PROVE overlap' = overlap
  BY <1>2 DEF Stepi, CheckException, Pop, Enter, Eval, Store, Settle, Instruction, Breakpoint, Reset,
     Unflag, DoHalt, SetReason, PullUp, Lift, Lifted, WaitResume
<1>3. CASE Stepi("core") \/ Stepi("server")
  <2>1. CASE overlap
    BY <1>2, <1>3, <2>1 DEF FlagInv
  <2> QED
    BY <2>1, <1>3, CoreFlag, ServerFlag
<1> QED
  BY <1>1, <1>3, CommandFlag, ServeFlag DEF Next

-----------------------------------------------------------------------------
(* The breakpoints.                                                        *)

LEMMA CorePatch == ASSUME TypeOK, PatchInv, Stepi("core") PROVE PatchInv'
<1> USE DEF TypeOK, PatchInv, TurnInv, ArmInv, CleanInv, Return, Halted
<1>0. ASSUME pc["core"] # "wait"
      PROVE  haste = "lately" \/ pc["server"] \in Away
  BY <1>0
<1>1. CASE CheckException("core")
  BY <1>1 DEF CheckException
<1>2. CASE Pop("core")
  BY <1>2 DEF Pop, Raise
<1>3. CASE Enter("core") \/ Eval("core") \/ Store("core") \/ Settle("core")
  <2>1. pc'["core"] \notin {"wait", "pullup", "lift"} /\ pc'["server"] = pc["server"]
    BY <1>3 DEF Enter, Eval, Store, Settle, Exc
  <2>2. UNCHANGED <<todo, coreVars, reason, gdbVars, attached, history>> /\ pc["core"] # "wait"
    BY <1>3 DEF Enter, Eval, Store, Settle
  <2> QED
    BY <2>1, <2>2, <1>0
<1>7. CASE Instruction("core")
  BY <1>7 DEF Instruction
<1>8. CASE Breakpoint("core")
  BY <1>8 DEF Breakpoint
<1>9. CASE Reset("core") \/ Unflag("core")
  BY <1>9 DEF Reset, Unflag
<1>11. CASE DoHalt("core")
  BY <1>11, <1>0 DEF DoHalt
<1>12. CASE SetReason("core")
  BY <1>12, <1>0 DEF SetReason
<1>13. CASE PullUp("core")
  BY <1>13, <1>0 DEF PullUp, AfterPullUp
<1>14. CASE Lift("core")
  <2>0. pc["core"] = "lift" /\ pc["core"] # "wait" /\ pc'["server"] = pc["server"]
    BY <1>14 DEF Lift, Raise, Serving
  <2>1. UNCHANGED <<coreVars, reason, bps, inPlace, attached, history>>
    BY <1>14 DEF Lift
  <2>2. PICK a \in todo["core"] :
          IF a \in bps
          THEN /\ patched' = patched \ {a} /\ pc' = pc
               /\ todo' = [todo EXCEPT !["core"] = @ \ {a}]
          ELSE pc'["core"] = "dead" /\ patched' = patched /\ todo' = todo
    BY <1>14 DEF Lift, Raise, Serving
  <2>3. TurnInv'
    BY <2>0, <2>1, <2>2, <1>0
  <2>4. ArmInv'
    BY <2>0, <2>1, <2>2, <1>0
  <2>5. CleanInv'
    BY <2>0, <2>1, <2>2, <1>0
  <2> QED
    BY <2>3, <2>4, <2>5
<1>15. CASE Lifted("core")
  <2>0. /\ pc["core"] = "lift" /\ todo["core"] = {} /\ inPlace' = FALSE
        /\ pc'["core"] = "wait" /\ pc'["server"] = pc["server"]
    BY <1>15 DEF Lifted, AfterPullUp, Serving
  <2>1. UNCHANGED <<todo, coreVars, reason, bps, patched, attached, history>>
    BY <1>15 DEF Lifted
  <2>2. pc["core"] # "wait"
    BY <2>0
  <2> QED
    BY <2>0, <2>1, <2>2, <1>0
<1>16. CASE WaitResume("core")
  BY <1>16 DEF WaitResume
<1> QED
  BY <1>1, <1>2, <1>3, <1>7, <1>8, <1>9, <1>11, <1>12, <1>13, <1>14, <1>15, <1>16 DEF Stepi

LEMMA ServerPatch == ASSUME TypeOK, PatchInv, Stepi("server") PROVE PatchInv'
<1> USE DEF TypeOK, PatchInv, TurnInv, ArmInv, CleanInv, Return, Halted, Stepping
<1>1. CASE CheckException("server")
  BY <1>1 DEF CheckException
<1>2. CASE Pop("server")
  BY <1>2 DEF Pop, Raise
<1>3. CASE Enter("server") \/ Eval("server") \/ Store("server") \/ Settle("server")
  <2>1. /\ pc'["server"] \in Stepping /\ pc'["server"] # "lift" /\ pc'["core"] = pc["core"]
        /\ pc["server"] \in Stepping
    BY <1>3 DEF Enter, Eval, Store, Settle, Exc
  <2>2. UNCHANGED <<todo, coreVars, reason, gdbVars, attached, history>>
    BY <1>3 DEF Enter, Eval, Store, Settle
  <2> QED
    BY <2>1, <2>2
<1>7. CASE Instruction("server")
  BY <1>7 DEF Instruction
<1>8. CASE Breakpoint("server")
  BY <1>8 DEF Breakpoint
<1>9. CASE Reset("server") \/ Unflag("server")
  BY <1>9 DEF Reset, Unflag
<1>11. CASE DoHalt("server")
  BY <1>11 DEF DoHalt
<1>12. CASE SetReason("server")
  BY <1>12 DEF SetReason
<1>13. CASE PullUp("server")
  BY <1>13 DEF PullUp, AfterPullUp
<1>14. CASE Lift("server")
  BY <1>14 DEF Lift, Raise
<1>15. CASE Lifted("server")
  BY <1>15 DEF Lifted, AfterPullUp
<1>16. CASE WaitResume("server")
  BY <1>16 DEF WaitResume
<1> QED
  BY <1>1, <1>2, <1>3, <1>7, <1>8, <1>9, <1>11, <1>12, <1>13, <1>14, <1>15, <1>16 DEF Stepi

LEMMA CommandPatch == ASSUME TypeOK, PatchInv, Command PROVE PatchInv'
<1> USE DEF TypeOK, PatchInv, TurnInv, ArmInv, CleanInv, Halted, Stopped, Idle, Torn, Stepping, Hurried
<1>1. CASE Attach
  BY <1>1 DEF Attach
<1>2. CASE Break
  BY <1>2 DEF Break
<1>3. CASE Cont
  BY <1>3 DEF Cont
<1>4. CASE Detach
  BY <1>4 DEF Detach
<1>5. ASSUME NEW a \in Addr, SetBreak(a) PROVE PatchInv'
  BY <1>5 DEF SetBreak
<1>6. ASSUME NEW a \in Addr, RemoveBreak(a) PROVE PatchInv'
  BY <1>6 DEF RemoveBreak
<1> QED
  BY <1>1, <1>2, <1>3, <1>4, <1>5, <1>6 DEF Command

LEMMA ServePatch == ASSUME TypeOK, PatchInv, Serve PROVE PatchInv'
<1> USE DEF TypeOK, PatchInv, TurnInv, ArmInv, CleanInv, Halted, Torn, Stepping
<1>1. CASE CheckDuplicate
  BY <1>1 DEF CheckDuplicate
<1>2. CASE AppendHalt
  BY <1>2 DEF AppendHalt
<1>3. CASE ContWhere
  BY <1>3 DEF ContWhere
<1>4. CASE ContAssert
  BY <1>4 DEF ContAssert, Raise
<1>5. CASE PutDown
  BY <1>5 DEF PutDown
<1>6. CASE Put
  BY <1>6 DEF Put
<1>7. CASE AllPut
  BY <1>7 DEF AllPut
<1>8. CASE ResumeExec
  BY <1>8 DEF ResumeExec
<1>9. CASE DetachClear
  BY <1>9 DEF DetachClear
<1>10. CASE Install
  BY <1>10 DEF Install
<1>11. CASE Write
  BY <1>11 DEF Write
<1>12. CASE Unwrite
  BY <1>12 DEF Unwrite
<1>13. CASE Drop
  BY <1>13 DEF Drop
<1> QED
  BY <1>1, <1>2, <1>3, <1>4, <1>5, <1>6, <1>7, <1>8, <1>9, <1>10, <1>11, <1>12, <1>13 DEF Serve

LEMMA PatchStep == ASSUME TypeOK, PatchInv, [Next]_vars PROVE PatchInv'
<1>1. CASE UNCHANGED vars
  BY <1>1 DEF vars, PatchInv, TurnInv, ArmInv, CleanInv, Halted
<1> QED
  BY <1>1, CorePatch, ServerPatch, CommandPatch, ServePatch DEF Next

-----------------------------------------------------------------------------
(* The theorems.                                                           *)

\* The invariant of both threads is inductive.
THEOREM Invariance == Spec => []IInv
<1>1. IInv /\ [Next]_vars => IInv'
  BY TypeStep, FlagStep, PatchStep DEF IInv
<1> QED
  BY <1>1, InitHolds, PTL DEF Spec

\* The flag that stepi looks at without the lock is never ahead of the list, and is
\* exact from the entry into a handler on until a reset or a debug exception is taken,
\* for any client that does not make both threads execute stepi at a time.
THEOREM FlagIsTrusted == Spec => []FlagTrusted
<1>1. IInv => FlagTrusted
  BY DEF IInv, FlagInv, FlagTrusted, FlagNeverAhead, FlagExactAfterHandler, Stepping, Halted
<1> QED
  BY <1>1, Invariance, PTL

\* For any client: a core at rest has no breakpoint in place, its memory is clean
\* unless a command was hurried, and a continue given at rest restores them all.
THEOREM ContinueRestores == Spec => []BreakpointsRestored
<1>1. IInv => BreakpointsRestored
  BY DEF IInv, PatchInv, TurnInv, ArmInv, CleanInv, BreakpointsRestored, Idle
<1> QED
  BY <1>1, Invariance, PTL

=============================================================================
