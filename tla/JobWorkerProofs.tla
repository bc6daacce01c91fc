-------------------------- MODULE JobWorkerProofs --------------------------
(***************************************************************************)
(* The safety properties of JobWorker, proved for every set of heap blocks *)
(* and whether or not the window can be closed.                            *)
(***************************************************************************)
EXTENDS JobWorker, TLAPS

(* The labels of the three threads. *)
LEMMA GotoType ==
  ASSUME PcOK, NEW t \in Thread, NEW from, NEW to \in Label(t), Goto(t, from, to)
  PROVE  PcOK'
BY DEF PcOK, Goto, Label

(* worker_thread stays at its labels. *)
LEMMA WorkerPc == ASSUME PcOK, WorkerStep PROVE PcOK'
<1>1. "worker" \in Thread BY DEF Thread
<1>2. PICK from, to \in Label("worker") : Goto("worker", from, to)
  BY DEF WorkerStep, SendFails, WorkerTop, WorkerAnnounce, WorkerWait, WorkerWoken,
     WorkerCheck, WorkerLock, WorkerPop, WorkerBegin, WorkerFree, WorkerPost,
     RoutineSend, RoutineCheck, RoutineLock, RoutineEnd, RoutineReturn,
     Step, Lock, SetState, Label, WorkerLabel
<1> QED BY <1>1, <1>2, GotoType

(* check_job_worker_exit stays at the labels of its caller. *)
LEMMA ExitPc ==
  ASSUME PcOK, NEW t \in {"ui", "scrambler"}, ExitStep(t) PROVE PcOK'
<1>1. t \in Thread BY DEF Thread
<1>2. PICK from, to \in Label(t) : Goto(t, from, to)
  BY DEF ExitStep, ExitCheck, ExitWait, ExitLock, ExitDrain, ExitClose,
     AfterExit, Step, Lock, Label, UILabel, ScramblerLabel, ExitLabel
<1> QED BY <1>1, <1>2, GotoType

(* The window's thread stays at its labels. *)
LEMMA UIPc == ASSUME PcOK, DataOK, UIStep PROVE PcOK'
<1>1. CASE Start
  BY <1>1 DEF Start, PcOK, Thread, Label, WorkerLabel, UILabel, ScramblerLabel
<1>2. CASE HandlerReply
  BY <1>2 DEF HandlerReply, PcOK, DataOK, Nobody, Thread, Label, WorkerLabel, UILabel,
     ScramblerLabel
<1>4. CASE ExitStep("ui")
  BY <1>4, ExitPc
<1>5. CASE ExitProcess("ui", "closed")
  BY <1>5 DEF ExitProcess, PcOK
<1>6. CASE \/ Handle("worker") \/ Handle("scrambler") \/ HandlerAdd \/ AddLock
           \/ AddInsert \/ AddSignal \/ Timer \/ Cancel
  <2>1. "ui" \in Thread BY DEF Thread
  <2>2. PICK from, to \in Label("ui") : Goto("ui", from, to)
    BY <1>6 DEF Handle, HandlerAdd, AddLock, AddInsert, AddSignal, Timer, Cancel,
       Step, Lock, Signal, Label, UILabel, ExitLabel
  <2> QED BY <2>1, <2>2, GotoType
<1> QED BY <1>1, <1>2, <1>4, <1>5, <1>6 DEF UIStep

(* data_scramble_work stays at its labels. *)
LEMMA ScramblerPc == ASSUME PcOK, ScramblerStep PROVE PcOK'
<1>1. CASE ExitStep("scrambler")
  BY <1>1, ExitPc
<1>2. CASE ExitProcess("scrambler", "idle") \/ ExitProcess("scrambler", "report")
  BY <1>2 DEF ExitProcess, PcOK
<1>3. CASE \/ ScramblerStart \/ ScramblerNext \/ ScramblerSent
           \/ SendFails("scrambler", "wait") \/ ScramblerWait \/ ScramblerPoll \/ DoneLock \/ DoneRead \/ DoneState \/ EndFlag
           \/ EndState \/ EndSignal \/ ScramblerReport
  <2>1. "scrambler" \in Thread BY DEF Thread
  <2>2. PICK from, to \in Label("scrambler") : Goto("scrambler", from, to)
    BY <1>3 DEF SendFails, ScramblerStart, ScramblerNext, ScramblerSent, ScramblerWait,
       ScramblerPoll, DoneLock, DoneRead, DoneState, EndFlag, EndState, EndSignal,
       ScramblerReport, Step, Lock, SetState, Signal, RaiseFlag, Label,
       ScramblerLabel, ExitLabel
  <2> QED BY <2>1, <2>2, GotoType
<1> QED BY <1>1, <1>2, <1>3 DEF ScramblerStep


(* What unlinking the head of a list gives. *)
LEMMA HeadTail ==
  ASSUME NEW S, NEW s \in Seq(S), s # <<>>
  PROVE  Head(s) \in S /\ Tail(s) \in Seq(S)
OBVIOUS

(* The steps that the threads have in common keep the types of the data. *)
LEMMA CommonData ==
  ASSUME DataOK, NEW t \in Thread, NEW from, NEW to, NEW state \in {0, WAIT_WORK_JOB},
         \/ Step(t, from, to) \/ Lock(t, from, to) \/ Signal(t, from, to)
         \/ RaiseFlag(t, from, to) \/ SetState(t, from, to, state)
  PROVE  DataOK'
<1> USE DEF DataOK, flags, sync, data, heap, locals, message
<1>1. CASE Step(t, from, to)
  BY <1>1 DEF Step
<1>2. CASE Lock(t, from, to)
  BY <1>2 DEF Lock, LockMutex
<1>3. CASE Signal(t, from, to)
  BY <1>3 DEF Signal, HandleField
<1>4. CASE RaiseFlag(t, from, to)
  BY <1>4 DEF RaiseFlag
<1>5. CASE SetState(t, from, to, state)
  BY <1>5 DEF SetState
<1> QED BY <1>1, <1>2, <1>3, <1>4, <1>5

(* The types of the data after a step of worker_thread. *)
LEMMA WorkerData == ASSUME DataOK, WorkerStep PROVE DataOK'
<1>0. "worker" \in Thread /\ 0 \in {0, WAIT_WORK_JOB} BY DEF Thread
<1>1. CASE WorkerPop
  <2>1. works' \in Seq(Block) /\ entry' \in Block \union {NoBlock}
    BY <1>1, HeadTail DEF WorkerPop, DataOK
  <2> QED
    BY <1>0, <1>1, <2>1 DEF WorkerPop, UnlockMutex, DataOK, flags, sync, data, heap, message
<1>2. CASE WorkerWait
  BY <1>2 DEF WorkerWait, DataOK, flags, data, heap, locals, message
<1>3. CASE WorkerBegin
  BY <1>3 DEF WorkerBegin, DataOK, flags, sync, data, heap, message
<1>4. CASE WorkerFree
  BY <1>4 DEF WorkerFree, DataOK, flags, sync, heap, locals, message
<1>5. CASE RoutineEnd
  BY <1>0, <1>5 DEF RoutineEnd, UnlockMutex, DataOK, data, heap, locals, message
<1>6. CASE WorkerLock \/ RoutineLock
  BY <1>0, <1>6, CommonData DEF WorkerLock, RoutineLock
<1>7. CASE WorkerAnnounce \/ WorkerWoken
  BY <1>0, <1>7, CommonData DEF WorkerAnnounce, WorkerWoken
<1>8. CASE \/ WorkerTop \/ WorkerCheck \/ WorkerPost
           \/ RoutineSend \/ SendFails("worker", "sent") \/ RoutineCheck \/ RoutineReturn
  BY <1>0, <1>8, CommonData
  DEF SendFails, WorkerTop, WorkerCheck, WorkerPost, RoutineSend, RoutineCheck, RoutineReturn
<1> QED BY <1>1, <1>2, <1>3, <1>4, <1>5, <1>6, <1>7, <1>8 DEF WorkerStep

(* ... of check_job_worker_exit. *)
LEMMA ExitData ==
  ASSUME DataOK, NEW t \in {"ui", "scrambler"}, ExitStep(t) PROVE DataOK'
<1>0. t \in Thread /\ 0 \in {0, WAIT_WORK_JOB} BY DEF Thread
<1>1. CASE ExitDrain(t)
  BY <1>0, <1>1 DEF ExitDrain, UnlockMutex, DataOK, flags, sync, data, heap, locals, message
<1>2. CASE ExitCheck(t) \/ ExitWait(t) \/ ExitLock(t)
  BY <1>0, <1>2, CommonData DEF ExitCheck, ExitWait, ExitLock
<1>3. ASSUME NEW f, NEW from, NEW to, ExitClose(t, f, from, to) PROVE DataOK'
  <2>1. handle' \in [HandleField -> BOOLEAN]
    BY <1>3 DEF ExitClose, DataOK
  <2> QED BY <1>3, <2>1 DEF ExitClose, DataOK, flags, sync, data, heap, locals, message
<1> QED BY <1>1, <1>2, <1>3, ExitStep(t) DEF ExitStep

(* add_job_to_worker holds a block until it has queued it. *)
JobHeld == pc["ui"] \in {"add_lock", "add_insert"} => new_job \in Block

(* ... of the window's thread. *)
LEMMA UIData == ASSUME DataOK, JobHeld, UIStep PROVE DataOK'
<1>0. "ui" \in Thread /\ 0 \in {0, WAIT_WORK_JOB} BY DEF Thread
<1>1. CASE ExitStep("ui")
  BY <1>1, ExitData
<1>2. CASE Start
  BY <1>2 DEF Start, DataOK, flags, sync, data, heap, locals, message
<1>3. CASE Handle("worker") \/ Handle("scrambler") \/ HandlerReply
  BY <1>3 DEF Handle, HandlerReply, DataOK, flags, sync, data, heap, locals, message
<1>4. CASE HandlerAdd
  BY <1>4 DEF HandlerAdd, DataOK, flags, sync, heap, locals, message
<1>5. CASE AddInsert
  <2>1. new_job \in Block
    BY <1>5 DEF AddInsert, Goto, JobHeld
  <2> QED
    BY <1>0, <1>5, <2>1
    DEF AddInsert, UnlockMutex, DataOK, flags, heap, locals, message
<1>7. CASE AddLock
  BY <1>0, <1>7, CommonData DEF AddLock
<1>8. CASE AddSignal
  BY <1>0, <1>8, CommonData DEF AddSignal
<1>9. CASE Timer \/ Cancel
  BY <1>0, <1>9, CommonData DEF Timer, Cancel
<1>10. CASE ExitProcess("ui", "closed")
  BY <1>10 DEF ExitProcess, DataOK, flags, sync, data, heap, locals, message
<1> QED
  BY <1>1, <1>2, <1>3, <1>4, <1>5, <1>7, <1>8, <1>9, <1>10 DEF UIStep

(* ... of data_scramble_work. *)
LEMMA ScramblerData == ASSUME DataOK, ScramblerStep PROVE DataOK'
<1>0. "scrambler" \in Thread /\ 0 \in {0, WAIT_WORK_JOB} BY DEF Thread
<1>1. CASE ExitStep("scrambler")
  BY <1>1, ExitData
<1>2. CASE DoneRead
  BY <1>0, <1>2 DEF DoneRead, UnlockMutex, DataOK, flags, data, heap, locals, message
<1>3. CASE ScramblerNext
  <2>1. CASE Step("scrambler", "idle", "ended")
    BY <1>0, <2>1, CommonData
  <2> QED
    BY <1>3, <2>1, JobWorkerAssumption
    DEF ScramblerNext, DataOK, flags, sync, data, heap, locals
<1>4. CASE \/ ScramblerStart \/ ScramblerSent
           \/ SendFails("scrambler", "wait") \/ ScramblerWait \/ ScramblerPoll \/ DoneState \/ ScramblerReport
  BY <1>0, <1>4, CommonData
  DEF SendFails, ScramblerStart, ScramblerSent, ScramblerWait, ScramblerPoll, DoneState, ScramblerReport
<1>5. CASE DoneLock \/ EndFlag \/ EndState \/ EndSignal
  BY <1>0, <1>5, CommonData DEF DoneLock, EndFlag, EndState, EndSignal
<1>6. CASE ExitProcess("scrambler", "idle") \/ ExitProcess("scrambler", "report")
  BY <1>6 DEF ExitProcess, DataOK, flags, sync, data, heap, locals, message
<1> QED BY <1>1, <1>2, <1>3, <1>4, <1>5, <1>6 DEF ScramblerStep


(* The thread a step belongs to. *)
LEMMA NextCases ==
  ASSUME [Next]_jobVars
  PROVE  WorkerStep \/ UIStep \/ ScramblerStep \/ UNCHANGED jobVars
BY DEF Next, Gone

(* What the steps of a thread leave alone. *)
LEMMA WorkerFrame ==
  ASSUME PcOK, WorkerStep
  PROVE  /\ pc'["ui"] = pc["ui"] /\ pc'["scrambler"] = pc["scrambler"]
         /\ pc["worker"] = "send" => pc["ui"] = "closed"
         /\ pc["worker"] \notin {"none", "exited"} /\ pc'["worker"] # "none"
         /\ UNCHANGED <<handle, new_job, sender, url_todo, click_todo, exited>>
<1>1. PICK from \in WorkerLabel \ {"none", "exited"}, to \in WorkerLabel \ {"none"} :
        Goto("worker", from, to) /\ (from = "send" => pc["ui"] = "closed")
  BY DEF WorkerLabel, WorkerStep, SendFails, WorkerTop, WorkerAnnounce, WorkerWait, WorkerWoken,
     WorkerCheck, WorkerLock, WorkerPop, WorkerBegin, WorkerFree, WorkerPost,
     RoutineSend, RoutineCheck, RoutineLock, RoutineEnd, RoutineReturn,
     Step, Lock, SetState
<1>2. /\ pc'["ui"] = pc["ui"] /\ pc'["scrambler"] = pc["scrambler"]
      /\ pc["worker"] = from /\ pc'["worker"] = to
  BY <1>1 DEF Goto, PcOK, Thread
<1>3. UNCHANGED <<handle, new_job, sender, url_todo, click_todo, exited>>
  BY DEF WorkerStep, SendFails, WorkerTop, WorkerAnnounce, WorkerWait, WorkerWoken,
     WorkerCheck, WorkerLock, WorkerPop, WorkerBegin, WorkerFree, WorkerPost,
     RoutineSend, RoutineCheck, RoutineLock, RoutineEnd, RoutineReturn,
     Step, Lock, SetState, data, message
<1> QED BY <1>1, <1>2, <1>3

AfterLabel == ExitLabel \union {"loop", "closed", "wait", "report"}

(* What check_job_worker_exit leaves alone. *)
LEMMA ExitFrame ==
  ASSUME PcOK, NEW t \in {"ui", "scrambler"}, ExitStep(t)
  PROVE  /\ \A u \in Thread \ {t} : pc'[u] = pc[u]
         /\ pc[t] \in ExitLabel /\ pc'[t] \in AfterLabel
         /\ UNCHANGED <<flags, work_notify, new_job, locals, message, exited>>
<1>1. PICK from \in ExitLabel, to \in AfterLabel : Goto(t, from, to)
  BY DEF ExitStep, ExitCheck, ExitWait, ExitLock, ExitDrain, ExitClose,
     AfterExit, Step, Lock, ExitLabel, AfterLabel
<1>2. /\ \A u \in Thread \ {t} : pc'[u] = pc[u]
      /\ pc[t] \in ExitLabel /\ pc'[t] \in AfterLabel
  BY <1>1 DEF Goto, PcOK, Thread
<1>3. UNCHANGED <<flags, work_notify, new_job, locals, message, exited>>
  BY DEF ExitStep, ExitCheck, ExitWait, ExitLock, ExitDrain, ExitClose,
     Step, Lock, data, sync
<1> QED BY <1>2, <1>3

(* What data_scramble_work leaves alone. *)
LEMMA ScramblerFrame ==
  ASSUME PcOK, ScramblerStep
  PROVE  /\ pc'["ui"] = pc["ui"] /\ pc'["worker"] = pc["worker"]
         /\ pc["scrambler"] = "send" => pc["ui"] = "closed"
         /\ pc["scrambler"] \notin {"none", "ended"}
         /\ UNCHANGED <<new_job, locals, url_todo, sender>>
<1>1. CASE ExitStep("scrambler")
  BY <1>1, ExitFrame DEF Thread, message, ExitLabel
<1>2. CASE ExitProcess("scrambler", "idle") \/ ExitProcess("scrambler", "report")
  BY <1>2 DEF ExitProcess, data, message
<1>3. CASE \/ ScramblerStart \/ ScramblerNext \/ ScramblerSent
           \/ SendFails("scrambler", "wait") \/ ScramblerWait \/ ScramblerPoll \/ DoneLock \/ DoneRead \/ DoneState \/ EndFlag
           \/ EndState \/ EndSignal \/ ScramblerReport
  <2>1. PICK from, to : Goto("scrambler", from, to)
    BY <1>3 DEF SendFails, ScramblerStart, ScramblerNext, ScramblerSent, ScramblerWait,
       ScramblerPoll, DoneLock, DoneRead, DoneState, EndFlag, EndState, EndSignal,
       ScramblerReport, Step, Lock, SetState, Signal, RaiseFlag
  <2>2. pc'["ui"] = pc["ui"] /\ pc'["worker"] = pc["worker"]
    BY <2>1 DEF Goto, PcOK, Thread
  <2>4. (pc["scrambler"] = "send" => pc["ui"] = "closed") /\ pc["scrambler"] \notin {"none", "ended"}
    BY <1>3 DEF SendFails, ScramblerStart, ScramblerNext, ScramblerSent, ScramblerWait,
       ScramblerPoll, DoneLock, DoneRead, DoneState, EndFlag, EndState, EndSignal,
       ScramblerReport, Step, Lock, SetState, Signal, RaiseFlag, Goto
  <2>3. UNCHANGED <<new_job, locals, url_todo, sender>>
    BY <1>3 DEF SendFails, ScramblerStart, ScramblerNext, ScramblerSent, ScramblerWait,
       ScramblerPoll, DoneLock, DoneRead, DoneState, EndFlag, EndState, EndSignal,
       ScramblerReport, Step, Lock, SetState, Signal, RaiseFlag, data, message
  <2> QED BY <2>2, <2>3, <2>4
<1> QED BY <1>1, <1>2, <1>3 DEF ScramblerStep

(* add_job_to_worker holds a block until it has inserted it. *)
LEMMA JobHeldStep == ASSUME TypeOK, JobHeld, [Next]_jobVars PROVE JobHeld'
<1> USE DEF TypeOK
<1>1. CASE WorkerStep
  BY <1>1, WorkerFrame DEF JobHeld
<1>2. CASE ScramblerStep
  BY <1>2, ScramblerFrame DEF JobHeld
<1>3. CASE UIStep
  <2> USE DEF JobHeld, PcOK, Thread
  <2>1. CASE HandlerAdd
    BY <2>1 DEF HandlerAdd, Goto
  <2>2. CASE AddLock
    BY <2>2 DEF AddLock, Lock, Goto, data
  <2>3. CASE Start \/ HandlerReply
    BY <2>3 DEF Start, HandlerReply, DataOK, Nobody
  <2>4. CASE \/ Handle("worker") \/ Handle("scrambler") \/ AddInsert \/ AddSignal
             \/ Timer \/ Cancel
    BY <2>4 DEF Handle, AddInsert, AddSignal, Timer, Cancel, Goto, Step,
       Signal, RaiseFlag
  <2>5. CASE ExitStep("ui")
    BY <2>5 DEF ExitStep, ExitCheck, ExitWait, ExitLock, ExitDrain, ExitClose, AfterExit,
       Step, Lock, Goto
  <2>6. CASE ExitProcess("ui", "closed")
    BY <2>6 DEF ExitProcess, data
  <2> QED BY <1>3, <2>1, <2>2, <2>3, <2>4, <2>5, <2>6 DEF UIStep
<1>4. CASE UNCHANGED jobVars
  BY <1>4 DEF jobVars, data, JobHeld
<1> QED BY <1>1, <1>2, <1>3, <1>4, NextCases

(* The type invariant holds at the start. *)
LEMMA InitType == Init => TypeOK /\ JobHeld
<1> SUFFICES ASSUME Init PROVE TypeOK /\ JobHeld
  OBVIOUS
<1>1. PcOK /\ JobHeld
  BY DEF Init, PcOK, Label, Thread, WorkerLabel, UILabel, ScramblerLabel, JobHeld
<1>2. handle \in [HandleField -> BOOLEAN] /\ works \in Seq(Block)
  BY DEF Init
<1>3. DataOK
  BY <1>2 DEF Init, DataOK
<1> QED BY <1>1, <1>3 DEF TypeOK

TypeInv == TypeOK /\ JobHeld

(* The type invariant is inductive. *)
LEMMA TypeInvStep == TypeInv /\ [Next]_jobVars => TypeInv'
<1> SUFFICES ASSUME TypeInv, [Next]_jobVars PROVE TypeInv'
  OBVIOUS
<1>1. TypeOK'
  <2>1. CASE WorkerStep
    BY <2>1, WorkerPc, WorkerData DEF TypeInv, TypeOK
  <2>2. CASE UIStep
    BY <2>2, UIPc, UIData DEF TypeInv, TypeOK
  <2>3. CASE ScramblerStep
    BY <2>3, ScramblerPc, ScramblerData DEF TypeInv, TypeOK
  <2>4. CASE UNCHANGED jobVars
    BY <2>4
    DEF jobVars, flags, sync, data, heap, locals, message, TypeInv, TypeOK, PcOK, DataOK
  <2> QED BY <2>1, <2>2, <2>3, <2>4, NextCases
<1> QED BY <1>1, JobHeldStep DEF TypeInv

(* Every variable keeps its type (TypeOK): in particular the list never    *)
(* holds a pointer that malloc did not return, whatever the interleaving   *)
(* of add_job_to_worker with the worker and with check_job_worker_exit.    *)
THEOREM Typing == Spec => []TypeOK
<1>1. Init => TypeInv
  BY InitType DEF TypeInv
<1>2. TypeInv => TypeOK
  BY DEF TypeInv
<1> QED BY <1>1, <1>2, TypeInvStep, PTL DEF Spec

-----------------------------------------------------------------------------
(* The handles *)

Handling == {"handler", "add_lock", "add_insert", "add_signal", "reply"}

(* While the window's thread handles a message its sender is blocked. *)
SenderInv ==
  /\ pc["ui"] \in Handling => sender \in {"worker", "scrambler"}
  /\ pc["ui"] \notin Handling => sender = Nobody
  /\ sender # Nobody => pc[sender] = "send"

(* The labels that a thread reaches only when the worker is over. *)
Closing == {"x_lock", "x_drain", "x_close", "x_worker", "x_notify"}

HandleInv ==
  /\ pc["ui"] = "init" => pc["worker"] = "none" /\ pc["scrambler"] = "none"
  /\ HandlesOutliveWorker
  /\ \A t \in {"ui", "scrambler"} : pc[t] \in Closing => WorkerOver

SafeInv == TypeInv /\ SenderInv /\ HandleInv

(* The message being handled stays that of a waiting thread. *)
LEMMA SenderStep == ASSUME TypeOK, SenderInv, [Next]_jobVars PROVE SenderInv'
<1> USE DEF TypeOK, SenderInv
<1>1. CASE WorkerStep
  BY <1>1, WorkerFrame DEF DataOK, Handling, Nobody
<1>2. CASE ScramblerStep
  BY <1>2, ScramblerFrame DEF DataOK, Handling
<1>3. CASE UIStep
  <2> USE DEF PcOK, Thread, Handling
  <2>1. CASE Handle("worker") \/ Handle("scrambler")
    BY <2>1 DEF Handle, Goto, Nobody
  <2>2. CASE HandlerReply
    BY <2>2 DEF HandlerReply, Nobody
  <2>3. CASE Start
    BY <2>3 DEF Start, message, Nobody
  <2>4. CASE HandlerAdd \/ AddLock \/ AddInsert \/ AddSignal \/ Timer \/ Cancel
    BY <2>4 DEF HandlerAdd, AddLock, AddInsert, AddSignal, Timer, Cancel, Goto,
      Step, Lock, Signal, RaiseFlag, message
  <2>5. CASE ExitStep("ui")
    BY <2>5, ExitFrame DEF message, ExitLabel, AfterLabel
  <2>6. CASE ExitProcess("ui", "closed")
    BY <2>6 DEF ExitProcess, message
  <2> QED BY <1>3, <2>1, <2>2, <2>3, <2>4, <2>5, <2>6 DEF UIStep
<1>4. CASE UNCHANGED jobVars
  BY <1>4 DEF jobVars, message
<1> QED BY <1>1, <1>2, <1>3, <1>4, NextCases

(* No step closes a handle that the worker may still use. *)
LEMMA HandleStep ==
  ASSUME TypeOK, SenderInv, HandleInv, [Next]_jobVars PROVE HandleInv'
<1> USE DEF TypeOK, HandleInv, HandlesOutliveWorker
<1>1. CASE WorkerStep
  BY <1>1, WorkerFrame DEF WorkerOver
<1>2. CASE ScramblerStep
  <2>1. UNCHANGED WorkerOver /\ pc["ui"] # "init"
    BY <1>2, ScramblerFrame DEF WorkerOver
  <2>2. CASE ExitStep("scrambler")
    <3>1. (~WorkerOver)' => UNCHANGED handle
      BY <2>1, <2>2 DEF ExitStep, ExitCheck, ExitWait, ExitLock, ExitDrain, ExitClose,
         Goto, Step, Lock, Closing
    <3>2. pc'["scrambler"] \in Closing => WorkerOver
      BY <2>2 DEF ExitStep, ExitCheck, ExitWait, ExitLock, ExitDrain, ExitClose,
         AfterExit, Goto, Step, Lock, PcOK, Thread, Closing, HandleField
    <3> QED BY <1>2, <2>1, <3>1, <3>2, ScramblerFrame
  <2>3. CASE ~ExitStep("scrambler")
    <3>1. UNCHANGED handle
      BY <1>2, <2>3 DEF ScramblerStep, SendFails, ScramblerStart, ScramblerNext, ScramblerSent,
       ScramblerWait, ScramblerPoll, DoneLock, DoneRead, DoneState, EndFlag, EndState,
       EndSignal, ScramblerReport, ExitProcess, Step, Lock, SetState, Signal, RaiseFlag
    <3>2. pc'["scrambler"] \notin Closing \/ UNCHANGED pc
      BY <1>2, <2>3 DEF ScramblerStep, SendFails, ScramblerStart, ScramblerNext, ScramblerSent,
       ScramblerWait, ScramblerPoll, DoneLock, DoneRead, DoneState, EndFlag, EndState,
       EndSignal, ScramblerReport, ExitProcess, Step, Lock, SetState, Signal, RaiseFlag,
       Goto, Closing, PcOK, Thread
    <3> QED BY <1>2, <2>1, <3>1, <3>2, ScramblerFrame
  <2> QED BY <2>2, <2>3
<1>3. CASE UIStep
  <2> USE DEF PcOK, Thread, Closing, HandleField
  <2>1. CASE ExitStep("ui")
    <3>1. UNCHANGED WorkerOver /\ pc["ui"] # "init" /\ pc'["ui"] # "init"
      BY <2>1, ExitFrame DEF WorkerOver, ExitLabel, AfterLabel
    <3>2. (~WorkerOver)' => UNCHANGED handle
      BY <2>1, <3>1 DEF ExitStep, ExitCheck, ExitWait, ExitLock, ExitDrain, ExitClose,
         Goto, Step, Lock
    <3>3. pc'["ui"] \in Closing => WorkerOver
      BY <2>1 DEF ExitStep, ExitCheck, ExitWait, ExitLock, ExitDrain, ExitClose,
         AfterExit, Goto, Step, Lock
    <3> QED BY <2>1, <3>1, <3>2, <3>3, ExitFrame
  <2>2. CASE Start
    <3>1. PICK created \in BOOLEAN :
            /\ handle' = [f \in HandleField |-> f # "worker" \/ created]
            /\ pc' = [pc EXCEPT !["worker"] = IF created THEN "top" ELSE "none",
                                !["scrambler"] = "start", !["ui"] = "loop"]
      BY <2>2 DEF Start
    <3>2. created => \A f \in HandleField : handle'[f]
      BY <3>1
    <3>3. /\ pc'["worker"] = IF created THEN "top" ELSE "none"
          /\ pc'["scrambler"] = "start" /\ pc'["ui"] = "loop"
      BY <3>1
    <3> QED BY <3>2, <3>3 DEF WorkerOver
  <2>3. CASE HandlerReply
    <3>1. sender \in {"worker", "scrambler"} /\ pc[sender] = "send"
      BY <2>3 DEF HandlerReply, SenderInv, Handling, Nobody
    <3>2. /\ UNCHANGED handle /\ pc'["ui"] = "loop" /\ pc'[sender] = "sent"
          /\ \A t \in Thread \ {"ui", sender} : pc'[t] = pc[t]
      BY <2>3, <3>1 DEF HandlerReply
    <3> QED BY <3>1, <3>2 DEF WorkerOver
  <2>5. CASE HandlerAdd \/ AddLock \/ AddInsert \/ AddSignal \/ Timer \/ Cancel
             \/ Handle("worker") \/ Handle("scrambler")
    <3>1. /\ UNCHANGED <<pc["worker"], pc["scrambler"], handle>>
          /\ pc["ui"] # "init" /\ pc'["ui"] \notin Closing \union {"init"}
      BY <2>5 DEF HandlerAdd, AddLock, AddInsert, AddSignal, Timer, Cancel,
         Handle, Goto, Step, Lock, Signal, RaiseFlag
    <3> QED BY <3>1 DEF WorkerOver
  <2>6. CASE ExitProcess("ui", "closed")
    BY <2>6 DEF ExitProcess, WorkerOver
  <2> QED BY <1>3, <2>1, <2>2, <2>3, <2>5, <2>6 DEF UIStep
<1>4. CASE UNCHANGED jobVars
  BY <1>4 DEF jobVars, WorkerOver
<1> QED BY <1>1, <1>2, <1>3, <1>4, NextCases

(* Types, senders and handles hold in every state. *)
LEMMA SafeInvSpec == Spec => []SafeInv
<1>1. Init => SafeInv
  <2>1. Init => SenderInv /\ HandleInv
    BY DEF Init, SenderInv, HandleInv, Handling, HandlesOutliveWorker, WorkerOver,
       Closing, Thread
  <2> QED BY <2>1, InitType DEF SafeInv, TypeInv
<1>2. SafeInv /\ [Next]_jobVars => SafeInv'
  BY TypeInvStep, SenderStep, HandleStep DEF SafeInv, TypeInv
<1> QED BY <1>1, <1>2, PTL DEF Spec

(* HandlesOutliveWorker holds for any number of jobs: data_scramble_work   *)
(* and the window's timer, which both call check_job_worker_exit, close    *)
(* the handles only after the worker thread is over.                       *)
THEOREM HandlesSafe == Spec => []HandlesOutliveWorker
<1>1. SafeInv => HandlesOutliveWorker
  BY DEF SafeInv, HandleInv
<1> QED BY <1>1, SafeInvSpec, PTL

(* NoStartAfterStop: worker_thread tests stop_working between unlinking a  *)
(* job and running it, and nothing ever clears the flag.                   *)
THEOREM NoLateStart == Spec => NoStartAfterStop
<1>1. SafeInv /\ [Next]_jobVars => (stop_working => (InRoutine' => InRoutine))
  <2> SUFFICES ASSUME SafeInv, [Next]_jobVars, stop_working, InRoutine' PROVE InRoutine
    OBVIOUS
  <2> USE DEF SafeInv, TypeInv, TypeOK, PcOK, Thread, InRoutine
  <2>1. CASE WorkerStep
    BY <2>1 DEF WorkerStep, SendFails, WorkerTop, WorkerAnnounce, WorkerWait, WorkerWoken,
     WorkerCheck, WorkerLock, WorkerPop, WorkerBegin, WorkerFree, WorkerPost,
     RoutineSend, RoutineCheck, RoutineLock, RoutineEnd, RoutineReturn,
     Step, Lock, SetState, Goto
  <2>2. CASE ScramblerStep
    BY <2>2, ScramblerFrame
  <2>3. CASE UIStep
    <3>1. CASE ExitStep("ui")
      BY <3>1, ExitFrame
    <3>2. CASE Start
      BY <3>2 DEF Start
    <3>3. CASE HandlerReply
      BY <3>3 DEF HandlerReply, SenderInv, Handling, Nobody
    <3>4. CASE HandlerAdd \/ AddLock \/ AddInsert \/ AddSignal \/ Timer \/ Cancel
             \/ Handle("worker") \/ Handle("scrambler")
      BY <3>4 DEF HandlerAdd, AddLock, AddInsert, AddSignal, Timer, Cancel,
         Handle, Goto, Step, Lock, Signal, RaiseFlag
    <3>5. CASE ExitProcess("ui", "closed")
      BY <3>5 DEF ExitProcess
    <3> QED BY <2>3, <3>1, <3>2, <3>3, <3>4, <3>5 DEF UIStep
  <2>4. CASE UNCHANGED jobVars
    BY <2>4 DEF jobVars
  <2> QED BY <2>1, <2>2, <2>3, <2>4, NextCases
<1> QED BY <1>1, SafeInvSpec, PTL DEF Spec, NoStartAfterStop

-----------------------------------------------------------------------------
(* The mutex *)

(* Labels at which data_scramble_work may still use the list. *)
ListUse == {"d_lock", "d_read", "d_state", "x_check", "x_wait", "x_lock", "x_drain",
            "x_close"}

LockInv ==
  /\ \A t \in Thread : InList(t) /\ handle["work_lock"] => lock_owner = t
  /\ pc["ui"] \in ExitLabel => pc["scrambler"] = "ended"
  /\ ~handle["work_lock"] /\ pc["scrambler"] \notin {"none", "ended"} =>
       \/ pc["scrambler"] = "x_worker"
       \/ ~handle["worker"] /\ pc["scrambler"] \notin ListUse

(* NULL handles, and jobs that are dropped, follow a stop. *)
StopInv ==
  /\ pc["worker"] = "none" => ~handle["worker"]
  /\ pc["worker"] = "none" => \A t \in {"ui", "scrambler"} : pc[t] # "x_wait"
  /\ pc["worker"] = "exited" => stop_working
  /\ \A t \in {"ui", "scrambler"} : pc[t] \in {"x_lock", "x_drain"} => stop_working

(* What a step of the window's thread does to the worker thread. *)
LEMMA UIWorker ==
  ASSUME PcOK, SenderInv, UIStep
  PROVE  /\ \/ UNCHANGED pc["worker"]
            \/ pc["ui"] = "init" /\ pc'["worker"] \in {"none", "top"}
            \/ HandlerReply /\ pc["worker"] = "send" /\ pc'["worker"] = "sent"
         /\ UNCHANGED <<locals, flags>>
<1> USE DEF PcOK, Thread
<1>1. CASE ExitStep("ui")
  BY <1>1, ExitFrame DEF flags
<1>2. CASE Start
  BY <1>2 DEF Start, flags
<1>4. CASE HandlerReply
  <2>1. pc[sender] = "send"
    BY <1>4 DEF HandlerReply, SenderInv, Handling, Nobody
  <2> QED BY <1>4, <2>1 DEF HandlerReply, flags
<1>5. CASE HandlerAdd \/ AddLock \/ AddInsert \/ AddSignal \/ Timer \/ Cancel
             \/ Handle("worker") \/ Handle("scrambler")
  BY <1>5 DEF HandlerAdd, AddLock, AddInsert, AddSignal, Timer, Cancel,
     Handle, Goto, Step, Lock, Signal, RaiseFlag, flags
<1>6. CASE ExitProcess("ui", "closed")
  BY <1>6 DEF ExitProcess, flags
<1> QED BY <1>1, <1>2, <1>4, <1>5, <1>6 DEF UIStep

(* The worker thread runs in the order of its code. *)
LEMMA WorkerOrder ==
  ASSUME PcOK, WorkerStep
  PROVE  /\ pc'["worker"] = "exited" => stop_working
         /\ stop_working => stop_working'
         /\ pc'["worker"] = "announce" => pc["worker"] = "top" /\ ~stop_working
         /\ pc'["worker"] = "wait" => pc["worker"] = "announce"
         /\ pc'["worker"] = "woken" => pc["worker"] = "wait"
<1>1. stop_working => stop_working'
  BY DEF WorkerStep, SendFails, WorkerTop, WorkerAnnounce, WorkerWait, WorkerWoken,
     WorkerCheck, WorkerLock, WorkerPop, WorkerBegin, WorkerFree, WorkerPost,
     RoutineSend, RoutineCheck, RoutineLock, RoutineEnd, RoutineReturn,
     Step, Lock, SetState, Goto, PcOK, Thread, flags
<1>2. /\ pc'["worker"] = "exited" => stop_working
      /\ pc'["worker"] = "announce" => pc["worker"] = "top" /\ ~stop_working
  BY DEF WorkerStep, SendFails, WorkerTop, WorkerAnnounce, WorkerWait, WorkerWoken,
     WorkerCheck, WorkerLock, WorkerPop, WorkerBegin, WorkerFree, WorkerPost,
     RoutineSend, RoutineCheck, RoutineLock, RoutineEnd, RoutineReturn,
     Step, Lock, SetState, Goto, PcOK, Thread, flags
<1>3. /\ pc'["worker"] = "wait" => pc["worker"] = "announce"
      /\ pc'["worker"] = "woken" => pc["worker"] = "wait"
  BY DEF WorkerStep, SendFails, WorkerTop, WorkerAnnounce, WorkerWait, WorkerWoken,
     WorkerCheck, WorkerLock, WorkerPop, WorkerBegin, WorkerFree, WorkerPost,
     RoutineSend, RoutineCheck, RoutineLock, RoutineEnd, RoutineReturn,
     Step, Lock, SetState, Goto, PcOK, Thread, flags
<1> QED BY <1>1, <1>2, <1>3

(* A worker that was not stopped is not over, and the scrambler relies on it. *)
LEMMA StopStep ==
  ASSUME TypeOK, SenderInv, HandleInv, StopInv, [Next]_jobVars PROVE StopInv'
<1> USE DEF TypeOK, StopInv
<1>1. CASE WorkerStep
  BY <1>1, WorkerFrame, WorkerOrder
<1>2. CASE ScramblerStep
  <2> USE DEF PcOK, Thread
  <2>1. UNCHANGED <<pc["worker"], pc["ui"]>>
    BY <1>2, ScramblerFrame
  <2>2. (handle["worker"])' => handle["worker"]
    BY <1>2 DEF ScramblerStep, SendFails, ScramblerStart, ScramblerNext, ScramblerSent,
       ScramblerWait, ScramblerPoll, DoneLock, DoneRead, DoneState, EndFlag, EndState,
       EndSignal, ScramblerReport, ExitProcess, ExitStep, ExitCheck, ExitWait, ExitLock,
       ExitDrain, ExitClose, Step, Lock, SetState, Signal, RaiseFlag, DataOK, HandleField
  <2>3. stop_working => stop_working'
    BY <1>2 DEF ScramblerStep, SendFails, ScramblerStart, ScramblerNext, ScramblerSent,
       ScramblerWait, ScramblerPoll, DoneLock, DoneRead, DoneState, EndFlag, EndState,
       EndSignal, ScramblerReport, ExitProcess, ExitStep, ExitCheck, ExitWait, ExitLock,
       ExitDrain, ExitClose, Step, Lock, SetState, Signal, RaiseFlag, flags
  <2>4. pc'["scrambler"] = "x_wait" =>
          pc["scrambler"] = "x_wait" \/ handle["worker"]
    BY <1>2 DEF ScramblerStep, SendFails, ScramblerStart, ScramblerNext, ScramblerSent,
       ScramblerWait, ScramblerPoll, DoneLock, DoneRead, DoneState, EndFlag, EndState,
       EndSignal, ScramblerReport, ExitProcess, ExitStep, ExitCheck, ExitWait, ExitLock,
       ExitDrain, ExitClose, Step, Lock, SetState, Signal, RaiseFlag, Goto, AfterExit
  <2>5. pc'["scrambler"] \in {"x_lock", "x_drain"} =>
          \/ pc["scrambler"] \in {"x_lock", "x_drain"}
          \/ pc["scrambler"] = "x_wait" /\ (WorkerOver \/ ~handle["worker"])
    BY <1>2 DEF ScramblerStep, SendFails, ScramblerStart, ScramblerNext, ScramblerSent,
       ScramblerWait, ScramblerPoll, DoneLock, DoneRead, DoneState, EndFlag, EndState,
       EndSignal, ScramblerReport, ExitProcess, ExitStep, ExitCheck, ExitWait, ExitLock,
       ExitDrain, ExitClose, Step, Lock, SetState, Signal, RaiseFlag, Goto, AfterExit
  <2> QED
    BY <2>1, <2>2, <2>3, <2>4, <2>5
    DEF HandleInv, HandlesOutliveWorker, WorkerOver, HandleField
<1>3. CASE UIStep
  <2>1. UNCHANGED stop_working
    BY <1>3, UIWorker DEF flags
  <2> USE DEF PcOK, Thread
  <2>2. CASE ExitStep("ui")
    <3>1. UNCHANGED <<pc["worker"], pc["scrambler"]>>
      BY <2>2, ExitFrame
    <3>2. (handle["worker"])' => handle["worker"]
      BY <2>2 DEF ExitStep, ExitCheck, ExitWait, ExitLock, ExitDrain, ExitClose, Step, Lock,
         DataOK, HandleField
    <3>3. pc'["ui"] = "x_wait" => handle["worker"]
      BY <2>2 DEF ExitStep, ExitCheck, ExitWait, ExitLock, ExitDrain, ExitClose, Step, Lock,
         Goto, AfterExit
    <3>4. pc'["ui"] \in {"x_lock", "x_drain"} =>
            \/ pc["ui"] \in {"x_lock", "x_drain"}
            \/ pc["ui"] = "x_wait" /\ (WorkerOver \/ ~handle["worker"])
      BY <2>2 DEF ExitStep, ExitCheck, ExitWait, ExitLock, ExitDrain, ExitClose, Step, Lock,
         Goto, AfterExit
    <3> QED
      BY <2>1, <3>1, <3>2, <3>3, <3>4
      DEF HandleInv, HandlesOutliveWorker, WorkerOver, HandleField
  <2>3. CASE Start
    <3>1. PICK created \in BOOLEAN :
            /\ handle' = [f \in HandleField |-> f # "worker" \/ created]
            /\ pc' = [pc EXCEPT !["worker"] = IF created THEN "top" ELSE "none",
                                !["scrambler"] = "start", !["ui"] = "loop"]
      BY <2>3 DEF Start
    <3>2. ~created => ~handle'["worker"]
      BY <3>1 DEF HandleField
    <3> QED BY <2>1, <3>1, <3>2
  <2>5. CASE HandlerReply
    <3>1. sender \in {"worker", "scrambler"} /\ pc[sender] = "send"
      BY <2>5 DEF HandlerReply, SenderInv, Handling, Nobody
    <3>2. /\ UNCHANGED handle /\ pc'["ui"] = "loop" /\ pc'[sender] = "sent"
          /\ \A t \in Thread \ {"ui", sender} : pc'[t] = pc[t]
      BY <2>5, <3>1 DEF HandlerReply
    <3> QED BY <2>1, <3>1, <3>2
  <2>6. CASE HandlerAdd \/ AddLock \/ AddInsert \/ AddSignal \/ Timer \/ Cancel
             \/ Handle("worker") \/ Handle("scrambler")
    <3>1. /\ UNCHANGED <<pc["worker"], pc["scrambler"], handle>>
          /\ pc'["ui"] \notin {"x_wait", "x_lock", "x_drain"}
      BY <2>6 DEF HandlerAdd, AddLock, AddInsert, AddSignal, Timer, Cancel,
         Handle, Goto, Step, Lock, Signal, RaiseFlag, flags
    <3> QED BY <2>1, <3>1
  <2>7. CASE ExitProcess("ui", "closed")
    BY <2>7 DEF ExitProcess, flags
  <2> QED BY <1>3, <2>2, <2>3, <2>5, <2>6, <2>7 DEF UIStep
<1>4. CASE UNCHANGED jobVars
  BY <1>4 DEF jobVars, flags
<1> QED BY <1>1, <1>2, <1>3, <1>4, NextCases

(* A thread between lock_mutex and unlock_mutex owns the mutex. *)
LEMMA LockStep ==
  ASSUME TypeOK, SenderInv, HandleInv, LockInv, [Next]_jobVars PROVE LockInv'
<1> USE DEF TypeOK, PcOK, Thread, HandleField
<1> DEFINE Owned(t)  == InList(t) /\ handle["work_lock"] => lock_owner = t
           Give(t)   == lock_owner' = IF lock_owner = t THEN Nobody ELSE lock_owner
<1>1. CASE WorkerStep
  <2>1. UNCHANGED <<pc["ui"], pc["scrambler"], handle>>
    BY <1>1, WorkerFrame
  <2>2. \/ UNCHANGED lock_owner
        \/ LockMutex("worker")
        \/ Give("worker")
    BY <1>1
    DEF WorkerStep, SendFails, WorkerTop, WorkerAnnounce, WorkerWait, WorkerWoken, WorkerCheck,
        WorkerLock, WorkerPop, WorkerBegin, WorkerFree, WorkerPost, RoutineSend,
        RoutineCheck, RoutineLock, RoutineEnd, RoutineReturn, Step, Lock, SetState,
        UnlockMutex, sync
  <2>3. InList("worker")' => LockMutex("worker")
    BY <1>1
    DEF WorkerStep, SendFails, WorkerTop, WorkerAnnounce, WorkerWait, WorkerWoken, WorkerCheck,
        WorkerLock, WorkerPop, WorkerBegin, WorkerFree, WorkerPost, RoutineSend,
        RoutineCheck, RoutineLock, RoutineEnd, RoutineReturn, Step, Lock, SetState,
        InList, Goto
  <2> QED
    BY <2>1, <2>2, <2>3 DEF LockInv, LockMutex, InList, ListUse, Nobody
<1>2. CASE ScramblerStep
  <2> USE DEF Step, Lock, SetState, Signal, RaiseFlag
  <2>1. /\ UNCHANGED <<pc["ui"], pc["worker"]>>
        /\ pc["scrambler"] \notin {"none", "ended"}
    BY <1>2, ScramblerFrame
  <2>2. UNCHANGED lock_owner \/ LockMutex("scrambler") \/ Give("scrambler")
    BY <1>2
    DEF ScramblerStep, SendFails, ScramblerStart, ScramblerNext, ScramblerSent, ScramblerWait,
        ScramblerPoll, DoneLock, DoneRead, DoneState, EndFlag, EndState, EndSignal,
        ScramblerReport, ExitProcess, ExitStep, ExitCheck, ExitWait, ExitLock, ExitDrain,
        ExitClose, UnlockMutex, sync
  <2>3. InList("scrambler")' => LockMutex("scrambler") /\ UNCHANGED handle
    BY <1>2
    DEF ScramblerStep, SendFails, ScramblerStart, ScramblerNext, ScramblerSent, ScramblerWait,
        ScramblerPoll, DoneLock, DoneRead, DoneState, EndFlag, EndState, EndSignal,
        ScramblerReport, ExitProcess, ExitStep, ExitCheck, ExitWait, ExitLock, ExitDrain,
        ExitClose, AfterExit, InList, Goto
  <2>4. \/ UNCHANGED handle
        \/ ExitClose("scrambler", "work_lock", "x_close", "x_worker")
        \/ ExitClose("scrambler", "worker", "x_worker", "x_notify")
        \/ ExitClose("scrambler", "work_notify", "x_notify", AfterExit("scrambler"))
    BY <1>2
    DEF ScramblerStep, SendFails, ScramblerStart, ScramblerNext, ScramblerSent, ScramblerWait,
        ScramblerPoll, DoneLock, DoneRead, DoneState, EndFlag, EndState, EndSignal,
        ScramblerReport, ExitProcess, ExitStep, ExitCheck, ExitWait, ExitLock, ExitDrain
  <2>5. \A t \in Thread : Owned(t)'
    <3>1. handle'["work_lock"] => handle["work_lock"]
      BY <2>4 DEF ExitClose, DataOK
    <3>2. SUFFICES ASSUME NEW t \in Thread, InList(t)', handle'["work_lock"]
                   PROVE  lock_owner' = t
      OBVIOUS
    <3>3. CASE t = "scrambler"
      BY <2>3, <3>1, <3>2, <3>3 DEF LockMutex
    <3>4. CASE t # "scrambler"
      <4>1. lock_owner = t
        BY <2>1, <3>1, <3>2, <3>4 DEF LockInv, InList
      <4> QED BY <2>2, <3>4, <4>1 DEF LockMutex, Nobody
    <3> QED BY <3>3, <3>4
  <2>6. UNCHANGED handle =>
          /\ pc'["scrambler"] \in ListUse =>
               pc["scrambler"] \in ListUse \/ handle["worker"]
          /\ pc["scrambler"] = "x_worker" =>
               pc'["scrambler"] = "x_worker" \/ ~handle["worker"]
    BY <1>2
    DEF ScramblerStep, SendFails, ScramblerStart, ScramblerNext, ScramblerSent, ScramblerWait,
        ScramblerPoll, DoneLock, DoneRead, DoneState, EndFlag, EndState, EndSignal,
        ScramblerReport, ExitProcess, ExitStep, ExitCheck, ExitWait, ExitLock, ExitDrain,
        ExitClose, AfterExit, Goto, ListUse, DataOK
  <2>7. pc["scrambler"] = "x_worker" => pc'["scrambler"] \notin ListUse
    BY <1>2
    DEF ScramblerStep, SendFails, ScramblerStart, ScramblerNext, ScramblerSent, ScramblerWait,
        ScramblerPoll, DoneLock, DoneRead, DoneState, EndFlag, EndState, EndSignal,
        ScramblerReport, ExitProcess, ExitStep, ExitCheck, ExitWait, ExitLock, ExitDrain,
        ExitClose, AfterExit, Goto, ListUse
  <2>8. ~handle'["work_lock"] =>
          \/ pc'["scrambler"] = "x_worker"
          \/ ~handle'["worker"] /\ pc'["scrambler"] \notin ListUse
    <3>1. CASE UNCHANGED handle
      BY <2>1, <2>6, <2>7, <3>1 DEF LockInv
    <3>2. CASE ExitClose("scrambler", "work_lock", "x_close", "x_worker")
      BY <3>2 DEF ExitClose, Goto
    <3>3. CASE ExitClose("scrambler", "worker", "x_worker", "x_notify")
      BY <3>3 DEF ExitClose, Goto, ListUse, DataOK
    <3>4. CASE ExitClose("scrambler", "work_notify", "x_notify", AfterExit("scrambler"))
      BY <2>1, <3>4 DEF ExitClose, AfterExit, Goto, ListUse, DataOK, LockInv
    <3> QED BY <2>4, <3>1, <3>2, <3>3, <3>4
  <2> QED BY <2>1, <2>5, <2>8 DEF LockInv
<1>3. CASE UIStep
  <2> USE DEF Step, Lock, SetState, Signal, RaiseFlag
  <2>1. CASE Start
    <3>1. /\ \A t \in Thread : ~InList(t)'
          /\ handle'["work_lock"] /\ pc'["ui"] = "loop"
      BY <2>1 DEF Start, InList, HandleInv
    <3> QED BY <3>1 DEF LockInv, ExitLabel
  <2>3. CASE HandlerReply
    <3>1. sender \in {"worker", "scrambler"} /\ pc[sender] = "send"
      BY <2>3 DEF HandlerReply, SenderInv, Handling, Nobody
    <3>2. /\ UNCHANGED <<handle, lock_owner>>
          /\ pc'["ui"] = "loop" /\ pc'[sender] = "sent"
          /\ \A t \in Thread \ {"ui", sender} : pc'[t] = pc[t]
      BY <2>3, <3>1 DEF HandlerReply, sync
    <3> QED BY <3>1, <3>2 DEF LockInv, InList, ListUse, ExitLabel
  <2>4. CASE ExitProcess("ui", "closed")
    BY <2>4 DEF ExitProcess, sync, LockInv, InList
  <2>5. CASE ~Start /\ ~HandlerReply /\ ~ExitProcess("ui", "closed")
    <3> USE DEF UIStep, Handle, HandlerAdd, AddLock, AddInsert, AddSignal, Timer, Cancel,
        ExitStep, ExitCheck, ExitWait, ExitLock, ExitDrain, ExitClose, Goto
    <3>1. UNCHANGED <<pc["worker"], pc["scrambler"]>>
      BY <1>3, <2>5
    <3>2. UNCHANGED lock_owner \/ LockMutex("ui") \/ Give("ui")
      BY <1>3, <2>5 DEF UnlockMutex, sync
    <3>3. InList("ui")' => LockMutex("ui") /\ UNCHANGED handle
      BY <1>3, <2>5 DEF AfterExit, InList
    <3>4. \/ UNCHANGED handle
          \/ /\ pc["ui"] \in ExitLabel
             /\ \E f \in HandleField : handle' = [handle EXCEPT ![f] = FALSE]
      BY <1>3, <2>5 DEF ExitLabel
    <3>5. pc'["ui"] \in ExitLabel => pc["ui"] \in ExitLabel \/ pc["scrambler"] = "ended"
      BY <1>3, <2>5 DEF ExitLabel
    <3>6. \A t \in Thread : Owned(t)'
      BY <3>1, <3>2, <3>3, <3>4
      DEF LockInv, LockMutex, InList, Nobody, DataOK
    <3> QED BY <3>1, <3>4, <3>5, <3>6 DEF LockInv
  <2> QED BY <2>1, <2>3, <2>4, <2>5
<1>4. CASE UNCHANGED jobVars
  BY <1>4 DEF jobVars, sync, LockInv, InList
<1> QED BY <1>1, <1>2, <1>3, <1>4, NextCases

(* The lock invariant holds in every state. *)
LEMMA LockInvSpec == Spec => [](SafeInv /\ StopInv /\ LockInv)
<1>1. Init => StopInv /\ LockInv
  BY DEF Init, StopInv, LockInv, InList, ExitLabel, Thread, HandleField
<1>2. SafeInv /\ StopInv /\ LockInv /\ [Next]_jobVars => (StopInv /\ LockInv)'
  BY StopStep, LockStep DEF SafeInv, TypeInv
<1> QED BY <1>1, <1>2, SafeInvSpec, PTL DEF Spec

(* ListAccessExclusive: though a field is cleared while another thread may *)
(* still call lock_mutex on it, no two threads are ever inside the list.   *)
THEOREM ListSafe == Spec => []ListAccessExclusive
<1>1. SafeInv /\ StopInv /\ LockInv => ListAccessExclusive
  <2> SUFFICES ASSUME SafeInv, StopInv, LockInv,
                      NEW t \in Thread, NEW u \in Thread, InList(t), InList(u)
               PROVE  t = u
    BY DEF ListAccessExclusive
  <2>1. CASE handle["work_lock"]
    BY <2>1 DEF LockInv
  <2>2. CASE ~handle["work_lock"]
    <3>1. ~InList("worker")
      <4>1. WorkerOver
        BY <2>2 DEF SafeInv, HandleInv, HandlesOutliveWorker, HandleField
      <4> QED BY <4>1 DEF WorkerOver, InList
    <3>2. ~InList("scrambler")
      <4>1. pc["scrambler"] \in ScramblerLabel
        BY DEF SafeInv, TypeInv, TypeOK, PcOK, Label, Thread
      <4> QED BY <2>2, <4>1 DEF LockInv, InList, ListUse, ScramblerLabel, ExitLabel
    <3> QED BY <3>1, <3>2 DEF Thread
  <2> QED BY <2>1, <2>2
<1> QED BY <1>1, LockInvSpec, PTL

(* LockHandleValid: the assertion in check_woker_job_exist never fails.    *)
(* The window's timer closes the mutex only when data_scramble_work has    *)
(* ended, data_scramble_work itself only after the worker, and afterwards  *)
(* it finds the worker's handle cleared.                                   *)
THEOREM LockHandleSafe == Spec => []LockHandleValid
<1>1. SafeInv /\ StopInv /\ LockInv => LockHandleValid
  <2> SUFFICES ASSUME SafeInv, StopInv, LockInv PROVE LockHandleValid
    OBVIOUS
  <2>1. pc["scrambler"] = "d_lock" => handle["work_lock"]
    BY DEF LockInv, ListUse
  <2>2. pc["worker"] = "exist" => handle["work_lock"]
    BY DEF SafeInv, HandleInv, HandlesOutliveWorker, WorkerOver, HandleField
  <2> QED BY <2>1, <2>2 DEF LockHandleValid
<1> QED BY <1>1, LockInvSpec, PTL
=============================================================================
