------------------------ MODULE JobWorkerHeapProofs ------------------------
(***************************************************************************)
(* The job worker's heap, its end-of-work test, and that it implements the *)
(* queue of JobQueue: proofs.                                              *)
(***************************************************************************)
EXTENDS JobWorkerProofs

(* add_job_to_worker clears job once it is queued. *)
NewJobInv == pc["ui"] \notin {"add_lock", "add_insert"} => new_job = NoBlock

(* The heap as long as nobody stopped the worker: every block has one owner. *)
HeapOK ==
  /\ ~bad_free
  /\ Queued \subseteq allocated
  /\ \A i, j \in DOMAIN works : works[i] = works[j] => i = j
  /\ InRoutine \/ pc["worker"] = "free" =>
       job \in allocated \ (Queued \union {new_job})
  /\ pc["worker"] = "prerun" => entry \in allocated \ (Queued \union {new_job})
  /\ pc["ui"] \in {"add_lock", "add_insert"} => new_job \in allocated \ Queued

HeapInv == NewJobInv /\ (~stop_working => HeapOK)

(* check_all_work_done *)
DoneInv ==
  /\ working_state = WAIT_WORK_JOB => pc["worker"] \in {"wait", "woken"}
  /\ /\ pc["scrambler"] = "d_state"
     /\ \/ pc["worker"] \in {"announce", "wait", "woken"}
        \/ pc["worker"] = "top" /\ ~stop_working
     => works = <<>>
  /\ DoneMeansIdle

RunInv ==
  /\ pc["worker"] = "prerun" => entry \in Block
  /\ InRoutine => job \in Block

(* What Append and Tail do to the elements of a list without repetition. *)
LEMMA AppendElements ==
  ASSUME NEW S, NEW s \in Seq(S), NEW e \in S, e \notin {s[i] : i \in DOMAIN s},
         \A i, j \in DOMAIN s : s[i] = s[j] => i = j,
         NEW t, t = Append(s, e)
  PROVE  /\ {t[i] : i \in DOMAIN t} = {s[i] : i \in DOMAIN s} \union {e}
         /\ \A i, j \in DOMAIN t : t[i] = t[j] => i = j
<1>1. /\ DOMAIN s = 1 .. Len(s) /\ Len(s) \in Nat
      /\ DOMAIN t = 1 .. Len(s) + 1
      /\ \A i \in 1 .. Len(s) : t[i] = s[i]
      /\ t[Len(s) + 1] = e
  OBVIOUS
<1>2. \A i \in DOMAIN t : i \in DOMAIN s \/ i = Len(s) + 1
  BY <1>1
<1> QED BY <1>1, <1>2

(* The elements of a tail. *)
LEMMA TailElements ==
  ASSUME NEW S, NEW s \in Seq(S), s # <<>>,
         \A i, j \in DOMAIN s : s[i] = s[j] => i = j,
         NEW t, t = Tail(s)
  PROVE  /\ {t[i] : i \in DOMAIN t} = {s[i] : i \in DOMAIN s} \ {Head(s)}
         /\ Head(s) \in {s[i] : i \in DOMAIN s}
         /\ \A i, j \in DOMAIN t : t[i] = t[j] => i = j
<1>1. /\ DOMAIN s = 1 .. Len(s) /\ Len(s) \in Nat \ {0}
      /\ DOMAIN t = 1 .. Len(s) - 1
      /\ \A i \in DOMAIN t : t[i] = s[i + 1] /\ i + 1 \in DOMAIN s
      /\ Head(s) = s[1] /\ 1 \in DOMAIN s
  OBVIOUS
<1>2. \A i \in DOMAIN s : i = 1 \/ (i - 1 \in DOMAIN t /\ t[i - 1] = s[i])
  BY <1>1
<1>3. \A i \in DOMAIN t : t[i] # s[1]
  BY <1>1
<1>4. {t[i] : i \in DOMAIN t} = {s[i] : i \in DOMAIN s} \ {s[1]}
  <2>1. ASSUME NEW x \in {t[i] : i \in DOMAIN t}
        PROVE  x \in {s[i] : i \in DOMAIN s} \ {s[1]}
    BY <1>1, <1>3
  <2>2. ASSUME NEW x \in {s[i] : i \in DOMAIN s} \ {s[1]}
        PROVE  x \in {t[i] : i \in DOMAIN t}
    <3>1. PICK i \in DOMAIN s : x = s[i]
      OBVIOUS
    <3>2. i - 1 \in DOMAIN t /\ t[i - 1] = x
      BY <1>2, <3>1
    <3> QED BY <3>2
  <2> QED BY <2>1, <2>2
<1>5. \A i, j \in DOMAIN t : t[i] = t[j] => i = j
  BY <1>1
<1> QED BY <1>1, <1>4, <1>5
(* Steps that leave the list and the heap alone. *)
LEMMA WorkerDataFrame ==
  ASSUME WorkerStep, ~WorkerPop, ~WorkerFree PROVE UNCHANGED data
BY DEF WorkerStep, SendFails, WorkerTop, WorkerAnnounce, WorkerWait, WorkerWoken,
     WorkerCheck,
   WorkerLock, WorkerBegin, WorkerPost, RoutineSend, RoutineCheck, RoutineLock,
   RoutineEnd, RoutineReturn, Step, Lock, SetState

(* The heap and the list outside the steps that change them. *)
LEMMA ExitDataFrame ==
  ASSUME NEW t \in {"ui", "scrambler"}, ExitStep(t), ~ExitDrain(t) PROVE UNCHANGED data
BY DEF ExitStep, ExitCheck, ExitWait, ExitLock, ExitClose, Step, Lock

(* ... in the window's thread. *)
LEMMA UIDataFrame ==
  ASSUME UIStep, ~HandlerAdd, ~AddInsert, ~ExitDrain("ui") PROVE UNCHANGED data
BY ExitDataFrame
DEF UIStep, Start, Handle, AddLock, AddSignal, HandlerReply, Timer, Cancel,
    ExitProcess, Step, Lock, Signal

(* ... in data_scramble_work. *)
LEMMA ScramblerDataFrame ==
  ASSUME ScramblerStep, ~ExitDrain("scrambler") PROVE UNCHANGED data
BY ExitDataFrame
DEF ScramblerStep, SendFails, ScramblerStart, ScramblerNext, ScramblerSent, ScramblerWait,
    ScramblerPoll, DoneLock, DoneRead, DoneState, EndFlag, EndState, EndSignal,
    ScramblerReport, ExitProcess, Step, Lock, SetState, Signal, RaiseFlag

-----------------------------------------------------------------------------
(* The heap *)

(* Nobody drains the list of a worker that was not stopped. *)
LEMMA DrainStopped ==
  ASSUME StopInv, NEW t \in {"ui", "scrambler"}, ExitDrain(t) PROVE stop_working
BY DEF StopInv, ExitDrain, Goto

(* Nothing clears stop_working. *)
LEMMA StopKept ==
  ASSUME TypeOK, SenderInv, [Next]_jobVars, stop_working PROVE stop_working'
<1>1. CASE ScramblerStep
  BY <1>1 DEF ScramblerStep, SendFails, ScramblerStart, ScramblerNext, ScramblerSent,
     ScramblerWait, ScramblerPoll, DoneLock, DoneRead, DoneState, EndFlag, EndState,
     EndSignal, ScramblerReport, ExitProcess, ExitStep, ExitCheck, ExitWait, ExitLock,
     ExitDrain, ExitClose, Step, Lock, SetState, Signal, RaiseFlag, flags
<1>2. CASE UNCHANGED jobVars
  BY <1>2 DEF jobVars, flags
<1> QED BY <1>1, <1>2, WorkerOrder, UIWorker, NextCases DEF TypeOK, flags

(* Which steps of the window's thread move job and its labels. *)
LEMMA UIJob ==
  ASSUME PcOK, SenderInv, UIStep
  PROVE  \/ HandlerAdd \/ AddLock \/ AddInsert
         \/ /\ pc["ui"] \notin {"add_lock", "add_insert"}
            /\ pc'["ui"] \notin {"add_lock", "add_insert"}
            /\ UNCHANGED new_job
<1> USE DEF PcOK, Thread
<1>1. CASE ExitStep("ui")
  BY <1>1, ExitFrame DEF ExitLabel, AfterLabel
<1>2. CASE HandlerReply
  <2>1. sender \in {"worker", "scrambler"}
    BY <1>2 DEF HandlerReply, SenderInv, Handling
  <2> QED BY <1>2, <2>1 DEF HandlerReply, data
<1>3. CASE Start
  BY <1>3 DEF Start, data
<1>5. CASE \/ Handle("worker") \/ Handle("scrambler") \/ AddSignal \/ Timer \/ Cancel
           \/ ExitProcess("ui", "closed")
  BY <1>5 DEF Handle, AddSignal, Timer, Cancel, ExitProcess, Goto, Step, Signal,
     RaiseFlag, data
<1> QED BY <1>1, <1>2, <1>3, <1>5 DEF UIStep

(* Before OnInitDialog nothing runs. *)
LEMMA UIInit == ASSUME UIStep, ~Start PROVE pc["ui"] # "init"
BY DEF UIStep, Handle, HandlerAdd, AddLock, AddInsert, AddSignal, HandlerReply, Timer,
   Cancel, ExitStep, ExitCheck, ExitWait, ExitLock, ExitDrain,
   ExitClose, ExitProcess, Goto, Step, Lock, Signal, RaiseFlag

(* What a step of the window's thread does to the scrambler. *)
LEMMA UIScrambler ==
  ASSUME PcOK, UIStep, ~Start
  PROVE  pc'["scrambler"] = pc["scrambler"] \/ pc'["scrambler"] = "sent"
<1> USE DEF PcOK, Thread
<1>1. CASE HandlerReply
  BY <1>1 DEF HandlerReply
<1>2. CASE ~HandlerReply
  BY <1>2
  DEF UIStep, Handle, HandlerAdd, AddLock, AddInsert, AddSignal, Timer, Cancel,
      ExitStep, ExitCheck, ExitWait, ExitLock, ExitDrain, ExitClose,
      ExitProcess, Goto, Step, Lock, Signal, RaiseFlag
<1> QED BY <1>1, <1>2

(* add_job_to_worker's local is empty outside the function. *)
LEMMA NewJobStep ==
  ASSUME PcOK, SenderInv, NewJobInv, [Next]_jobVars PROVE NewJobInv'
<1> USE DEF NewJobInv
<1>1. CASE UIStep
  <2>1. CASE HandlerAdd \/ AddLock \/ AddInsert
    BY <2>1 DEF HandlerAdd, AddLock, AddInsert, Goto, Lock, PcOK, Thread, data
  <2> QED BY <1>1, <2>1, UIJob
<1>2. CASE UNCHANGED jobVars
  BY <1>2 DEF jobVars, data
<1> QED BY <1>1, <1>2, WorkerFrame, ScramblerFrame, NextCases

(* The heap after a step of worker_thread. *)
LEMMA HeapWorker ==
  ASSUME TypeInv, NewJobInv, HeapOK, ~stop_working, WorkerStep PROVE HeapOK'
<1> USE DEF TypeInv, TypeOK, PcOK, Thread
<1>1. UNCHANGED <<pc["ui"], new_job>>
  BY WorkerFrame
<1>2. CASE WorkerPop
  <2>1. CASE works = <<>>
    BY <1>1, <1>2, <2>1 DEF WorkerPop, Goto, HeapOK, Queued, InRoutine, heap
  <2>2. CASE works # <<>>
    <3>1. /\ pc'["worker"] = "prerun" /\ works' = Tail(works) /\ entry' = Head(works)
          /\ UNCHANGED <<allocated, bad_free, job>>
      BY <1>2, <2>2 DEF WorkerPop, Goto, heap
    <3>2. /\ Queued' = Queued \ {Head(works)} /\ Head(works) \in Queued
          /\ (\A i, j \in DOMAIN works : works[i] = works[j] => i = j)'
      <4>1. works \in Seq(Block) /\ \A i, j \in DOMAIN works : works[i] = works[j] => i = j
        BY DEF HeapOK, DataOK
      <4> DEFINE t == Tail(works)
      <4>2. /\ {t[i] : i \in DOMAIN t} = {works[i] : i \in DOMAIN works} \ {Head(works)}
            /\ Head(works) \in {works[i] : i \in DOMAIN works}
            /\ \A i, j \in DOMAIN t : t[i] = t[j] => i = j
        BY <2>2, <4>1, TailElements
      <4> QED BY <3>1, <4>2 DEF Queued
    <3>3. Head(works) # new_job
      <4>1. Head(works) \in Queued /\ Queued \subseteq Block
        BY <3>2 DEF HeapOK, DataOK
      <4>2. new_job = NoBlock \/ new_job \notin Queued
        BY DEF HeapOK, NewJobInv
      <4> QED BY <4>1, <4>2, JobWorkerAssumption
    <3> QED BY <1>1, <3>1, <3>2, <3>3 DEF HeapOK, InRoutine
  <2> QED BY <2>1, <2>2
<1>3. CASE WorkerFree
  <2>1. /\ pc["worker"] = "free" /\ pc'["worker"] = "post"
        /\ allocated' = allocated \ {job} /\ UNCHANGED <<works, job, entry>>
        /\ bad_free' = (bad_free \/ job \notin allocated \ (Queued \union {new_job}))
    BY <1>3 DEF WorkerFree, Goto, locals
  <2>2. UNCHANGED Queued
    BY <2>1 DEF Queued
  <2> QED BY <1>1, <2>1, <2>2 DEF HeapOK, InRoutine
<1>4. CASE WorkerBegin
  <2>1. /\ pc["worker"] = "prerun" /\ pc'["worker"] = "run" /\ job' = entry
        /\ UNCHANGED <<works, allocated, bad_free, entry>>
    BY <1>4 DEF WorkerBegin, Goto, data, heap
  <2> QED BY <1>1, <2>1 DEF HeapOK, InRoutine, Queued
<1>5. CASE ~WorkerPop /\ ~WorkerFree /\ ~WorkerBegin
  <2>1. UNCHANGED <<works, allocated, bad_free>>
    BY <1>5, WorkerDataFrame DEF data, heap
  <2>2. /\ UNCHANGED <<job, entry>>
        /\ pc'["worker"] # "prerun"
        /\ (InRoutine \/ pc["worker"] = "free")' => InRoutine \/ pc["worker"] = "free"
    BY <1>5
    DEF WorkerStep, SendFails, WorkerTop, WorkerAnnounce, WorkerWait, WorkerWoken,
     WorkerCheck,
        WorkerLock, WorkerPost, RoutineSend, RoutineCheck, RoutineLock, RoutineEnd,
        RoutineReturn, Step, Lock, SetState, Goto, InRoutine, locals
  <2>3. UNCHANGED Queued
    BY <2>1 DEF Queued
  <2> QED BY <1>1, <2>1, <2>2, <2>3 DEF HeapOK
<1> QED BY <1>2, <1>3, <1>4, <1>5

(* The heap after a step of the window's thread. *)
LEMMA HeapUI ==
  ASSUME TypeInv, SenderInv, StopInv, NewJobInv, HeapOK, ~stop_working, UIStep PROVE HeapOK'
<1> USE DEF TypeInv, TypeOK, PcOK, Thread
<1>1. /\ UNCHANGED <<job, entry>>
      /\ pc'["worker"] # pc["worker"] =>
           /\ pc'["worker"] \in {"none", "top", "sent"}
           /\ pc'["worker"] = "sent" => pc["worker"] = "send"
  BY UIWorker DEF locals
<1>2. /\ InRoutine' => InRoutine
      /\ pc'["worker"] \in {"free", "prerun"} => pc'["worker"] = pc["worker"]
  BY <1>1 DEF InRoutine
<1>3. CASE HandlerAdd
  <2>1. PICK b \in Block \ allocated : new_job' = b /\ allocated' = allocated \union {b}
    BY <1>3 DEF HandlerAdd
  <2>2. UNCHANGED <<works, bad_free, Queued>>
    BY <1>3 DEF HandlerAdd, Queued
  <2> QED BY <1>1, <1>2, <2>1, <2>2 DEF HeapOK
<1>4. CASE AddInsert
  <2>1. /\ pc["ui"] = "add_insert" /\ pc'["ui"] = "add_signal"
        /\ works' = Append(works, new_job) /\ new_job' = NoBlock
        /\ UNCHANGED <<allocated, bad_free>>
    BY <1>4 DEF AddInsert, Goto, heap
  <2>2. new_job \in allocated \ Queued /\ new_job \in Block
    BY <2>1 DEF HeapOK, DataOK
  <2>3. /\ Queued' = Queued \union {new_job}
        /\ (\A i, j \in DOMAIN works : works[i] = works[j] => i = j)'
    BY <2>1, <2>2, AppendElements DEF HeapOK, Queued, DataOK
  <2>4. NoBlock \notin allocated
    BY JobWorkerAssumption DEF DataOK
  <2> QED BY <1>1, <1>2, <2>1, <2>2, <2>3, <2>4 DEF HeapOK
<1>5. CASE ~HandlerAdd /\ ~AddInsert
  <2>1. UNCHANGED <<works, allocated, bad_free, new_job>>
    BY <1>5, UIDataFrame, DrainStopped DEF data, heap
  <2>2. UNCHANGED Queued
    BY <2>1 DEF Queued
  <2>3. pc'["ui"] \in {"add_lock", "add_insert"} => pc["ui"] \in {"add_lock", "add_insert"}
    BY <1>5, UIJob DEF AddLock, Lock, Goto
  <2> QED BY <1>1, <1>2, <2>1, <2>2, <2>3 DEF HeapOK
<1> QED BY <1>3, <1>4, <1>5

(* The heap invariant is inductive. *)
LEMMA HeapStep ==
  ASSUME TypeInv, SenderInv, StopInv, HeapInv, [Next]_jobVars PROVE HeapInv'
<1>1. NewJobInv'
  BY NewJobStep DEF HeapInv, TypeInv, TypeOK
<1>2. ASSUME ~stop_working' PROVE HeapOK'
  <2>1. ~stop_working /\ HeapOK /\ NewJobInv
    BY <1>2, StopKept DEF HeapInv, TypeInv
  <2>2. CASE WorkerStep
    BY <2>1, <2>2, HeapWorker
  <2>3. CASE UIStep
    BY <2>1, <2>3, HeapUI
  <2>4. CASE ScramblerStep
    <3>1. UNCHANGED <<pc["ui"], pc["worker"], job, entry>>
      BY <2>4, ScramblerFrame DEF TypeInv, TypeOK, locals
    <3>2. UNCHANGED <<works, allocated, bad_free, new_job>>
      BY <2>1, <2>4, ScramblerDataFrame, DrainStopped DEF data, heap
    <3> QED BY <2>1, <3>1, <3>2 DEF HeapOK, Queued, InRoutine
  <2>5. CASE UNCHANGED jobVars
    BY <2>1, <2>5 DEF jobVars, data, heap, locals, HeapOK, Queued, InRoutine
  <2> QED BY <2>2, <2>3, <2>4, <2>5, NextCases
<1> QED BY <1>1, <1>2 DEF HeapInv

(* The heap invariant holds in every state. *)
LEMMA HeapInvSpec == Spec => [](TypeInv /\ SenderInv /\ StopInv /\ HeapInv)
<1>1. Init => HeapInv
  <2>1. Init => DOMAIN works = {}
    BY DEF Init
  <2>2. Init => pc["worker"] = "none" /\ pc["ui"] = "init"
    BY DEF Init, Thread
  <2> QED BY <2>1, <2>2 DEF Init, HeapInv, NewJobInv, HeapOK, Queued, InRoutine
<1>2. /\ SafeInv /\ StopInv /\ LockInv => TypeInv /\ SenderInv /\ StopInv
      /\ TypeInv /\ SenderInv /\ StopInv /\ HeapInv /\ [Next]_jobVars => HeapInv'
  BY HeapStep DEF SafeInv
<1> QED BY <1>1, <1>2, LockInvSpec, PTL DEF Spec

(* HeapSafeUntilStop for any number of jobs: as long as nobody stopped the *)
(* worker, the job that worker_thread runs and frees is live and is in no  *)
(* list, and every queued job is live and queued once.                     *)
THEOREM HeapSafeTheorem == Spec => []HeapSafeUntilStop
<1>1. HeapInv => HeapSafeUntilStop
  BY DEF HeapInv, HeapOK, HeapSafeUntilStop, HeapSafe
<1> QED BY <1>1, HeapInvSpec, PTL

-----------------------------------------------------------------------------
(* The end of the work *)

(* The observations of check_all_work_done stay true until it returns. *)
LEMMA DoneStep ==
  ASSUME TypeInv, SenderInv, HandleInv, DoneInv, [Next]_jobVars PROVE DoneInv'
<1> USE DEF TypeInv, TypeOK, PcOK, Thread
<1> DEFINE D1 == working_state = WAIT_WORK_JOB =>
                   pc["worker"] \in {"wait", "woken"}
           Idle == \/ pc["worker"] \in {"announce", "wait", "woken"}
                   \/ pc["worker"] = "top" /\ ~stop_working
           Busy == InRoutine \/ pc["worker"] \in {"prerun", "free", "post"}
<1>0. stop_working => stop_working'
  BY StopKept
<1>1. CASE WorkerStep
  <2>1. UNCHANGED pc["scrambler"]
    BY <1>1, WorkerFrame
  <2>2. D1'
    BY <1>1
    DEF WorkerStep, SendFails, WorkerTop, WorkerAnnounce, WorkerWait, WorkerWoken,
     WorkerCheck,
        WorkerLock, WorkerPop, WorkerBegin, WorkerFree, WorkerPost, RoutineSend,
        RoutineCheck, RoutineLock, RoutineEnd, RoutineReturn, Step, Lock, SetState, Goto,
        DoneInv, flags, WAIT_WORK_JOB
  <2>3. Idle' => (Idle /\ UNCHANGED works) \/ (works = <<>> /\ works' = <<>>)
    BY <1>1
    DEF WorkerStep, SendFails, WorkerTop, WorkerAnnounce, WorkerWait, WorkerWoken,
     WorkerCheck,
        WorkerLock, WorkerPop, WorkerBegin, WorkerFree, WorkerPost, RoutineSend,
        RoutineCheck, RoutineLock, RoutineEnd, RoutineReturn, Step, Lock, SetState, Goto,
        data, flags
  <2>4. works = <<>> /\ ~Busy => works' = <<>> /\ ~Busy'
    BY <1>1
    DEF WorkerStep, SendFails, WorkerTop, WorkerAnnounce, WorkerWait, WorkerWoken,
     WorkerCheck,
        WorkerLock, WorkerPop, WorkerBegin, WorkerFree, WorkerPost, RoutineSend,
        RoutineCheck, RoutineLock, RoutineEnd, RoutineReturn, Step, Lock, SetState, Goto,
        InRoutine, data
  <2> QED BY <2>1, <2>2, <2>3, <2>4 DEF DoneInv, DoneMeansIdle
<1>2. CASE ScramblerStep
  <2>1. UNCHANGED pc["worker"]
    BY <1>2, ScramblerFrame
  <2>2. working_state' \in {working_state, 0}
    BY <1>2 DEF ScramblerStep, SendFails, ScramblerStart, ScramblerNext, ScramblerSent,
       ScramblerWait, ScramblerPoll, DoneLock, DoneRead, DoneState, EndFlag, EndState,
       EndSignal, ScramblerReport, ExitProcess, ExitStep, ExitCheck, ExitWait, ExitLock,
       ExitDrain, ExitClose, Step, Lock, SetState, Signal, RaiseFlag, flags
  <2>3. works' = works \/ works' = <<>>
    BY <1>2, ScramblerDataFrame DEF ExitDrain, data
  <2>4. /\ pc'["scrambler"] = "d_state" => pc["scrambler"] = "d_state" \/ works = <<>>
        /\ pc'["scrambler"] = "e_flag" =>
             pc["scrambler"] = "d_state" /\ working_state = WAIT_WORK_JOB
    BY <1>2 DEF ScramblerStep, SendFails, ScramblerStart, ScramblerNext, ScramblerSent,
       ScramblerWait, ScramblerPoll, DoneLock, DoneRead, DoneState, EndFlag, EndState,
       EndSignal, ScramblerReport, ExitProcess, ExitStep, ExitCheck, ExitWait, ExitLock,
       ExitDrain, ExitClose, AfterExit, Step, Lock, SetState, Signal, RaiseFlag, Goto
  <2>5. D1'
    BY <2>1, <2>2 DEF DoneInv, WAIT_WORK_JOB
  <2>6. Idle' => Idle
    BY <1>0, <2>1, <2>2 DEF WAIT_WORK_JOB, DataOK
  <2>7. (pc["scrambler"] = "d_state" /\ Idle => works = <<>>)'
    BY <2>3, <2>4, <2>6 DEF DoneInv
  <2>8. DoneMeansIdle'
    BY <2>1, <2>3, <2>4 DEF DoneInv, DoneMeansIdle, InRoutine
  <2> QED BY <2>5, <2>7, <2>8 DEF DoneInv
<1>3. CASE UIStep
  <2>1. CASE Start
    <3>1. pc["worker"] = "none"
      BY <2>1 DEF Start, HandleInv
    <3>2. pc'["scrambler"] = "start" /\ UNCHANGED working_state
      BY <2>1 DEF Start, flags
    <3> QED BY <3>1, <3>2 DEF DoneInv, DoneMeansIdle
  <2>2. CASE AddInsert
    <3>1. /\ UNCHANGED <<pc["worker"], pc["scrambler"], working_state, stop_working>>
          /\ pc["ui"] = "add_insert"
      BY <2>2 DEF AddInsert, Goto, flags
    <3>2. pc["worker"] = "send" \/ pc["scrambler"] = "send"
      BY <3>1 DEF SenderInv, Handling, Nobody
    <3> QED BY <3>1, <3>2 DEF DoneInv, DoneMeansIdle, InRoutine
  <2>3. CASE ~Start /\ ~AddInsert
    <3>1. works' = works \/ works' = <<>>
      BY <1>3, <2>3, UIDataFrame DEF HandlerAdd, ExitDrain, data
    <3>2. /\ UNCHANGED working_state
          /\ \/ UNCHANGED pc["worker"]
             \/ pc["worker"] = "send" /\ pc'["worker"] = "sent"
      BY <1>3, <2>3, UIWorker, UIInit DEF flags
    <3>3. pc'["scrambler"] \in {"d_state", "e_flag"} => UNCHANGED pc["scrambler"]
      BY <1>3, <2>3, UIScrambler
    <3>4. D1'
      BY <3>2 DEF DoneInv
    <3>5. Idle' => Idle
      BY <1>0, <3>2 DEF DoneInv
    <3>6. DoneMeansIdle'
      BY <3>1, <3>2, <3>3 DEF DoneInv, DoneMeansIdle, InRoutine
    <3> QED BY <3>1, <3>3, <3>4, <3>5, <3>6 DEF DoneInv
  <2> QED BY <2>1, <2>2, <2>3
<1>4. CASE UNCHANGED jobVars
  BY <1>4 DEF jobVars, flags, data, DoneInv, DoneMeansIdle, InRoutine
<1> QED BY <1>1, <1>2, <1>3, <1>4, NextCases

(* They are true in every state. *)
LEMMA DoneInvSpec == Spec => []DoneInv
<1>1. Init => DoneInv
  BY DEF Init, DoneInv, DoneMeansIdle, Thread, WAIT_WORK_JOB
<1>2. SafeInv /\ DoneInv /\ [Next]_jobVars => DoneInv'
  BY DoneStep DEF SafeInv
<1> QED BY <1>1, <1>2, SafeInvSpec, PTL DEF Spec

(* DoneMeansIdle: check_all_work_done tests the list under the mutex and   *)
(* then the state without it, and still never says that all work is done   *)
(* while a job is queued or running.                                       *)
THEOREM DoneTheorem == Spec => []DoneMeansIdle
<1>1. DoneInv => DoneMeansIdle
  BY DEF DoneInv
<1> QED BY <1>1, DoneInvSpec, PTL

-----------------------------------------------------------------------------
(* The queue *)

(* What a step of worker_thread does to the running job. *)
LEMMA WorkerRuns ==
  ASSUME TypeOK, RunInv, WorkerStep
  PROVE  /\ (InRoutine /\ InRoutine') => UNCHANGED job
         /\ ~InRoutine /\ InRoutine' => WorkerBegin
         /\ pc["worker"] = "prerun" => WorkerBegin
         /\ pc'["worker"] = "prerun" => WorkerPop /\ works # <<>>
<1> USE DEF Step, Lock, SetState, Goto, TypeOK, PcOK, Thread
<1>1. /\ (InRoutine /\ InRoutine') => UNCHANGED job
      /\ ~InRoutine /\ InRoutine' => WorkerBegin
  BY DEF WorkerStep, SendFails, WorkerTop, WorkerAnnounce, WorkerWait, WorkerWoken,
     WorkerCheck,
     WorkerLock, WorkerPop, WorkerBegin, WorkerFree, WorkerPost, RoutineSend,
     RoutineCheck, RoutineLock, RoutineEnd, RoutineReturn, InRoutine, locals
<1>2. pc["worker"] = "prerun" => WorkerBegin
  BY DEF WorkerStep, SendFails, WorkerTop, WorkerAnnounce, WorkerWait, WorkerWoken,
     WorkerCheck,
     WorkerLock, WorkerPop, WorkerFree, WorkerPost, RoutineSend,
     RoutineCheck, RoutineLock, RoutineEnd, RoutineReturn
<1>3. pc'["worker"] = "prerun" => WorkerPop /\ works # <<>>
  BY DEF WorkerStep, SendFails, WorkerTop, WorkerAnnounce, WorkerWait, WorkerWoken,
     WorkerCheck,
     WorkerLock, WorkerPop, WorkerBegin, WorkerFree, WorkerPost, RoutineSend,
     RoutineCheck, RoutineLock, RoutineEnd, RoutineReturn
<1> QED BY <1>1, <1>2, <1>3

(* A job that runs is a block, not NULL. *)
LEMMA RunStep ==
  ASSUME TypeInv, SenderInv, RunInv, [Next]_jobVars PROVE RunInv'
<1> USE DEF TypeInv, TypeOK
<1>1. CASE WorkerStep
  <2>1. pc'["worker"] = "prerun" => entry' \in Block
    BY <1>1, WorkerRuns, HeadTail DEF WorkerPop, DataOK
  <2>2. CASE WorkerBegin
    BY <2>1, <2>2 DEF WorkerBegin, Goto, PcOK, Thread, RunInv, InRoutine
  <2>3. CASE ~WorkerBegin
    BY <1>1, <2>1, <2>3, WorkerRuns DEF RunInv
  <2> QED BY <2>2, <2>3
<1>2. CASE UIStep
  <2>1. UNCHANGED <<job, entry>>
    BY <1>2, UIWorker DEF locals
  <2> QED BY <1>2, <2>1, UIWorker DEF RunInv, InRoutine
<1>3. CASE ScramblerStep
  BY <1>3, ScramblerFrame DEF RunInv, InRoutine, locals
<1>4. CASE UNCHANGED jobVars
  BY <1>4 DEF jobVars, locals, RunInv, InRoutine
<1> QED BY <1>1, <1>2, <1>3, <1>4, NextCases

(* Prefixing a list with one element. *)
LEMMA Prefix ==
  ASSUME NEW S, NEW e \in S, NEW s \in Seq(S)
  PROVE  /\ <<e>> \o s # <<>>
         /\ Head(<<e>> \o s) = e /\ Tail(<<e>> \o s) = s
         /\ \A b \in S : <<e>> \o Append(s, b) = Append(<<e>> \o s, b)
         /\ s # <<>> => <<Head(s)>> \o Tail(s) = s
OBVIOUS

(* The refinement mapping of ImplementsQueue. *)
Waiting == IF pc["worker"] = "prerun" THEN <<entry>> \o works ELSE works
Running == IF InRoutine THEN job ELSE NoBlock

(* Every step is a step of JobQueue under the refinement mapping, or changes nothing of it. *)
LEMMA QueueStep ==
  ASSUME SafeInv, StopInv, RunInv, [Next]_jobVars
  PROVE  \/ \E b \in Block : /\ Waiting' = Append(Waiting, b)
                             /\ UNCHANGED <<Running, stop_working>>
         \/ /\ ~stop_working /\ Running = NoBlock /\ Waiting # <<>>
            /\ Running' = Head(Waiting) /\ Waiting' = Tail(Waiting)
            /\ UNCHANGED stop_working
         \/ /\ Running # NoBlock /\ Running' = NoBlock
            /\ UNCHANGED <<Waiting, stop_working>>
         \/ stop_working' = TRUE /\ UNCHANGED <<Waiting, Running>>
         \/ /\ stop_working /\ Waiting # <<>> /\ Waiting' \in {<<>>, Tail(Waiting)}
            /\ UNCHANGED <<Running, stop_working>>
         \/ UNCHANGED <<Waiting, Running, stop_working>>
<1> USE DEF SafeInv, TypeInv, TypeOK, PcOK, Thread
<1>1. CASE WorkerPop
  <2>1. UNCHANGED <<Running, stop_working>>
    BY <1>1 DEF WorkerPop, Running, InRoutine, Goto, flags
  <2>2. UNCHANGED Waiting
    <3>1. CASE works = <<>>
      BY <1>1, <3>1 DEF WorkerPop, Goto, Waiting
    <3>2. CASE works # <<>>
      <4>1. works \in Seq(Block) /\ Head(works) \in Block /\ Tail(works) \in Seq(Block)
        BY <3>2, HeadTail DEF DataOK
      <4>2. <<Head(works)>> \o Tail(works) = works
        BY <3>2, <4>1, Prefix
      <4> QED BY <1>1, <3>2, <4>2 DEF WorkerPop, Goto, Waiting
    <3> QED BY <3>1, <3>2
  <2> QED BY <2>1, <2>2
<1>2. CASE WorkerBegin
  <2>1. /\ Waiting = <<entry>> \o works /\ Waiting' = works
        /\ Running = NoBlock /\ UNCHANGED stop_working
        /\ Running' = IF stop_working THEN NoBlock ELSE entry
    BY <1>2 DEF WorkerBegin, Goto, Waiting, Running, InRoutine, data, flags
  <2>2. entry \in Block /\ works \in Seq(Block)
    BY <1>2 DEF WorkerBegin, Goto, RunInv, DataOK
  <2>3. Waiting # <<>> /\ Head(Waiting) = entry /\ Tail(Waiting) = works
    BY <2>1, <2>2, Prefix
  <2> QED BY <2>1, <2>3 DEF DataOK
<1>3. CASE WorkerStep /\ ~WorkerPop /\ ~WorkerBegin
  <2>1. UNCHANGED Waiting
    BY <1>3, WorkerRuns, WorkerDataFrame DEF WorkerFree, data, Waiting
  <2>2. CASE RoutineEnd
    BY <2>1, <2>2 DEF RoutineEnd, Goto, Running, InRoutine, locals, DataOK
  <2>3. CASE ~RoutineEnd
    <3>1. UNCHANGED stop_working
      BY <1>3, <2>3
      DEF WorkerStep, SendFails, WorkerTop, WorkerAnnounce, WorkerWait, WorkerWoken,
     WorkerCheck,
          WorkerLock, WorkerFree, WorkerPost, RoutineSend, RoutineCheck, RoutineLock,
          RoutineReturn, Step, Lock, SetState, flags
    <3>2. Running' = Running \/ (InRoutine /\ ~InRoutine')
      BY <1>3, WorkerRuns DEF Running
    <3>3. InRoutine /\ ~InRoutine' => Running # NoBlock /\ Running' = NoBlock
      BY JobWorkerAssumption DEF Running, RunInv
    <3> QED BY <2>1, <3>1, <3>2, <3>3
  <2> QED BY <2>2, <2>3
<1>4. CASE ExitDrain("ui") \/ ExitDrain("scrambler")
  <2>1. PICK t \in {"ui", "scrambler"} : ExitDrain(t)
    BY <1>4
  <2>2. WorkerOver /\ stop_working
    BY <2>1 DEF ExitDrain, Goto, HandleInv, Closing, StopInv
  <2>3. UNCHANGED <<pc["worker"], job, stop_working>> /\ works' = <<>>
    BY <2>1 DEF ExitDrain, Goto, locals, flags
  <2>4. Waiting = works /\ Waiting' = <<>> /\ UNCHANGED Running
    BY <2>2, <2>3 DEF WorkerOver, Waiting, Running, InRoutine
  <2> QED BY <2>2, <2>3, <2>4
<1>5. CASE UIStep /\ ~ExitDrain("ui")
  <2>2. CASE AddInsert
    <3>1. /\ UNCHANGED <<pc["worker"], entry, job, stop_working>>
          /\ works' = Append(works, new_job) /\ new_job \in Block
      BY <2>2 DEF AddInsert, Goto, locals, flags, JobHeld
    <3>2. UNCHANGED Running
      BY <3>1 DEF Running, InRoutine
    <3>3. Waiting' = Append(Waiting, new_job)
      <4>1. works \in Seq(Block) /\ (pc["worker"] = "prerun" => entry \in Block)
        BY DEF DataOK, RunInv
      <4> QED BY <3>1, <4>1, Prefix DEF Waiting
    <3> QED BY <3>1, <3>2, <3>3
  <2>3. CASE ~AddInsert
    <3>1. UNCHANGED works
      BY <1>5, <2>3, UIDataFrame DEF HandlerAdd, data
    <3>2. UNCHANGED <<entry, job>>
      BY <1>5, UIWorker DEF locals
    <3>3. \/ UNCHANGED pc["worker"]
          \/ pc["worker"] = "none" /\ pc'["worker"] \in {"none", "top"}
          \/ pc["worker"] = "send" /\ pc'["worker"] = "sent"
      BY <1>5, <2>3, UIWorker DEF HandleInv
    <3>4. UNCHANGED <<Waiting, Running>>
      BY <3>1, <3>2, <3>3 DEF Waiting, Running, InRoutine
    <3>5. UNCHANGED stop_working
      BY <1>5, UIWorker DEF flags
    <3> QED BY <3>4, <3>5
  <2> QED BY <2>2, <2>3
<1>6. CASE ScramblerStep /\ ~ExitDrain("scrambler")
  <2>1. UNCHANGED <<Waiting, Running>>
    BY <1>6, ScramblerFrame, ScramblerDataFrame
    DEF Waiting, Running, InRoutine, data, locals
  <2>2. stop_working' = stop_working \/ stop_working' = TRUE
    BY <1>6 DEF ScramblerStep, SendFails, ScramblerStart, ScramblerNext, ScramblerSent,
       ScramblerWait, ScramblerPoll, DoneLock, DoneRead, DoneState, EndFlag, EndState,
       EndSignal, ScramblerReport, ExitProcess, ExitStep, ExitCheck, ExitWait, ExitLock,
       ExitClose, Step, Lock, SetState, Signal, RaiseFlag, flags
  <2> QED BY <2>1, <2>2
<1>7. CASE UNCHANGED jobVars
  BY <1>7 DEF jobVars, data, locals, flags, Waiting, Running, InRoutine
<1> QED BY <1>1, <1>2, <1>3, <1>4, <1>5, <1>6, <1>7, NextCases

(* ImplementsQueue: whatever the threads' interleaving, the worker is the  *)
(* queue of JobQueue to its callers: first in first out, one job at a      *)
(* time, none started after a stop.                                        *)
THEOREM Refinement == Spec => ImplementsQueue
<1>1. Init => RunInv /\ Queue!Init
  BY DEF Init, RunInv, InRoutine, Thread, Queue!Init
<1>2. TypeInv /\ SenderInv /\ RunInv /\ [Next]_jobVars => RunInv'
  BY RunStep
<1>3. SafeInv /\ StopInv /\ RunInv /\ [Next]_jobVars => [Queue!Next]_Queue!queueVars
  <2> SUFFICES ASSUME SafeInv, StopInv, RunInv, [Next]_jobVars
               PROVE  Queue!Next \/ UNCHANGED Queue!queueVars
    OBVIOUS
  <2> QED
    BY QueueStep
    DEF Waiting, Running, Queue!Next, Queue!queueVars, Queue!Submit, Queue!Begin,
        Queue!Finish, Queue!Stop, Queue!Drop
<1>4. SafeInv => TypeInv /\ SenderInv
  BY DEF SafeInv
<1> QED BY <1>1, <1>2, <1>3, <1>4, LockInvSpec, PTL DEF Spec, ImplementsQueue, Queue!Spec
-----------------------------------------------------------------------------
(* The end of the worker *)

(* Labels behind the first SendMessage of data_scramble_work. *)
Answered ==
  {"sent", "wait", "poll", "report", "d_lock", "d_read", "d_state", "e_flag", "e_state",
   "e_signal"} \union ExitLabel

(* What the manager sends: the action with the URL is the first one. *)
UrlDone == ~url_todo \/ pc["ui"] = "closed"

EndInv ==
  /\ ~click_todo
  /\ pc["scrambler"] \in Answered => UrlDone
  /\ pc["worker"] \in {"exist", "exist_read"} => pc["scrambler"] = "ended"
  /\ stop_working =>
       /\ works = <<>>
       /\ pc["ui"] \notin {"add_lock", "add_insert"}
       /\ UrlDone \/ pc["scrambler"] = "ended"

(* A stopped worker gets no more jobs. *)
LEMMA EndStep ==
  ASSUME InputSent = {FALSE}, TypeInv, SenderInv, HandleInv, DoneMeansIdle, EndInv, [Next]_jobVars
  PROVE  EndInv'
<1> USE DEF TypeInv, TypeOK, PcOK, Thread, UrlDone
<1>1. CASE WorkerStep
  <2>1. /\ UNCHANGED <<pc["ui"], pc["scrambler"], url_todo, click_todo>>
        /\ pc["worker"] = "send" => pc["ui"] = "closed"
    BY <1>1, WorkerFrame
  <2> USE DEF WorkerStep, SendFails, WorkerTop, WorkerAnnounce, WorkerWait, WorkerWoken,
          WorkerCheck, WorkerLock, WorkerPop, WorkerBegin, WorkerFree, WorkerPost,
          RoutineSend, RoutineCheck, RoutineLock, RoutineEnd, RoutineReturn, Step, Lock,
          SetState, Goto
  <2>2. /\ pc'["worker"] \in {"exist", "exist_read"} =>
             pc["worker"] = "exist" \/ pc["scrambler"] = "ended"
        /\ works = <<>> => works' = <<>>
    BY <1>1 DEF data
  <2>3. stop_working' => \/ stop_working
                         \/ RoutineEnd /\ works = <<>> /\ works' = <<>>
    BY <1>1 DEF data, flags
  <2>4. RoutineEnd => pc["ui"] \notin {"add_lock", "add_insert"}
    BY DEF SenderInv, Handling, Nobody, EndInv
  <2>5. RoutineEnd => pc["scrambler"] = "ended"
    BY DEF EndInv
  <2> QED BY <2>1, <2>2, <2>3, <2>4, <2>5 DEF EndInv
<1>2. CASE ScramblerStep
  <2>1. /\ UNCHANGED <<pc["ui"], pc["worker"], url_todo>>
        /\ pc["scrambler"] = "send" => pc["ui"] = "closed"
        /\ pc["scrambler"] # "ended"
    BY <1>2, ScramblerFrame
  <2> USE DEF ScramblerStep, SendFails, ScramblerStart, ScramblerNext, ScramblerSent,
          ScramblerWait, ScramblerPoll, DoneLock, DoneRead, DoneState, EndFlag, EndState,
          EndSignal, ScramblerReport, ExitProcess, ExitStep, ExitCheck, ExitWait, ExitLock,
          ExitDrain, ExitClose, AfterExit, Step, Lock, SetState, Signal, RaiseFlag, Goto
  <2>2. ~click_todo'
    BY <1>2, InputSent = {FALSE} DEF message, EndInv
  <2>3. pc'["scrambler"] \in Answered => pc["scrambler"] \in Answered \union {"send"}
    BY <1>2 DEF Answered, ExitLabel
  <2>4. works' = works \/ works' = <<>>
    BY <1>2, ScramblerDataFrame DEF data
  <2>5. stop_working' => \/ stop_working
                         \/ pc["scrambler"] = "e_flag"
    BY <1>2 DEF flags
  <2>6. pc["scrambler"] = "e_flag" =>
          works = <<>> /\ pc["ui"] \notin {"add_lock", "add_insert"} /\ UrlDone
    BY DEF SenderInv, Handling, Nobody, EndInv, DoneMeansIdle, InRoutine, Answered
  <2> QED BY <2>1, <2>2, <2>3, <2>4, <2>5, <2>6 DEF EndInv
<1>3. CASE UIStep
  <2>1. UNCHANGED stop_working
    BY <1>3, UIWorker DEF flags
  <2>2. CASE Start
    BY <2>1, <2>2 DEF Start, HandleInv, EndInv, message, data, Answered, ExitLabel
  <2>3. CASE HandlerReply
    <3>1. sender \in {"worker", "scrambler"} /\ pc[sender] = "send" /\ pc["ui"] # "closed"
      BY <2>3 DEF HandlerReply, SenderInv, Handling, Nobody
    <3>2. /\ pc'["ui"] = "loop" /\ pc'[sender] = "sent"
          /\ \A t \in Thread \ {"ui", sender} : pc'[t] = pc[t]
          /\ url_todo' = (url_todo /\ sender # "scrambler")
          /\ UNCHANGED <<click_todo, works>>
      BY <2>3, <3>1 DEF HandlerReply, Locates, data, DataOK
    <3> QED BY <2>1, <3>1, <3>2 DEF EndInv, Answered, ExitLabel
  <2>4. CASE HandlerAdd
    <3>1. /\ url_todo /\ sender = "scrambler" /\ ~url_todo' /\ UNCHANGED click_todo
          /\ pc["ui"] = "handler"
      BY <2>4 DEF HandlerAdd, Locates, EndInv, Goto
    <3>2. pc["scrambler"] = "send"
      BY <3>1 DEF SenderInv, Nobody
    <3>3. ~stop_working
      BY <3>1, <3>2 DEF EndInv
    <3>4. UNCHANGED <<pc["worker"], pc["scrambler"]>>
      BY <2>4 DEF HandlerAdd, Goto
    <3> QED BY <2>1, <3>1, <3>2, <3>3, <3>4 DEF EndInv
  <2>5. CASE ~Start /\ ~HandlerReply /\ ~HandlerAdd
    <3> USE DEF UIStep, Handle, AddLock, AddInsert, AddSignal, Timer, Cancel, ExitStep,
            ExitCheck, ExitWait, ExitLock, ExitDrain, ExitClose, AfterExit, ExitProcess,
            Goto, Step, Lock, Signal
    <3>1. UNCHANGED <<pc["worker"], pc["scrambler"], url_todo, click_todo>>
      BY <1>3, <2>5 DEF message
    <3>2. /\ pc["ui"] = "closed" => pc'["ui"] = "closed"
          /\ pc'["ui"] \in {"add_lock", "add_insert"} => pc["ui"] \in {"add_lock", "add_insert"}
      BY <1>3, <2>5
    <3>3. pc["ui"] # "add_insert" => works' \in {works, <<>>}
      BY <1>3, <2>5, UIDataFrame DEF AddInsert, data
    <3> QED BY <2>1, <3>1, <3>2, <3>3 DEF EndInv
  <2> QED BY <2>2, <2>3, <2>4, <2>5
<1>4. CASE UNCHANGED jobVars
  BY <1>4 DEF jobVars, data, flags, message, EndInv
<1> QED BY <1>1, <1>2, <1>3, <1>4, NextCases

(* NoJobLeftAtExit for any number of jobs: with the actions this manager   *)
(* sends, "worker exit end job still exist" is never logged; every job was *)
(* taken from the list before the worker ended, and none comes afterwards. *)
THEOREM NoJobLeft ==
  ASSUME InputSent = {FALSE}
  PROVE  Spec => []NoJobLeftAtExit
<1>1. Init => EndInv
  BY DEF Init, EndInv, UrlDone, Answered, ExitLabel, Thread
<1>2. TypeInv /\ SenderInv /\ HandleInv /\ DoneMeansIdle /\ EndInv /\ [Next]_jobVars => EndInv'
  BY InputSent = {FALSE}, EndStep
<1>3. StopInv /\ EndInv => NoJobLeftAtExit
  BY DEF StopInv, EndInv, NoJobLeftAtExit
<1>4. SafeInv => TypeInv /\ SenderInv /\ HandleInv
  BY DEF SafeInv
<1> QED BY <1>1, <1>2, <1>3, <1>4, LockInvSpec, DoneTheorem, PTL DEF Spec
=============================================================================
