----------------------------- MODULE JobWorker -----------------------------
(***************************************************************************)
(* The job worker of a browser process (scrambler/work_job.cpp and         *)
(* work_job.h) together with the three threads that use it:                *)
(*                                                                         *)
(*   "worker"     worker_thread, which runs web_page_work for every job;   *)
(*   "scrambler"  data_scramble_work, which sends each action to the       *)
(*                window and polls the worker when no answer comes;        *)
(*   "ui"         the window's thread: it starts the worker, queues jobs   *)
(*                while it handles a message, and polls on a timer.        *)
(*                                                                         *)
(* Every access to memory that another thread also uses is a step of its   *)
(* own.  The heap is a set of blocks that malloc may hand out again after  *)
(* free, because that is what a second free of the same block endangers.   *)
(***************************************************************************)
EXTENDS Naturals, Sequences

CONSTANTS
  Block,         (* the heap blocks malloc returns for a WORKER_JOB          *)
  NoBlock,       (* what an uninitialised or cleared job pointer holds       *)
  InputSent,     (* may a click or a step back come with an input text?      *)
  WindowCloses   (* TRUE when the user may close the browser window          *)

ASSUME JobWorkerAssumption ==
  /\ NoBlock \notin Block
  /\ InputSent \subseteq BOOLEAN /\ InputSent # {}
  /\ WindowCloses \in BOOLEAN

WAIT_WORK_JOB == 1
Thread        == {"worker", "scrambler", "ui"}
Nobody        == "nobody"

VARIABLES
  pc,             (* where each thread is                                    *)
  handle,         (* which of the three HANDLE fields are open (not NULL)    *)
  stop_working,   (* JOB_WORKER.stop_working                                 *)
  working_state,  (* JOB_WORKER.working_state: 0 or WAIT_WORK_JOB            *)
  work_notify,    (* the auto-reset event: TRUE when signalled               *)
  lock_owner,     (* the thread that owns the mutex work_lock, or Nobody     *)
  works,          (* the list of queued jobs                                 *)
  entry,          (* worker_thread's local entry                             *)
  job,            (* worker_thread's local job, never reset by the loop      *)
  new_job,        (* add_job_to_worker's local job                           *)
  allocated,      (* the blocks malloc handed out and nobody freed           *)
  bad_free,       (* free was called on a block its caller did not own       *)
  url_todo,       (* the action with the URL, the first one, is not handled  *)
  click_todo,     (* the action is a click or a step back that is not "done" *)
  sender,         (* whose message the window's thread is handling           *)
  exited          (* ExitProcess was called                                  *)

flags   == <<stop_working, working_state>>
heap    == <<allocated, bad_free>>
locals  == <<entry, job>>
message == <<url_todo, click_todo, sender>>
data    == <<works, new_job, heap>>
sync    == <<work_notify, lock_owner>>
jobVars == <<pc, handle, flags, sync, data, locals, message, exited>>

HandleField == {"worker", "work_lock", "work_notify"}

Queued == {works[i] : i \in DOMAIN works}

(* The worker thread returned, or was never created. *)
WorkerOver == pc["worker"] \in {"none", "exited"}

-----------------------------------------------------------------------------
(* Steps that the threads have in common *)

Goto(t, from, to) == pc[t] = from /\ pc' = [pc EXCEPT ![t] = to]

(* A step that changes only where t is. *)
Step(t, from, to) ==
  /\ Goto(t, from, to)
  /\ UNCHANGED <<handle, flags, sync, data, locals, message, exited>>

(* Mutant: a lock_mutex that gives up waiting, with its error ignored. *)
LockMutex_GivesUp(t) ==
  lock_owner' \in {lock_owner, IF lock_owner = Nobody THEN t ELSE lock_owner}

(* lock_mutex: wait for ownership.  On a NULL handle the wait fails at     *)
(* once, every caller ignores the error and goes on without the mutex.     *)
LockMutex(t) ==
  \/ handle["work_lock"] /\ lock_owner = Nobody /\ lock_owner' = t
  \/ ~handle["work_lock"] /\ UNCHANGED lock_owner

(* unlock_mutex: ReleaseMutex fails, without effect, for a thread that is  *)
(* not the owner.                                                          *)
UnlockMutex(t) == lock_owner' = IF lock_owner = t THEN Nobody ELSE lock_owner

Lock(t, from, to) ==
  /\ Goto(t, from, to)
  /\ LockMutex(t)
  /\ UNCHANGED <<handle, flags, work_notify, data, locals, message, exited>>

(* SetEvent; without effect on a NULL handle. *)
Signal(t, from, to) ==
  /\ Goto(t, from, to)
  /\ work_notify' = (work_notify \/ handle["work_notify"])
  /\ UNCHANGED <<handle, flags, lock_owner, data, locals, message, exited>>

RaiseFlag(t, from, to) ==
  /\ Goto(t, from, to)
  /\ stop_working' = TRUE
  /\ UNCHANGED <<handle, working_state, sync, data, locals, message, exited>>

SetState(t, from, to, state) ==
  /\ Goto(t, from, to)
  /\ working_state' = state
  /\ UNCHANGED <<handle, stop_working, sync, data, locals, message, exited>>

-----------------------------------------------------------------------------
(* worker_thread *)

(* The loop's first test of stop_working, where the code asserts FALSE. *)
WorkerTop == Step("worker", "top", IF stop_working THEN "exited" ELSE "announce")

WorkerAnnounce == SetState("worker", "announce", "wait", WAIT_WORK_JOB)

(* WaitForSingleObject( work_notify, INFINITE ) consumes the signal. *)
WorkerWait ==
  /\ Goto("worker", "wait", "woken")
  /\ work_notify
  /\ work_notify' = FALSE
  /\ UNCHANGED <<handle, flags, lock_owner, data, locals, message, exited>>

(* Mutant: the state still says the worker waits while it runs jobs. *)
WorkerWoken_KeepsState == Step("worker", "woken", "check")

WorkerWoken == SetState("worker", "woken", "check", 0)

WorkerCheck == Step("worker", "check", IF stop_working THEN "exited" ELSE "lock")

WorkerLock == Lock("worker", "lock", "pop")

(* An empty list ends the inner loop; otherwise the head is unlinked. *)
WorkerPop ==
  /\ Goto("worker", "pop", IF works = <<>> THEN "top" ELSE "prerun")
  /\ IF works = <<>>
     THEN UNCHANGED <<works, entry>>
     ELSE entry' = Head(works) /\ works' = Tail(works)
  /\ UnlockMutex("worker")
  /\ UNCHANGED <<handle, flags, work_notify, job, new_job, heap, message, exited>>

(* Mutant: the flag is not tested again after the job was unlinked. *)
WorkerBegin_Unchecked ==
  /\ Goto("worker", "prerun", "run")
  /\ job' = entry
  /\ UNCHANGED <<handle, flags, sync, data, entry, message, exited>>

(* A raised flag leaves job as the previous iteration left it. *)
WorkerBegin ==
  /\ Goto("worker", "prerun", IF stop_working THEN "free" ELSE "run")
  /\ job' = IF stop_working THEN job ELSE entry
  /\ UNCHANGED <<handle, flags, sync, data, entry, message, exited>>

(* free( job ) is legitimate only for a live block that is neither queued  *)
(* nor being queued.                                                       *)
WorkerFree ==
  /\ Goto("worker", "free", "post")
  /\ allocated' = allocated \ {job}
  /\ bad_free' = (bad_free \/ job \notin allocated \ (Queued \union {new_job}))
  /\ UNCHANGED <<handle, flags, sync, works, new_job, locals, message, exited>>

WorkerPost == Step("worker", "post", IF stop_working THEN "top" ELSE "lock")

-----------------------------------------------------------------------------
(* web_page_work, the routine of every job *)

(* The page loaded or its time is over: SendMessage blocks the worker      *)
(* until the window's thread has handled the message.                      *)
RoutineSend == Step("worker", "run", "send")

(* SendMessage fails at once when the window is gone. *)
SendFails(t, to) == pc["ui"] = "closed" /\ Step(t, "send", to)

(* After the message: is data_scramble_work still running? *)
RoutineCheck ==
  Step("worker", "sent", IF pc["scrambler"] = "ended" THEN "exist" ELSE "return")

(* check_woker_job_exist takes the mutex ... *)
RoutineLock == Lock("worker", "exist", "exist_read")

(* Mutant: the routine forgets to end the worker. *)
RoutineEnd_NoStop ==
  /\ Goto("worker", "exist_read", "return")
  /\ UnlockMutex("worker")
  /\ UNCHANGED <<handle, flags, work_notify, data, locals, message, exited>>

(* ... and with no job left worker_job_end stops the worker from inside.   *)
RoutineEnd ==
  /\ Goto("worker", "exist_read", "return")
  /\ UnlockMutex("worker")
  /\ stop_working' = (stop_working \/ works = <<>>)
  /\ working_state' = IF works = <<>> THEN 0 ELSE working_state
  /\ work_notify' = (work_notify \/ works = <<>>)
  /\ UNCHANGED <<handle, data, locals, message, exited>>

(* ERROR_STOP_THREAD, returned after worker_job_end, raises the flag once  *)
(* more; any other value is ignored.                                       *)
RoutineReturn == Step("worker", "return", "free")

WorkerStep ==
  \/ WorkerTop \/ WorkerAnnounce \/ WorkerWait \/ WorkerWoken \/ WorkerCheck
  \/ WorkerLock \/ WorkerPop \/ WorkerBegin \/ WorkerFree \/ WorkerPost
  \/ RoutineSend \/ SendFails("worker", "sent") \/ RoutineCheck \/ RoutineLock
  \/ RoutineEnd \/ RoutineReturn

-----------------------------------------------------------------------------
(* check_job_worker_exit, in t: afterwards the window's thread ends the    *)
(* process, and the scrambler answers the server with an exception.        *)

AfterExit(t) == IF t = "ui" THEN "closed" ELSE "report"

(* Nothing to do when the worker handle is NULL. *)
ExitCheck(t) ==
  Step(t, "x_check", IF handle["worker"] THEN "x_wait" ELSE AfterExit(t))

(* Mutant: the handles are closed under a worker that still runs. *)
ExitWait_Ignored(t) == Step(t, "x_wait", "x_lock")

(* The thread must be over, or its handle invalid, for the rest to run. *)
ExitWait(t) ==
  Step(t, "x_wait", IF WorkerOver \/ ~handle["worker"] THEN "x_lock"
                    ELSE IF t = "ui" THEN "loop" ELSE "wait")

ExitLock(t) == Lock(t, "x_lock", "x_drain")

(* Every job still queued is freed without having run. *)
ExitDrain(t) ==
  /\ Goto(t, "x_drain", "x_close")
  /\ works' = <<>>
  /\ allocated' = allocated \ Queued
  /\ bad_free' = (bad_free \/ ~(Queued \subseteq allocated))
  /\ UnlockMutex(t)
  /\ UNCHANGED <<handle, flags, work_notify, new_job, locals, message, exited>>

(* The three handles are closed and then cleared one after the other. *)
ExitClose(t, field, from, to) ==
  /\ Goto(t, from, to)
  /\ handle' = [handle EXCEPT ![field] = FALSE]
  /\ UNCHANGED <<flags, sync, data, locals, message, exited>>

ExitStep(t) ==
  \/ ExitCheck(t) \/ ExitWait(t) \/ ExitLock(t) \/ ExitDrain(t)
  \/ ExitClose(t, "work_lock", "x_close", "x_worker")
  \/ ExitClose(t, "worker", "x_worker", "x_notify")
  \/ ExitClose(t, "work_notify", "x_notify", AfterExit(t))

-----------------------------------------------------------------------------
(* The window's thread *)

(* OnInitDialog: start_job_worker, whose CreateThread may fail, and then   *)
(* the thread of data_scramble_work.                                       *)
Start ==
  /\ pc["ui"] = "init"
  /\ \E created \in BOOLEAN :
       /\ handle' = [f \in HandleField |-> f # "worker" \/ created]
       /\ pc' = [pc EXCEPT !["worker"] = IF created THEN "top" ELSE "none",
                           !["scrambler"] = "start", !["ui"] = "loop"]
  /\ UNCHANGED <<flags, sync, data, locals, message, exited>>

(* The window's procedure takes the message of a thread in SendMessage. *)
Handle(t) ==
  /\ pc[t] = "send"
  /\ Goto("ui", "loop", "handler")
  /\ sender' = t
  /\ UNCHANGED <<handle, flags, sync, data, locals, url_todo, click_todo, exited>>

Locates == url_todo /\ sender = "scrambler"

(* on_html_action queues a job when it locates the page of a new action,   *)
(* which it does for RUN_ACTION only, or when it performs a click or a     *)
(* step back that came with a text other than "done", which it then says.  *)
HandlerAdd ==
  /\ Goto("ui", "handler", "add_lock")
  /\ \/ Locates /\ url_todo' = FALSE /\ UNCHANGED click_todo
     \/ ~Locates /\ click_todo /\ click_todo' = FALSE /\ UNCHANGED url_todo
  /\ \E b \in Block \ allocated :
       new_job' = b /\ allocated' = allocated \union {b}
  /\ UNCHANGED <<handle, flags, sync, works, bad_free, locals, sender, exited>>

AddLock == Lock("ui", "add_lock", "add_insert")

(* Mutants of AddInsert: job is cleared too early; or it is not cleared,   *)
(* and the end of the function frees it; or InsertHeadList is called.      *)
AddInsert_ClearedFirst ==
  /\ Goto("ui", "add_insert", "add_signal")
  /\ new_job' = NoBlock /\ works' = Append(works, new_job')
  /\ UnlockMutex("ui")
  /\ UNCHANGED <<handle, flags, work_notify, heap, locals, message, exited>>

AddInsert_NotCleared ==
  /\ Goto("ui", "add_insert", "add_signal")
  /\ works' = Append(works, new_job) /\ allocated' = allocated \ {new_job}
  /\ UnlockMutex("ui")
  /\ UNCHANGED <<handle, flags, work_notify, new_job, bad_free, locals, message, exited>>

AddInsert_AtHead ==
  /\ Goto("ui", "add_insert", "add_signal")
  /\ works' = <<new_job>> \o works /\ new_job' = NoBlock
  /\ UnlockMutex("ui")
  /\ UNCHANGED <<handle, flags, work_notify, heap, locals, message, exited>>

AddInsert ==
  /\ Goto("ui", "add_insert", "add_signal")
  /\ works' = Append(works, new_job) /\ new_job' = NoBlock
  /\ UnlockMutex("ui")
  /\ UNCHANGED <<handle, flags, work_notify, heap, locals, message, exited>>

(* Mutant: the event is set only for a worker that says it waits. *)
AddSignal_IfWaiting ==
  IF working_state = WAIT_WORK_JOB THEN Signal("ui", "add_signal", "reply")
                                   ELSE Step("ui", "add_signal", "reply")

AddSignal == Signal("ui", "add_signal", "reply")

(* The handler returns, with no job queued when there was nothing to do or *)
(* malloc failed: SendMessage returns in the sending thread.               *)
HandlerReply ==
  /\ pc["ui"] \in {"handler", "reply"}
  /\ pc' = [pc EXCEPT !["ui"] = "loop", ![sender] = "sent"]
  /\ sender' = Nobody /\ url_todo' = (url_todo /\ ~Locates)
  /\ UNCHANGED <<handle, flags, sync, data, locals, click_todo, exited>>

(* Mutant: the timer does not wait for data_scramble_work to end. *)
Timer_Always == Step("ui", "loop", IF handle["worker"] THEN "x_check" ELSE "closed")

(* OnTimer, evaluate_worker_state: once data_scramble_work has ended the   *)
(* process exits as soon as the worker has ended as well.                  *)
Timer ==
  /\ pc["scrambler"] = "ended"
  /\ Step("ui", "loop", IF handle["worker"] THEN "x_check" ELSE "closed")

(* OnCancel posts WM_QUIT: the message loop ends and the window goes with  *)
(* it.  Nothing stops the worker (the window has no OnDestroy in its       *)
(* message map); the process exits under it.                               *)
Cancel == WindowCloses /\ Step("ui", "loop", "closed")

ExitProcess(t, label) ==
  /\ pc[t] = label
  /\ exited' = TRUE
  /\ UNCHANGED <<pc, handle, flags, sync, data, locals, message>>

UIStep ==
  \/ Start \/ Handle("worker") \/ Handle("scrambler") \/ HandlerAdd \/ AddLock
  \/ AddInsert \/ AddSignal \/ HandlerReply \/ Timer \/ Cancel \/ ExitStep("ui")
  \/ ExitProcess("ui", "closed")

-----------------------------------------------------------------------------
(* data_scramble_work *)

(* The server's pipe appears, or after 30 seconds the thread returns. *)
ScramblerStart ==
  \E label \in {"idle", "ended"} : Step("scrambler", "start", label)

(* The next action is fetched and sent to the window; or no memory is left *)
(* for the request and the thread returns with ERROR_SUCCESS.              *)
ScramblerNext ==
  \/ /\ Goto("scrambler", "idle", "send")
     /\ click_todo' \in InputSent
     /\ UNCHANGED <<handle, flags, sync, data, locals, url_todo, sender, exited>>
  \/ Step("scrambler", "idle", "ended")

ScramblerSent == Step("scrambler", "sent", "wait")

(* The wait for complete_notifier ends: signalled, or 3 seconds passed. *)
ScramblerWait ==
  \E label \in {"report", "poll"} : Step("scrambler", "wait", label)

ScramblerPoll ==
  Step("scrambler", "poll", IF handle["worker"] THEN "d_lock" ELSE "report")

(* check_all_work_done: is a job queued?  then: is the worker waiting?     *)
DoneLock == Lock("scrambler", "d_lock", "d_read")

(* Mutant: the worker's state alone is asked for. *)
DoneRead_Ignored ==
  /\ Goto("scrambler", "d_read", "d_state")
  /\ UnlockMutex("scrambler")
  /\ UNCHANGED <<handle, flags, work_notify, data, locals, message, exited>>

DoneRead ==
  /\ Goto("scrambler", "d_read", IF works = <<>> THEN "d_state" ELSE "x_check")
  /\ UnlockMutex("scrambler")
  /\ UNCHANGED <<handle, flags, work_notify, data, locals, message, exited>>

DoneState ==
  Step("scrambler", "d_state",
       IF working_state = WAIT_WORK_JOB THEN "e_flag" ELSE "x_check")

(* worker_job_end *)
EndFlag   == RaiseFlag("scrambler", "e_flag", "e_state")
EndState  == SetState("scrambler", "e_state", "e_signal", 0)
EndSignal == Signal("scrambler", "e_signal", "report")

(* The response is sent and the server answers CONTINUE. *)
ScramblerReport == Step("scrambler", "report", "idle")

(* ExitProcess: fetching an action failed, or the server said WORK_DONE.   *)
ScramblerStep ==
  \/ ScramblerStart \/ ScramblerNext \/ ScramblerSent
  \/ SendFails("scrambler", "wait") \/ ScramblerWait \/ ScramblerPoll \/ DoneLock \/ DoneRead
  \/ DoneState \/ EndFlag \/ EndState \/ EndSignal \/ ExitStep("scrambler") \/ ScramblerReport
  \/ ExitProcess("scrambler", "idle") \/ ExitProcess("scrambler", "report")

-----------------------------------------------------------------------------
Init ==
  /\ pc = [t \in Thread |-> IF t = "ui" THEN "init" ELSE "none"]
  /\ handle = [f \in HandleField |-> FALSE]
  /\ stop_working = FALSE /\ working_state = 0
  /\ work_notify = FALSE /\ lock_owner = Nobody
  /\ works = <<>> /\ new_job = NoBlock
  /\ allocated = {} /\ bad_free = FALSE
  /\ entry = NoBlock /\ job = NoBlock
  /\ url_todo = TRUE /\ click_todo = FALSE /\ sender = Nobody
  /\ exited = FALSE

(* The process is gone. *)
Gone == exited /\ UNCHANGED jobVars

Next == (~exited /\ (WorkerStep \/ UIStep \/ ScramblerStep)) \/ Gone

(* Threads are scheduled; a mutex goes to its waiters in turn, so taking   *)
(* it needs strong fairness; the window's thread dispatches sent messages  *)
(* and timer messages; every wait of a routine is bounded.  Nothing makes  *)
(* the user close the window.                                              *)
Live(A) == ~exited /\ A
Fairness ==
  /\ WF_jobVars(Live(WorkerStep)) /\ SF_jobVars(Live(WorkerLock \/ RoutineLock))
  /\ WF_jobVars(Live(Start \/ AddLock \/ AddInsert \/ AddSignal \/ HandlerReply
                      \/ ExitStep("ui") \/ ExitProcess("ui", "closed")))
  /\ SF_jobVars(Live(AddLock \/ ExitLock("ui")))
  /\ SF_jobVars(Live(Handle("worker"))) /\ SF_jobVars(Live(Timer))
  /\ WF_jobVars(Live(ScramblerStep))
  /\ SF_jobVars(Live(DoneLock \/ ExitLock("scrambler")))

Spec     == Init /\ [][Next]_jobVars
FairSpec == Spec /\ Fairness

-----------------------------------------------------------------------------
(* Properties *)

InRoutine == pc["worker"] \in
  {"run", "send", "sent", "exist", "exist_read", "return"}

(* The labels between lock_mutex and unlock_mutex. *)
InList(t) == pc[t] \in {"pop", "exist_read", "add_insert", "x_drain", "d_read"}

ExitLabel ==
  {"x_check", "x_wait", "x_lock", "x_drain", "x_close", "x_worker", "x_notify"}
WorkerLabel ==
  {"none", "top", "announce", "wait", "woken", "check", "lock", "pop", "prerun",
   "run", "send", "sent", "exist", "exist_read", "return", "free", "post",
   "exited"}
UILabel ==
  {"init", "loop", "handler", "add_lock", "add_insert", "add_signal", "reply",
   "closed"} \union ExitLabel
ScramblerLabel ==
  {"none", "start", "idle", "ended", "send", "sent", "wait", "poll", "report",
   "d_lock", "d_read", "d_state", "e_flag", "e_state", "e_signal"}
  \union ExitLabel

Label(t) == IF t = "worker" THEN WorkerLabel
            ELSE IF t = "ui" THEN UILabel ELSE ScramblerLabel

PcOK ==
  /\ pc \in [Thread -> WorkerLabel \union UILabel \union ScramblerLabel]
  /\ \A t \in Thread : pc[t] \in Label(t)

DataOK ==
  /\ handle \in [HandleField -> BOOLEAN]
  /\ stop_working \in BOOLEAN
  /\ working_state \in {0, WAIT_WORK_JOB}
  /\ work_notify \in BOOLEAN
  /\ lock_owner \in Thread \union {Nobody}
  /\ works \in Seq(Block)
  /\ entry \in Block \union {NoBlock}
  /\ job \in Block \union {NoBlock}
  /\ new_job \in Block \union {NoBlock}
  /\ allocated \subseteq Block
  /\ bad_free \in BOOLEAN
  /\ url_todo \in BOOLEAN /\ click_todo \in BOOLEAN
  /\ sender \in {"worker", "scrambler", Nobody}
  /\ exited \in BOOLEAN

(* Every variable holds a value of its C type; the list never holds a null *)
(* or an uninitialised pointer (work_job.cpp:214).                         *)
TypeOK == PcOK /\ DataOK

(* No two threads touch the list at once, even when one of them took the   *)
(* mutex from a field that was cleared meanwhile (work_job.cpp:40-54,      *)
(* 155-174, 208-217, 298-322, work_job.h:64-71).                           *)
ListAccessExclusive ==
  \A t, u \in Thread : InList(t) /\ InList(u) => t = u

(* The handles stay open as long as the worker thread can use them, though *)
(* two threads may close them (work_job.cpp:324-330, called at             *)
(* web_browser_window.cpp:618 and 816).                                    *)
HandlesOutliveWorker == ~WorkerOver => \A f \in HandleField : handle[f]

(* As long as nobody stopped the worker no block is freed twice, and the   *)
(* jobs that are queued or running are live, distinct blocks               *)
(* (work_job.cpp:53-77 frees whatever job held before).                    *)
HeapSafe ==
  /\ ~bad_free
  /\ Queued \subseteq allocated
  /\ InRoutine => job \in allocated \ Queued
  /\ \A i, j \in DOMAIN works : works[i] = works[j] => i = j
HeapSafeUntilStop == ~stop_working => HeapSafe

(* check_all_work_done makes two unprotected observations, and yet when it *)
(* says that all work is done no job is queued or being run                *)
(* (work_job.cpp:239-250, web_browser_window.cpp:808-813).                 *)
DoneMeansIdle ==
  pc["scrambler"] = "e_flag" =>
    works = <<>> /\ ~InRoutine /\ pc["worker"] \notin {"prerun", "free", "post"}

(* No routine starts after the worker was stopped, whoever stopped it      *)
(* (work_job.cpp:58).                                                      *)
NoStartAfterStop == [][stop_working => (InRoutine' => InRoutine)]_jobVars

(* The worker implements the queue its callers rely on (JobQueue). *)
Queue == INSTANCE JobQueue WITH
  waiting <- IF pc["worker"] = "prerun" THEN <<entry>> \o works ELSE works,
  running <- IF InRoutine THEN job ELSE NoBlock,
  stopped <- stop_working
ImplementsQueue == Queue!Spec

(* No wakeup is lost between the list and the event: a queued job leaves   *)
(* the list unless the worker is stopped, was never created or the process *)
(* exits (work_job.cpp:25,38-51,214-221).                                  *)
QueuedJobServed ==
  \A b \in Block :
    b \in Queued ~> (b \notin Queued \/ stop_working \/ ~handle["worker"] \/ exited)

(* When data_scramble_work has ended, a worker that still has a routine to *)
(* finish ends itself, and the process exits (web_browser_window.cpp:      *)
(* 3280-3291, 592-636).                                                    *)
OrphanExits ==
  pc["scrambler"] = "ended" /\ pc["worker"] \in {"run", "send"} ~> exited

(* check_woker_job_exist never meets a mutex that was closed: the test of  *)
(* the worker handle before it still holds, since the window's timer       *)
(* closes nothing while data_scramble_work runs (ASSERT in work_job.h:62,  *)
(* web_browser_window.cpp:806-816 against 592-618).                        *)
LockHandleValid ==
  /\ pc["scrambler"] = "d_lock" => handle["work_lock"]
  /\ pc["worker"] = "exist" => handle["work_lock"]

(* A worker that has ended leaves no job behind ("worker exit end job      *)
(* still exist", work_job.cpp:305, a fatal error), and none is queued for  *)
(* it later.  So it is as long as the manager sends a URL with the first   *)
(* action of a process only, and no text with a click.                     *)
NoJobLeftAtExit ==
  pc["worker"] = "exited" => works = <<>> /\ pc["ui"] \notin {"add_lock", "add_insert"}
=============================================================================
