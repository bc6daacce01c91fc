--------------------- MODULE BrowserClientSafetyProofs ---------------------
(***************************************************************************)
(* The safety properties of BrowserClient, proved for any number of        *)
(* actions, as long as the manager sends no action of an unknown kind.     *)
(***************************************************************************)
EXTENDS BrowserClientProofs

-----------------------------------------------------------------------------
(* The inductive invariant *)

(* A worker that may still run jobs. *)
Alive == ~stopped /\ pc["worker"] # "over"

Polls == {"wait", "poll", "state", "check"}

(* A job is being run whose message has not been handled to its end. *)
Runs ==
  \/ pc["worker"] = "run"
  \/ pc["worker"] = "send" /\ ~(pc["ui"] = "return" /\ sender = "worker")
Pending == waiting # <<>> \/ Runs

Handled(t) == sender = t /\ pc["ui"] \in {"text", "notify", "return"}

RunningInv == running = NoId <=> pc["worker"] \in {"waits", "serves", "over"}

(* An exception is reported only when the worker will run nothing more. *)
OverInv ==
  /\ ~worker_open => pc["worker"] = "over"
  /\ excepted \/ pc["scrambler"] = "except" => ~Alive

(* No worker is stopped whose message is still to come. *)
NoLateInv == pc["worker"] \in {"run", "send"} => ~stopped

(* What check_all_work_done has seen still holds when it is acted upon. *)
IdleInv ==
  /\ pc["scrambler"] = "state" /\ pc["worker"] = "waits" => waiting = <<>>
  /\ pc["scrambler"] = "end" /\ Alive =>
       waiting = <<>> /\ pc["worker"] \in {"waits", "serves"}

(* At most one job is left, it belongs to the current action, which is not *)
(* completed, and data_scramble_work still waits for that.                 *)
JobInv == Alive =>
  /\ waiting \in {<<>>, <<action.id>>}
  /\ Runs => running = action.id
  /\ Pending => \/ pc["scrambler"] \in Polls
                \/ pc["scrambler"] = "send" /\ Handled("scrambler")
  /\ Pending => completed # action.id /\ ~complete_notifier
  /\ Runs /\ ~Handled("worker") => waiting = <<>>
  /\ pc["ui"] \in {"text", "notify"} /\ action_end =>
       waiting = <<>> /\ (sender = "scrambler" => ~Runs)

(* An action is not completed before its message has been handled. *)
Before ==
  \/ pc["scrambler"] = "clear"
  \/ pc["scrambler"] = "send" /\ ~(pc["ui"] = "return" /\ sender = "scrambler")
CompletedInv ==
  /\ completed <= action.id
  /\ Before => completed < action.id

(* Until the first exception the event stands for the current action, and  *)
(* only until it has been consumed.                                        *)
EventInv ==
  ~excepted /\ pc["scrambler"] # "except" =>
    /\ complete_notifier =>
         completed = action.id /\ pc["scrambler"] \in Polls \union {"send", "end"}
    /\ pc["scrambler"] = "respond" => completed = action.id

ResponseInv ==
  pc["scrambler"] # "clear" =>
    \A i \in DOMAIN response : response[i] \in {action.id, NoId}

ClientInv ==
  /\ TypeInv /\ RunningInv /\ OverInv /\ NoLateInv /\ IdleInv
  /\ JobInv /\ CompletedInv /\ EventInv /\ ResponseInv

-----------------------------------------------------------------------------
(* Facts that hold in every state of the invariant *)

(* While the worker's message is handled, its job is the one of the action. *)
LEMMA WorkerMessage ==
  ASSUME ClientInv, InHandler, sender = "worker"
  PROVE  /\ Alive /\ Runs /\ Pending /\ running = action.id
         /\ pc["worker"] = "send" /\ pc["scrambler"] \in Polls
         /\ completed # action.id /\ ~complete_notifier /\ ~excepted
<1>1. Alive /\ pc["worker"] = "send" /\ Runs /\ ~excepted
  BY DEF Alive, ClientInv, NoLateInv, OverInv, TypeInv, SenderInv,
     InHandler, Runs, Nobody
<1>2. ~Handled("scrambler")
  BY DEF Handled
<1> QED BY <1>1, <1>2 DEF ClientInv, JobInv, Pending

(* Any other message is that of data_scramble_work, which waits in SendMessage. *)
LEMMA ScramblerMessage ==
  ASSUME ClientInv, InHandler, sender # "worker"
  PROVE  sender = "scrambler" /\ pc["scrambler"] = "send"
BY DEF ClientInv, TypeInv, TypeOK, DataOK, SenderInv, InHandler, Nobody

(* A handler runs for an action that has arrived. *)
LEMMA HandlerAction ==
  ASSUME ClientInv, InHandler
  PROVE  action \in Action /\ action.id \in Id /\ action.kind \in Kinds
<1>1. action # NoAction
  BY DEF ClientInv, TypeInv, ArrivedInv, SenderInv, InHandler
<1> QED BY <1>1, ActionId DEF ClientInv, TypeInv, TypeOK, DataOK, Action

-----------------------------------------------------------------------------
(* What the steps of a thread leave alone *)

(* What data_scramble_work leaves alone. *)
LEMMA ScramblerFrame ==
  ASSUME TypeInv, ScramblerStep
  PROVE  /\ pc'["ui"] = pc["ui"] /\ pc'["worker"] = pc["worker"]
         /\ UNCHANGED <<action_end, sender, running, completed, performed>>
<1> USE DEF TypeInv, TypeOK, PcOK, Thread, Goto, Step, work, call, queue, seen
<1>1. CASE \/ Fetch \/ Clear \/ WaitNotified \/ Except
  BY <1>1 DEF Fetch, Clear, WaitNotified, Except
<1>2. CASE \/ SendFails("scrambler", "wait") \/ WaitTimeout \/ Poll \/ PollState
           \/ Respond \/ Step("scrambler", "idle", "ended")
  BY <1>2 DEF SendFails, WaitTimeout, Poll, PollState, Respond
<1>3. CASE EndWorker \/ CheckExit
  BY <1>3 DEF EndWorker, CheckExit, StopWorker, Queue!Stop
<1>4. CASE ExitProcess("scrambler", "idle") \/ ExitProcess("scrambler", "respond")
  BY <1>4 DEF ExitProcess
<1> QED BY <1>1, <1>2, <1>3, <1>4 DEF ScramblerStep

(* What the job worker leaves alone. *)
LEMMA WorkerFrame ==
  ASSUME TypeInv, WorkerStep
  PROVE  /\ pc'["ui"] = pc["ui"] /\ pc'["scrambler"] = pc["scrambler"]
         /\ UNCHANGED <<action, response, complete_notifier, action_end, sender,
                        worker_open, completed, performed, excepted>>
BY DEF TypeInv, TypeOK, PcOK, Thread, Goto, Step, work, call, queue, signal, seen,
   WorkerStep, Wake, Rest, Begin, Discard, Loaded, SendFails, Orphaned, Finish, StopWorker

(* The steps of a handler between taking a message and returning. *)
HandlerStep == Locate \/ Exec \/ Text \/ Notify

(* What a handler's step does to everything but the answer. *)
LEMMA HandlerFrame ==
  ASSUME ClientInv, "unknown" \notin Kinds, HandlerStep
  PROVE  /\ InHandler /\ pc'["ui"] \in {"text", "notify", "return"}
         /\ pc'["scrambler"] = pc["scrambler"] /\ pc'["worker"] = pc["worker"]
         /\ UNCHANGED <<sender, running, stopped, worker_open, excepted>>
         /\ action'.id = action.id
         /\ waiting' \in {waiting, Append(waiting, action.id)}
         /\ ~Notify => UNCHANGED <<completed, complete_notifier>>
<1> USE DEF ClientInv, TypeInv, TypeOK, PcOK, Thread, Goto, work, call, queue, signal, seen,
    HandlerStep, InHandler
<1>1. CASE Locate
  BY <1>1 DEF Locate, MayQueueJob, Queue!Submit
<1>2. CASE Exec
  <2>1. action.kind # "unknown"
    BY <1>2, HandlerAction DEF Exec
  <2>2. action'.id = action.id
    BY <1>2, HandlerAction DEF Exec, Perform, Action
  <2>3. /\ pc["ui"] = "exec" /\ pc' = [pc EXCEPT !["ui"] = "text"]
        /\ UNCHANGED <<sender, excepted>>
    BY <1>2 DEF Exec
  <2>4. /\ UNCHANGED <<running, stopped, worker_open>>
        /\ waiting' \in {waiting, Append(waiting, action.id)}
    BY <1>2 DEF Exec, Perform, MayQueueJob, Queue!Submit
  <2>5. UNCHANGED <<completed, complete_notifier>>
    BY <1>2, <2>1, HandlerAction DEF Exec, DataOK
  <2>6. /\ pc'["ui"] = "text"
        /\ pc'["scrambler"] = pc["scrambler"] /\ pc'["worker"] = pc["worker"]
    BY <2>3
  <2> QED BY <2>2, <2>3, <2>4, <2>5, <2>6
<1>3. CASE Text
  BY <1>3 DEF Text
<1>4. CASE Notify
  BY <1>4 DEF Notify
<1> QED BY <1>1, <1>2, <1>3, <1>4

(* The steps of the window's thread that are not a handler's. *)
WindowStep ==
  \/ Handle("scrambler") \/ Handle("worker") \/ Return \/ Timer \/ Close
  \/ ExitProcess("ui", "closed")

(* What the other steps of the window's thread leave alone. *)
LEMMA WindowFrame ==
  ASSUME TypeInv, WindowStep
  PROVE  UNCHANGED <<action, response, complete_notifier, completed, excepted>>
BY DEF WindowStep, Handle, Return, Timer, Close, Step, ExitProcess, work, seen

(* A frame for each kind of step that leaves the data alone. *)
LEMMA HandleFrame ==
  ASSUME TypeInv, NEW t \in {"scrambler", "worker"}, Handle(t)
  PROVE  /\ pc["ui"] = "loop" /\ pc'["ui"] = "exec" /\ sender' = t /\ pc[t] = "send"
         /\ pc'["scrambler"] = pc["scrambler"] /\ pc'["worker"] = pc["worker"]
         /\ UNCHANGED <<waiting, running, stopped, worker_open>>
BY DEF TypeInv, TypeOK, PcOK, Thread, Handle, Goto, queue, signal

(* SendMessage returns in the thread that sent the message. *)
LEMMA ReturnFrame ==
  ASSUME TypeInv, Return
  PROVE  /\ pc["ui"] = "return" /\ pc'["ui"] = "loop" /\ sender' = Nobody
         /\ \/ /\ sender = "scrambler" /\ pc["scrambler"] = "send"
               /\ pc'["scrambler"] = "wait" /\ pc'["worker"] = pc["worker"]
            \/ /\ sender = "worker" /\ pc["worker"] = "send"
               /\ pc'["worker"] = "sent" /\ pc'["scrambler"] = pc["scrambler"]
         /\ UNCHANGED <<waiting, running, stopped, worker_open>>
BY DEF TypeInv, TypeOK, PcOK, DataOK, SenderInv, Nobody, Thread, Return, queue, signal

(* Steps that change nothing but exited. *)
LEMMA QuietFrame ==
  ASSUME \/ Timer \/ ExitProcess("ui", "closed")
         \/ ExitProcess("scrambler", "idle") \/ ExitProcess("scrambler", "respond")
         \/ UNCHANGED clientVars
  PROVE  UNCHANGED <<pc, work, call, queue, signal, seen>>
BY DEF Timer, ExitProcess, clientVars

(* The window goes between two messages, and takes nothing else with it. *)
LEMMA ClosingFrame ==
  ASSUME TypeInv, Close
  PROVE  /\ pc["ui"] = "loop" /\ pc'["ui"] = "closed"
         /\ pc'["scrambler"] = pc["scrambler"] /\ pc'["worker"] = pc["worker"]
         /\ UNCHANGED <<action_end, sender, waiting, running, stopped, worker_open>>
BY DEF TypeInv, TypeOK, PcOK, Thread, Close, Step, Goto, call, queue, signal

(* The cases of a step, one by one, as the lemmas below go through them. *)
LEMMA StepCases ==
  ASSUME [Next]_clientVars
  PROVE  \/ ScramblerStep \/ HandlerStep \/ WorkerStep
         \/ Handle("scrambler") \/ Handle("worker") \/ Return
         \/ Close \/ Timer \/ ExitProcess("ui", "closed") \/ UNCHANGED clientVars
BY NextCases DEF UIStep, HandlerStep

(* What a worker's step does to the worker. *)
LEMMA WorkerMoves ==
  ASSUME TypeInv, WorkerStep
  PROVE  LET w == pc["worker"]
             v == pc'["worker"] IN
         \/ /\ w = "waits" /\ v \in {"serves", "over"} /\ (v = "over" <=> stopped)
            /\ UNCHANGED <<waiting, running, stopped>>
         \/ /\ w = "serves" /\ v \in {"waits", "over"} /\ (v = "over" <=> stopped)
            /\ waiting = <<>> /\ UNCHANGED <<waiting, running, stopped>>
         \/ /\ w = "serves" /\ v = "run" /\ Begin
            /\ UNCHANGED stopped
         \/ /\ w = "serves" /\ v = "over" /\ stopped /\ waiting # <<>>
            /\ waiting' = Tail(waiting) /\ UNCHANGED <<running, stopped>>
         \/ /\ w = "run" /\ v = "send" /\ UNCHANGED <<waiting, running, stopped>>
         \/ /\ w = "send" /\ v = "sent" /\ pc["ui"] = "closed"
            /\ UNCHANGED <<waiting, running, stopped>>
         \/ /\ w = "sent" /\ v = "done" /\ UNCHANGED <<waiting, running>>
            /\ stopped => stopped'
         \/ /\ w = "done" /\ v \in {"serves", "over"} /\ (v = "over" <=> stopped)
            /\ Finish /\ UNCHANGED <<waiting, stopped>>
<1> USE DEF TypeInv, TypeOK, PcOK, Thread, Goto, Step, queue
<1>1. CASE Wake
  BY <1>1 DEF Wake
<1>2. CASE Rest
  BY <1>2 DEF Rest
<1>3. CASE Begin
  BY <1>3 DEF Begin, Queue!Begin
<1>4. CASE Discard
  BY <1>4 DEF Discard
<1>5. CASE Loaded
  BY <1>5 DEF Loaded
<1>6. CASE Orphaned
  BY <1>6 DEF Orphaned, StopWorker, Queue!Stop
<1>7. CASE Finish
  BY <1>7 DEF Finish, Queue!Finish
<1>8. CASE SendFails("worker", "sent")
  BY <1>8 DEF SendFails
<1> QED BY <1>1, <1>2, <1>3, <1>4, <1>5, <1>6, <1>7, <1>8 DEF WorkerStep

(* ... and a step of data_scramble_work to it. *)
LEMMA ScramblerMoves ==
  ASSUME TypeInv, ScramblerStep
  PROVE  LET s == pc["scrambler"]
             u == pc'["scrambler"] IN
         \/ s = "idle" /\ u = "clear" /\ Fetch
         \/ s = "clear" /\ u = "send" /\ Clear
         \/ /\ s = "send" /\ u = "wait" /\ pc["ui"] = "closed"
            /\ SendFails("scrambler", "wait")
         \/ s = "wait" /\ u = "respond" /\ WaitNotified
         \/ s = "wait" /\ u = "poll" /\ ~complete_notifier /\ WaitTimeout
         \/ /\ s = "poll" /\ Poll
            /\ u = IF ~worker_open THEN "except" ELSE IF waiting = <<>> THEN "state" ELSE "check"
         \/ s = "state" /\ u = "end" /\ pc["worker"] = "waits" /\ PollState
         \/ s = "state" /\ u = "check" /\ PollState
         \/ s = "end" /\ u = "except" /\ EndWorker
         \/ s = "check" /\ u = "wait" /\ pc["worker"] # "over" /\ CheckExit
         \/ s = "check" /\ u = "except" /\ pc["worker"] = "over" /\ CheckExit
         \/ s = "except" /\ u = "respond" /\ Except
         \/ s = "respond" /\ u = "idle" /\ Respond
         \/ s = "idle" /\ u = "ended" /\ Step("scrambler", "idle", "ended")
         \/ s = u /\ s \in {"idle", "respond"} /\ UNCHANGED <<pc, work, call, queue, signal, seen>>
<1> USE DEF TypeInv, TypeOK, PcOK, Thread, Goto, Step
<1>1. CASE Fetch
  BY <1>1 DEF Fetch
<1>2. CASE Clear
  BY <1>2 DEF Clear
<1>3. CASE SendFails("scrambler", "wait")
  BY <1>3 DEF SendFails
<1>4. CASE WaitNotified
  BY <1>4 DEF WaitNotified
<1>5. CASE WaitTimeout
  BY <1>5 DEF WaitTimeout
<1>6. CASE Poll
  BY <1>6 DEF Poll
<1>7. CASE PollState
  BY <1>7 DEF PollState
<1>8. CASE EndWorker
  BY <1>8 DEF EndWorker
<1>9. CASE CheckExit
  BY <1>9 DEF CheckExit
<1>10. CASE Except
  BY <1>10 DEF Except
<1>11. CASE Respond
  BY <1>11 DEF Respond
<1>12. CASE Step("scrambler", "idle", "ended")
  BY <1>12
<1>13. CASE ExitProcess("scrambler", "idle") \/ ExitProcess("scrambler", "respond")
  BY <1>13 DEF ExitProcess
<1> QED BY <1>1, <1>2, <1>3, <1>4, <1>5, <1>6, <1>7, <1>8, <1>9, <1>10, <1>11, <1>12,
        <1>13 DEF ScramblerStep

-----------------------------------------------------------------------------
(* Every part of the invariant is kept by every step. *)

(* The variables one by one, for the steps above. *)
LEMMA Quiet ==
  ASSUME UNCHANGED <<pc, work, call, queue, signal, seen>>
  PROVE  UNCHANGED <<pc, action, response, complete_notifier, action_end, sender,
                     waiting, running, stopped, work_notify, worker_open,
                     completed, performed, excepted>>
BY DEF work, call, queue, signal, seen

(* running names a job exactly while the worker has one. *)
LEMMA RunningStep ==
  ASSUME TypeInv, RunningInv, [Next]_clientVars, ~HandlerStep
  PROVE  RunningInv'
<1> USE DEF RunningInv
<1>1. CASE ScramblerStep
  BY <1>1, ScramblerFrame
<1>3. CASE WorkerStep
  <2>1. CASE Begin
    <3>1. running' \in Id
      BY <2>1, HeadTail DEF Begin, Queue!Begin, TypeInv, TypeOK, DataOK
    <3>3. running' # NoId
      BY <3>1, BrowserClientAssumption DEF Id, NoId
    <3>2. pc'["worker"] = "run"
      BY <2>1 DEF Begin, Goto, TypeInv, TypeOK, PcOK, Thread
    <3> QED BY <3>2, <3>3
  <2>2. CASE Finish
    <3>1. running' = NoId
      BY <2>2 DEF Finish, Queue!Finish
    <3>2. pc'["worker"] \in {"serves", "over"}
      BY <2>2 DEF Finish, Goto, TypeInv, TypeOK, PcOK, Thread
    <3> QED BY <3>1, <3>2
  <2> QED BY <1>3, <2>1, <2>2, WorkerMoves
<1>4. CASE Handle("scrambler") \/ Handle("worker")
  BY <1>4, HandleFrame
<1>5. CASE Return
  BY <1>5, ReturnFrame
<1>6. CASE Close
  BY <1>6, ClosingFrame
<1>7. CASE Timer \/ ExitProcess("ui", "closed") \/ UNCHANGED clientVars
  BY <1>7, QuietFrame, Quiet
<1> QED BY <1>1, <1>3, <1>4, <1>5, <1>6, <1>7, StepCases

(* A worker that was stopped, or is over, never runs a job again. *)
LEMMA AliveStep ==
  ASSUME ClientInv, [Next]_clientVars, "unknown" \notin Kinds
  PROVE  /\ Alive' => Alive
         /\ pc["worker"] = "over" => pc'["worker"] = "over"
         /\ stopped => stopped'
<1> USE DEF Alive
<1>0. TypeInv
  BY DEF ClientInv
<1>1. CASE ScramblerStep
  <2>1. stopped => stopped'
    BY <1>1 DEF ScramblerStep, Fetch, Clear, SendFails, WaitNotified, WaitTimeout, Poll,
       PollState, EndWorker, CheckExit, Except, Respond, ExitProcess, Step, StopWorker,
       Queue!Stop, queue
  <2> QED BY <1>0, <1>1, <2>1, ScramblerFrame
<1>2. CASE HandlerStep
  BY <1>2, HandlerFrame
<1>3. CASE WorkerStep
  BY <1>0, <1>3, WorkerMoves DEF Begin, Finish
<1>4. CASE Handle("scrambler") \/ Handle("worker")
  BY <1>0, <1>4, HandleFrame
<1>5. CASE Return
  BY <1>0, <1>5, ReturnFrame
<1>6. CASE Close
  BY <1>0, <1>6, ClosingFrame
<1>7. CASE Timer \/ ExitProcess("ui", "closed") \/ UNCHANGED clientVars
  BY <1>7, QuietFrame, Quiet
<1> QED BY <1>1, <1>2, <1>3, <1>4, <1>5, <1>6, <1>7, StepCases

(* A closed handle and an exception mean that no job will run. *)
LEMMA OverStep == ASSUME ClientInv, [Next]_clientVars, "unknown" \notin Kinds PROVE OverInv'
<1> USE DEF OverInv
<1>0. TypeInv /\ OverInv
  BY DEF ClientInv
<1>1. CASE ScramblerStep
  <2>1. /\ pc'["ui"] = pc["ui"] /\ pc'["worker"] = pc["worker"]
    BY <1>0, <1>1, ScramblerFrame
  <2>2. ~worker_open' => pc["worker"] = "over"
    <3>1. UNCHANGED worker_open \/ pc["worker"] = "over"
      BY <1>1 DEF ScramblerStep, Fetch, Clear, SendFails, WaitNotified, WaitTimeout, Poll,
         PollState, EndWorker, CheckExit, Except, Respond, ExitProcess, Step, StopWorker,
         signal
    <3> QED BY <1>0, <3>1
  <2>3. excepted' \/ pc'["scrambler"] = "except" => ~Alive'
    <3>1. CASE excepted \/ pc["scrambler"] = "except"
      BY <1>0, <3>1, AliveStep
    <3>2. CASE ~(excepted \/ pc["scrambler"] = "except")
      <4>1. ~excepted'
        <5>1. UNCHANGED excepted
          BY <1>1, <3>2 DEF ScramblerStep, Fetch, Clear, SendFails, WaitNotified,
             WaitTimeout, Poll, PollState, EndWorker, CheckExit, Except, Respond,
             ExitProcess, Step, Goto, seen
        <5> QED BY <3>2, <5>1
      <4>2. CASE EndWorker
        BY <4>2 DEF EndWorker, StopWorker, Queue!Stop, Alive
      <4>3. CASE pc'["scrambler"] = "except" /\ ~EndWorker
        <5>1. pc["worker"] = "over" \/ ~worker_open
          BY <1>0, <1>1, <3>2, <4>3, ScramblerMoves
        <5> QED BY <1>0, <2>1, <5>1 DEF Alive
      <4> QED BY <4>1, <4>2, <4>3
    <3> QED BY <3>1, <3>2
  <2> QED BY <1>0, <2>1, <2>2, <2>3
<1>2. CASE HandlerStep
  <2>1. ~Alive => ~Alive'
    BY AliveStep
  <2> QED BY <1>0, <1>2, <2>1, HandlerFrame DEF InHandler
<1>3. CASE WorkerStep
  <2>1. ~Alive => ~Alive'
    BY AliveStep
  <2>2. pc["worker"] = "over" => pc'["worker"] = "over"
    BY AliveStep
  <2> QED BY <1>0, <1>3, <2>1, <2>2, WorkerFrame
<1>4. CASE WindowStep
  <2>1. ~Alive => ~Alive'
    BY AliveStep
  <2>2. pc["worker"] = "over" => pc'["worker"] = "over"
    BY AliveStep
  <2>3. UNCHANGED excepted
    BY <1>0, <1>4, WindowFrame
  <2>4. CASE Handle("scrambler") \/ Handle("worker")
    BY <1>0, <2>1, <2>2, <2>3, <2>4, HandleFrame
  <2>5. CASE Return
    BY <1>0, <2>1, <2>2, <2>3, <2>5, ReturnFrame
  <2>6. CASE Close
    BY <1>0, <2>1, <2>2, <2>3, <2>6, ClosingFrame
  <2>7. CASE Timer \/ ExitProcess("ui", "closed")
    BY <1>0, <2>1, <2>7, QuietFrame, Quiet
  <2> QED BY <1>4, <2>4, <2>5, <2>6, <2>7 DEF WindowStep
<1>5. CASE UNCHANGED clientVars
  BY <1>0, <1>5, QuietFrame, Quiet DEF Alive
<1> QED BY <1>1, <1>2, <1>3, <1>4, <1>5, StepCases DEF WindowStep

(* data_scramble_work stops the worker only while it has nothing to do. *)
LEMMA NoLateStep == ASSUME ClientInv, [Next]_clientVars, "unknown" \notin Kinds PROVE NoLateInv'
<1> USE DEF NoLateInv
<1>0. TypeInv /\ NoLateInv /\ IdleInv
  BY DEF ClientInv
<1>1. CASE ScramblerStep
  <2>1. /\ pc'["ui"] = pc["ui"] /\ pc'["worker"] = pc["worker"]
    BY <1>0, <1>1, ScramblerFrame
  <2>2. CASE EndWorker
    <3>1. pc["scrambler"] = "end"
      BY <2>2 DEF EndWorker, Goto
    <3>2. CASE Alive
      BY <1>0, <2>1, <3>1, <3>2 DEF IdleInv
    <3>3. CASE ~Alive /\ pc["worker"] # "over"
      BY <1>0, <2>1, <3>3 DEF Alive
    <3> QED BY <2>1, <3>2, <3>3
  <2>3. CASE ~EndWorker
    <3>1. UNCHANGED stopped
      BY <1>1, <2>3 DEF ScramblerStep, Fetch, Clear, SendFails, WaitNotified, WaitTimeout,
         Poll, PollState, CheckExit, Except, Respond, ExitProcess, Step, queue
    <3> QED BY <1>0, <2>1, <3>1
  <2> QED BY <2>2, <2>3
<1>2. CASE HandlerStep
  BY <1>0, <1>2, HandlerFrame DEF InHandler
<1>3. CASE WorkerStep
  <2>1. CASE Begin
    BY <2>1 DEF Begin, Queue!Begin
  <2>2. CASE ~Begin
    BY <1>0, <1>3, <2>2, WorkerMoves, WorkerFrame
  <2> QED BY <2>1, <2>2
<1>4. CASE Handle("scrambler") \/ Handle("worker")
  BY <1>0, <1>4, HandleFrame
<1>5. CASE Return
  BY <1>0, <1>5, ReturnFrame
<1>6. CASE Close
  BY <1>0, <1>6, ClosingFrame
<1>7. CASE Timer \/ ExitProcess("ui", "closed") \/ UNCHANGED clientVars
  BY <1>0, <1>7, QuietFrame, Quiet
<1> QED BY <1>1, <1>2, <1>3, <1>4, <1>5, <1>6, <1>7, StepCases

(* An idle worker stays idle until data_scramble_work has acted on it. *)
LEMMA IdleStep == ASSUME ClientInv, [Next]_clientVars, "unknown" \notin Kinds PROVE IdleInv'
<1> USE DEF IdleInv
<1>0. TypeInv /\ IdleInv
  BY DEF ClientInv
<1>a. Alive' => Alive
  BY AliveStep
<1>1. CASE ScramblerStep
  <2>1. pc'["worker"] = pc["worker"]
    BY <1>0, <1>1, ScramblerFrame
  <2>2. pc'["scrambler"] \in {"state", "end"} => UNCHANGED waiting
    <3>1. CASE Poll \/ PollState
      BY <3>1 DEF Poll, PollState, Step, queue
    <3>2. CASE ~(Poll \/ PollState)
      BY <1>0, <1>1, <3>2, ScramblerMoves
    <3> QED BY <3>1, <3>2
  <2>3. pc'["scrambler"] = "state" => waiting = <<>>
    BY <1>0, <1>1, ScramblerMoves
  <2>4. pc'["scrambler"] = "end" => pc["scrambler"] = "state" /\ pc["worker"] = "waits"
    BY <1>0, <1>1, ScramblerMoves
  <2> QED BY <1>0, <2>1, <2>2, <2>3, <2>4
<1>2. CASE HandlerStep
  <2>1. /\ InHandler /\ pc'["scrambler"] = pc["scrambler"] /\ pc'["worker"] = pc["worker"]
    BY <1>2, HandlerFrame
  <2>2. CASE sender = "worker"
    <3>1. pc["scrambler"] \in Polls /\ pc["worker"] = "send"
      BY <2>1, <2>2, WorkerMessage
    <3> QED BY <2>1, <3>1 DEF Polls
  <2>3. CASE sender # "worker"
    <3>1. pc["scrambler"] = "send"
      BY <2>1, <2>3, ScramblerMessage
    <3> QED BY <2>1, <3>1
  <2> QED BY <2>2, <2>3
<1>3. CASE WorkerStep
  <2>1. pc'["scrambler"] = pc["scrambler"]
    BY <1>0, <1>3, WorkerFrame
  <2>2. pc'["worker"] = "waits" => waiting = <<>> /\ waiting' = <<>>
    BY <1>0, <1>3, WorkerMoves
  <2>3. ASSUME pc["scrambler"] = "end", Alive'
        PROVE  waiting' = <<>> /\ pc'["worker"] \in {"waits", "serves"}
    <3>1. waiting = <<>> /\ pc["worker"] \in {"waits", "serves"}
      BY <1>0, <1>a, <2>3
    <3>2. ~Begin
      BY <3>1 DEF Begin, Queue!Begin
    <3>3. pc'["worker"] # "over"
      BY <2>3 DEF Alive
    <3> QED BY <1>0, <1>3, <3>1, <3>2, <3>3, WorkerMoves
  <2> QED BY <2>1, <2>2, <2>3
<1>4. CASE Handle("scrambler") \/ Handle("worker")
  BY <1>0, <1>a, <1>4, HandleFrame
<1>5. CASE Return
  BY <1>0, <1>a, <1>5, ReturnFrame
<1>6. CASE Close
  BY <1>0, <1>a, <1>6, ClosingFrame DEF Alive
<1>7. CASE Timer \/ ExitProcess("ui", "closed") \/ UNCHANGED clientVars
  BY <1>0, <1>a, <1>7, QuietFrame, Quiet
<1> QED BY <1>1, <1>2, <1>3, <1>4, <1>5, <1>6, <1>7, StepCases

(* An action is completed only after its message was handled. *)
LEMMA CompletedStep ==
  ASSUME ClientInv, [Next]_clientVars, "unknown" \notin Kinds PROVE CompletedInv'
<1> USE DEF CompletedInv, Before
<1>0. TypeInv /\ CompletedInv
  BY DEF ClientInv
<1>a. action.id \in Nat /\ completed \in Nat
  BY ActionId, BrowserClientAssumption DEF ClientInv, TypeInv, TypeOK, DataOK, Id, NoId
<1>1. CASE ScramblerStep
  <2>1. pc'["ui"] = pc["ui"] /\ UNCHANGED <<sender, completed>>
    BY <1>0, <1>1, ScramblerFrame
  <2>2. CASE Fetch
    <3>1. action'.id = action.id + 1
      BY <2>2 DEF Fetch
    <3> QED BY <1>0, <1>a, <2>1, <3>1
  <2>3. CASE ~Fetch
    <3>1. action' = action
      BY <1>1, <2>3 DEF ScramblerStep, Clear, SendFails, WaitNotified, WaitTimeout, Poll,
         PollState, EndWorker, CheckExit, Except, Respond, ExitProcess, Step, work
    <3>2. \/ pc'["scrambler"] \notin {"clear", "send"}
          \/ pc["scrambler"] = "clear"
      BY <1>0, <1>1, <2>3, ScramblerMoves
    <3> QED BY <1>0, <2>1, <3>1, <3>2
  <2> QED BY <2>2, <2>3
<1>2. CASE HandlerStep
  <2>1. /\ InHandler /\ action'.id = action.id /\ UNCHANGED sender
        /\ pc'["scrambler"] = pc["scrambler"]
    BY <1>2, HandlerFrame
  <2>2. CASE Notify
    <3>1. completed' \in {completed, action.id} /\ pc'["ui"] = "return"
      BY <1>0, <2>2 DEF Notify, Goto, TypeInv, TypeOK, PcOK, Thread
    <3>2. CASE sender = "worker"
      <4>1. pc["scrambler"] \in Polls
        BY <2>1, <3>2, WorkerMessage
      <4> QED BY <1>0, <1>a, <2>1, <3>1, <4>1 DEF Polls
    <3>3. CASE sender # "worker"
      <4>1. sender = "scrambler" /\ pc["scrambler"] = "send"
        BY <2>1, <3>3, ScramblerMessage
      <4> QED BY <1>0, <1>a, <2>1, <3>1, <4>1
    <3> QED BY <3>2, <3>3
  <2>3. CASE ~Notify
    <3>1. completed' = completed
      BY <1>2, <2>3, HandlerFrame
    <3> QED BY <1>0, <2>1, <3>1 DEF InHandler
  <2> QED BY <2>2, <2>3
<1>3. CASE WorkerStep
  BY <1>0, <1>3, WorkerFrame
<1>4. CASE WindowStep
  <2>1. UNCHANGED <<action, completed>>
    BY <1>0, <1>4, WindowFrame
  <2>2. CASE Handle("scrambler") \/ Handle("worker")
    BY <1>0, <2>1, <2>2, HandleFrame
  <2>3. CASE Return
    BY <1>0, <2>1, <2>3, ReturnFrame
  <2>4. CASE Close
    BY <1>0, <2>1, <2>4, ClosingFrame
  <2>5. CASE Timer \/ ExitProcess("ui", "closed")
    BY <1>0, <2>5, QuietFrame, Quiet
  <2> QED BY <1>4, <2>2, <2>3, <2>4, <2>5 DEF WindowStep
<1>5. CASE UNCHANGED clientVars
  BY <1>0, <1>5, QuietFrame, Quiet
<1> QED BY <1>1, <1>2, <1>3, <1>4, <1>5, StepCases DEF WindowStep

(* The event stands for the current action. *)
LEMMA EventStep == ASSUME ClientInv, [Next]_clientVars, "unknown" \notin Kinds PROVE EventInv'
<1> USE DEF EventInv, Polls
<1>0. TypeInv /\ EventInv
  BY DEF ClientInv
<1>1. CASE ScramblerStep
  <2>1. completed' = completed
    BY <1>0, <1>1, ScramblerFrame
  <2>2. CASE Fetch \/ Clear \/ WaitNotified
    BY <1>0, <2>1, <2>2 DEF Fetch, Clear, WaitNotified, Goto, TypeInv, TypeOK, PcOK, Thread,
       seen
  <2>3. CASE Except
    BY <2>3 DEF Except
  <2>4. CASE ~(Fetch \/ Clear \/ WaitNotified \/ Except)
    <3>1. UNCHANGED <<action, complete_notifier, excepted>>
      BY <1>1, <2>4 DEF ScramblerStep, SendFails, WaitTimeout, Poll,
         PollState, EndWorker, CheckExit, Respond, ExitProcess, Step, work, seen
    <3>2. /\ pc["scrambler"] # "except"
          /\ pc'["scrambler"] = "respond" => pc["scrambler"] = "respond"
          /\ pc["scrambler"] \in Polls \union {"send", "end"} =>
               pc'["scrambler"] \in Polls \union {"send", "end", "except"}
      BY <1>0, <1>1, <2>4, ScramblerMoves
    <3> QED BY <1>0, <2>1, <3>1, <3>2
  <2> QED BY <2>2, <2>3, <2>4
<1>2. CASE HandlerStep
  <2>1. /\ InHandler /\ action'.id = action.id /\ UNCHANGED excepted
        /\ pc'["scrambler"] = pc["scrambler"]
    BY <1>2, HandlerFrame
  <2>2. pc["scrambler"] \in Polls \union {"send"}
    BY <2>1, WorkerMessage, ScramblerMessage
  <2>3. CASE Notify
    <3>1. /\ complete_notifier' = (complete_notifier \/ action_end)
          /\ completed' = IF action_end THEN action.id ELSE completed
      BY <2>3 DEF Notify
    <3>2. CASE action_end
      BY <2>1, <2>2, <3>1, <3>2
    <3>3. CASE ~action_end
      <4>1. completed' = completed /\ (complete_notifier' => complete_notifier)
        BY <3>1, <3>3
      <4> QED BY <1>0, <2>1, <2>2, <4>1
    <3> QED BY <3>2, <3>3
  <2>4. CASE ~Notify
    <3>1. UNCHANGED <<completed, complete_notifier>>
      BY <1>2, <2>4, HandlerFrame
    <3> QED BY <1>0, <2>1, <3>1
  <2> QED BY <2>3, <2>4
<1>3. CASE WorkerStep
  BY <1>0, <1>3, WorkerFrame
<1>4. CASE WindowStep
  <2>1. UNCHANGED <<action, complete_notifier, completed, excepted>>
    BY <1>0, <1>4, WindowFrame
  <2>2. CASE Handle("scrambler") \/ Handle("worker")
    BY <1>0, <2>1, <2>2, HandleFrame
  <2>3. CASE Return
    BY <1>0, <2>1, <2>3, ReturnFrame
  <2>4. CASE Close
    BY <1>0, <2>1, <2>4, ClosingFrame
  <2>5. CASE Timer \/ ExitProcess("ui", "closed")
    BY <1>0, <2>5, QuietFrame, Quiet
  <2> QED BY <1>4, <2>2, <2>3, <2>4, <2>5 DEF WindowStep
<1>5. CASE UNCHANGED clientVars
  BY <1>0, <1>5, QuietFrame, Quiet
<1> QED BY <1>1, <1>2, <1>3, <1>4, <1>5, StepCases DEF WindowStep

(* What the texts are after one is added ... *)
LEMMA AppendTexts ==
  ASSUME NEW S, NEW s \in Seq(S), NEW T, NEW x \in T, x \in S,
         \A i \in DOMAIN s : s[i] \in T
  PROVE  \A i \in DOMAIN Append(s, x) : Append(s, x)[i] \in T
OBVIOUS

(* ... and replaced. *)
LEMMA FirstText ==
  ASSUME NEW S, NEW s \in Seq(S), NEW T, NEW x \in T, x \in S,
         \A i \in DOMAIN s : s[i] \in T
  PROVE  \A i \in DOMAIN [s EXCEPT ![1] = x] : [s EXCEPT ![1] = x][i] \in T
OBVIOUS

(* The texts were written for the current action. *)
LEMMA ResponseStep ==
  ASSUME ClientInv, [Next]_clientVars, "unknown" \notin Kinds PROVE ResponseInv'
<1> USE DEF ResponseInv
<1>0. TypeInv /\ ResponseInv
  BY DEF ClientInv
<1>1. CASE ScramblerStep
  <2>1. CASE Fetch
    BY <1>0, <2>1 DEF Fetch, Goto, TypeInv, TypeOK, PcOK, Thread
  <2>2. CASE Clear \/ Except
    BY <2>2 DEF Clear, Except
  <2>3. CASE ~(Fetch \/ Clear \/ Except)
    <3>1. UNCHANGED <<action, response>>
      BY <1>1, <2>3 DEF ScramblerStep, SendFails, WaitNotified, WaitTimeout, Poll,
         PollState, EndWorker, CheckExit, Respond, ExitProcess, Step, work
    <3>2. pc["scrambler"] # "clear"
      BY <1>0, <1>1, <2>3, ScramblerMoves
    <3> QED BY <1>0, <3>1, <3>2
  <2> QED BY <2>1, <2>2, <2>3
<1>2. CASE HandlerStep
  <2>1. /\ InHandler /\ action'.id = action.id
    BY <1>2, HandlerFrame
  <2>2. pc["scrambler"] \in Polls \union {"send"}
    BY <2>1, WorkerMessage, ScramblerMessage
  <2>3. \A i \in DOMAIN response : response[i] \in {action.id, NoId}
    BY <1>0, <2>2 DEF Polls
  <2>4. response \in Seq(Id \union {NoId}) /\ action.id \in Id \union {NoId}
    BY <1>0, <2>1, HandlerAction DEF TypeInv, TypeOK, DataOK
  <2>5. \/ response' = response \/ response' = Append(response, action.id)
        \/ response' = <<action.id>> \/ response' = [response EXCEPT ![1] = action.id]
    BY <1>2 DEF HandlerStep, Locate, Exec, Text, Notify, Answer, work
  <2>6. \A i \in DOMAIN response' : response'[i] \in {action.id, NoId}
    <3>1. CASE response' = response
      BY <2>3, <3>1
    <3>2. CASE response' = Append(response, action.id)
      BY <2>3, <2>4, <3>2, AppendTexts
    <3>3. CASE response' = <<action.id>>
      BY <3>3
    <3>4. CASE response' = [response EXCEPT ![1] = action.id]
      BY <2>3, <2>4, <3>4, FirstText
    <3> QED BY <2>5, <3>1, <3>2, <3>3, <3>4
  <2> QED BY <2>1, <2>6
<1>3. CASE WorkerStep
  BY <1>0, <1>3, WorkerFrame
<1>4. CASE WindowStep
  <2>1. UNCHANGED <<action, response>>
    BY <1>0, <1>4, WindowFrame
  <2>2. pc'["scrambler"] # "clear" => pc["scrambler"] # "clear"
    BY <1>0, <1>4, HandleFrame, ReturnFrame, ClosingFrame, QuietFrame, Quiet DEF WindowStep
  <2> QED BY <1>0, <2>1, <2>2
<1>5. CASE UNCHANGED clientVars
  BY <1>0, <1>5, QuietFrame, Quiet
<1> QED BY <1>1, <1>2, <1>3, <1>4, <1>5, StepCases DEF WindowStep

(* A job that may still run is the current action's: after a step of data_scramble_work. *)
LEMMA JobScrambler ==
  ASSUME ClientInv, ScramblerStep, Alive', [Next]_clientVars, "unknown" \notin Kinds
  PROVE  JobInv'
<1>0. TypeInv /\ OverInv /\ IdleInv /\ JobInv
  BY DEF ClientInv
<1>1. Alive
  BY AliveStep
<1>2. /\ pc'["ui"] = pc["ui"] /\ pc'["worker"] = pc["worker"]
      /\ UNCHANGED <<action_end, sender, running, completed>>
  BY <1>0, ScramblerFrame
<1>3. (Runs' <=> Runs) /\ (\A t : Handled(t)' <=> Handled(t))
  BY <1>2 DEF Runs, Handled
<1>4. waiting' = waiting
  <2>1. UNCHANGED waiting \/ pc["worker"] = "over"
    BY DEF ScramblerStep, Fetch, Clear, SendFails, WaitNotified, WaitTimeout, Poll,
       PollState, EndWorker, CheckExit, Except, Respond, ExitProcess, Step, StopWorker,
       Queue!Stop, queue
  <2> QED BY <1>1, <2>1 DEF Alive
<1>5. Pending' <=> Pending
  BY <1>3, <1>4 DEF Pending
<1>6. CASE Pending
  <2>1. pc["scrambler"] \in Polls /\ ~complete_notifier
    <3>1. ~complete_notifier /\ (pc["scrambler"] \in Polls \/ pc["scrambler"] = "send")
      BY <1>0, <1>1, <1>6 DEF JobInv
    <3>2. pc["scrambler"] = "send" => pc["ui"] # "closed"
      BY <1>0, <1>1, <1>6 DEF JobInv, Polls, Handled
    <3>3. pc["scrambler"] # "send"
      BY <1>0, <3>2, ScramblerMoves
    <3> QED BY <3>1, <3>3
  <2>2. ~WaitNotified /\ ~EndWorker
    BY <2>1 DEF WaitNotified, EndWorker, Goto, Polls
  <2>3. ~(pc["scrambler"] = "state" /\ pc["worker"] = "waits")
    BY <1>0, <1>6 DEF IdleInv, Pending, Runs
  <2>4. pc'["scrambler"] \in Polls
    <3>1. worker_open /\ pc["worker"] # "over"
      BY <1>0, <1>1 DEF OverInv, Alive
    <3> QED BY <1>0, <2>1, <2>2, <2>3, <3>1, ScramblerMoves DEF Polls
  <2>5. UNCHANGED <<action, complete_notifier>>
    <3>1. ~Fetch /\ ~Clear /\ ~Except
      BY <2>1 DEF Fetch, Clear, Except, Goto, Polls
    <3> QED BY <2>2, <3>1 DEF ScramblerStep, SendFails, WaitTimeout, Poll, PollState,
            CheckExit, Respond, ExitProcess, Step, work
  <2> QED BY <1>0, <1>1, <1>2, <1>3, <1>4, <1>5, <2>4, <2>5 DEF JobInv
<1>7. CASE ~Pending
  <2>1. waiting' = <<>> /\ ~Runs' /\ ~Pending'
    BY <1>3, <1>4, <1>5, <1>7 DEF Pending
  <2> QED BY <2>1 DEF JobInv
<1> QED BY <1>6, <1>7

(* ... after a handler's step. *)
LEMMA JobHandler ==
  ASSUME ClientInv, HandlerStep, Alive', [Next]_clientVars, "unknown" \notin Kinds
  PROVE  JobInv'
<1>0. TypeInv /\ JobInv /\ CompletedInv /\ EventInv /\ OverInv
  BY DEF ClientInv
<1>1. Alive
  BY AliveStep
<1>2. /\ InHandler /\ pc'["ui"] \in {"text", "notify", "return"}
      /\ pc'["scrambler"] = pc["scrambler"] /\ pc'["worker"] = pc["worker"]
      /\ UNCHANGED <<sender, running>>
      /\ action'.id = action.id
      /\ waiting' \in {waiting, Append(waiting, action.id)}
  BY HandlerFrame
<1>3. Append(<<>>, action.id) = <<action.id>>
  OBVIOUS
<1>4. ~Exec /\ ~Locate => waiting' = waiting /\ pc["ui"] \in {"text", "notify"}
  BY DEF HandlerStep, Text, Notify, queue, Goto
<1>5. Exec \/ Locate => pc["ui"] = "exec"
  BY DEF Exec, Locate, Goto
<1>6. Handled(sender)'
  BY <1>2 DEF Handled
<1>7. Exec /\ action_end' => waiting' = waiting
  BY DEF Exec, Perform, queue
<1>8. ~Exec => UNCHANGED action_end
  BY DEF HandlerStep, Locate, Text, Notify, call
<1>9. ~Notify => UNCHANGED <<completed, complete_notifier>>
  BY HandlerFrame
<1>10. Notify => /\ pc'["ui"] = "return" /\ pc["ui"] = "notify"
                 /\ completed' = IF action_end THEN action.id ELSE completed
                 /\ complete_notifier' = (complete_notifier \/ action_end)
  BY <1>0 DEF Notify, Goto, TypeInv, TypeOK, PcOK, Thread
<1>11. Locate => pc'["ui"] = "return"
  BY <1>0 DEF Locate, Goto, TypeInv, TypeOK, PcOK, Thread
<1>12. CASE sender = "worker"
  <2>1. /\ Runs /\ Pending /\ running = action.id /\ pc["worker"] = "send"
        /\ pc["scrambler"] \in Polls /\ completed # action.id /\ ~complete_notifier
    BY <1>2, <1>12, WorkerMessage
  <2>2. ~Locate
    BY <1>12 DEF Locate
  <2>3. Exec => waiting = <<>>
    BY <1>0, <1>1, <1>5, <2>1 DEF JobInv, Handled
  <2>4. waiting' \in {<<>>, <<action.id>>}
    BY <1>0, <1>1, <1>2, <1>3, <1>4, <2>2, <2>3 DEF JobInv
  <2>5. pc'["ui"] \in {"text", "notify"} /\ action_end' => waiting' = <<>>
    BY <1>0, <1>1, <1>4, <1>7, <1>8, <2>2, <2>3 DEF JobInv
  <2>6. Notify /\ action_end => waiting' = <<>> /\ ~Runs'
    <3>1. ASSUME Notify, action_end PROVE waiting' = <<>>
      BY <1>0, <1>1, <1>4, <1>5, <1>10, <3>1 DEF JobInv
    <3>2. Notify => ~Runs'
      BY <1>2, <1>10, <1>12, <2>1 DEF Runs
    <3> QED BY <3>1, <3>2
  <2>7. Pending' => completed' # action.id /\ ~complete_notifier'
    <3>1. CASE Notify /\ action_end
      BY <2>6, <3>1 DEF Pending
    <3>2. CASE ~Notify
      BY <1>9, <2>1, <3>2
    <3>3. CASE Notify /\ ~action_end
      BY <1>10, <2>1, <3>3
    <3> QED BY <3>1, <3>2, <3>3
  <2> QED BY <1>2, <1>6, <1>12, <2>1, <2>4, <2>5, <2>7 DEF JobInv
<1>13. CASE sender # "worker"
  <2>1. sender = "scrambler" /\ pc["scrambler"] = "send"
    BY <1>2, <1>13, ScramblerMessage
  <2>2. Runs' <=> Runs
    BY <1>2, <2>1 DEF Runs
  <2>3. Handled("scrambler")'
    BY <1>6, <2>1, <1>2 DEF Handled
  <2>4. pc["ui"] = "exec" => /\ ~Pending /\ waiting = <<>> /\ ~Runs
                             /\ completed # action.id /\ ~complete_notifier
    <3>1. ASSUME pc["ui"] = "exec" PROVE ~Pending
      BY <1>0, <1>1, <2>1, <3>1 DEF JobInv, Handled, Polls
    <3>2. ASSUME pc["ui"] = "exec" PROVE completed # action.id
      <4>1. completed < action.id
        BY <1>0, <2>1, <3>2 DEF CompletedInv, Before
      <4>2. action.id \in Nat /\ completed \in Nat
        BY <1>0, ActionId, BrowserClientAssumption DEF TypeInv, TypeOK, DataOK, Id, NoId
      <4> QED BY <4>1, <4>2
    <3>3. ASSUME pc["ui"] = "exec" PROVE ~complete_notifier
      <4>1. ~excepted /\ pc["scrambler"] # "except"
        BY <1>0, <1>1 DEF OverInv
      <4> QED BY <1>0, <3>2, <3>3, <4>1 DEF EventInv
    <3> QED BY <3>1, <3>2, <3>3 DEF Pending
  <2>5. waiting' \in {<<>>, <<action.id>>}
    BY <1>0, <1>1, <1>2, <1>3, <1>4, <1>5, <2>4 DEF JobInv
  <2>6. Runs' => running' = action'.id /\ waiting' = <<>>
    <3>1. pc["ui"] = "exec" \/ (Runs => running = action.id /\ waiting = <<>>)
      BY <1>0, <1>1, <2>1 DEF JobInv, Handled
    <3> QED BY <1>2, <1>4, <1>5, <2>2, <2>4, <3>1
  <2>7. pc'["ui"] \in {"text", "notify"} /\ action_end' => waiting' = <<>> /\ ~Runs'
    <3>1. CASE pc["ui"] = "exec"
      BY <1>4, <1>7, <1>11, <2>2, <2>4, <3>1
    <3>2. CASE pc["ui"] # "exec"
      BY <1>0, <1>1, <1>4, <1>5, <1>8, <2>1, <2>2, <3>2 DEF JobInv
    <3> QED BY <3>1, <3>2
  <2>8. Pending' => completed' # action.id /\ ~complete_notifier'
    <3>1. CASE Notify /\ action_end
      <4>1. ~Pending'
        BY <1>0, <1>1, <1>4, <1>5, <1>10, <2>1, <2>2, <3>1 DEF JobInv, Pending
      <4> QED BY <4>1
    <3>2. CASE pc["ui"] = "exec"
      BY <1>9, <1>10, <2>4, <3>2
    <3>3. CASE pc["ui"] # "exec" /\ ~(Notify /\ action_end)
      <4>1. waiting' = waiting
        BY <1>4, <1>5, <3>3
      <4>2. Pending' => Pending
        BY <2>2, <4>1 DEF Pending
      <4>3. completed' = completed /\ (complete_notifier' => complete_notifier)
        <5>1. CASE Notify
          BY <1>10, <3>3, <5>1
        <5>2. CASE ~Notify
          BY <1>9, <5>2
        <5> QED BY <5>1, <5>2
      <4>4. Pending' => completed # action.id /\ ~complete_notifier
        BY <1>0, <1>1, <4>2 DEF JobInv
      <4> QED BY <4>3, <4>4
    <3> QED BY <3>1, <3>2, <3>3
  <2> QED BY <1>2, <2>1, <2>3, <2>5, <2>6, <2>7, <2>8 DEF JobInv
<1> QED BY <1>12, <1>13

(* ... after a step of the worker. *)
LEMMA JobWorkerStep ==
  ASSUME ClientInv, WorkerStep, Alive', [Next]_clientVars, "unknown" \notin Kinds
  PROVE  JobInv'
<1>0. TypeInv /\ JobInv
  BY DEF ClientInv
<1>1. Alive
  BY AliveStep
<1>2. /\ pc'["ui"] = pc["ui"] /\ pc'["scrambler"] = pc["scrambler"]
      /\ UNCHANGED <<action, complete_notifier, action_end, sender, completed>>
  BY <1>0, WorkerFrame
<1>3. \A t : Handled(t)' <=> Handled(t)
  BY <1>2 DEF Handled
<1>4. CASE Begin
  <2>1. /\ waiting # <<>> /\ running' = Head(waiting) /\ waiting' = Tail(waiting)
        /\ pc'["worker"] = "run"
    BY <1>0, <1>4 DEF Begin, Queue!Begin, Goto, TypeInv, TypeOK, PcOK, Thread
  <2>2. waiting = <<action.id>>
    BY <1>0, <1>1, <2>1 DEF JobInv
  <2>3. running' = action.id /\ waiting' = <<>>
    BY <2>1, <2>2
  <2>4. Pending /\ ~(pc["ui"] \in {"text", "notify"} /\ action_end)
    BY <1>0, <1>1, <2>1 DEF JobInv, Pending
  <2>5. /\ pc["scrambler"] \in Polls \/ (pc["scrambler"] = "send" /\ Handled("scrambler"))
        /\ completed # action.id /\ ~complete_notifier
    BY <1>0, <1>1, <2>4 DEF JobInv
  <2> QED BY <1>2, <1>3, <2>3, <2>4, <2>5 DEF JobInv
<1>5. CASE ~Begin
  <2>1. pc'["worker"] # "over" /\ ~stopped /\ ~stopped'
    BY <1>1 DEF Alive
  <2>2. waiting' = waiting
    BY <1>0, <1>5, <2>1, WorkerMoves
  <2>3. \/ /\ pc["worker"] \in {"waits", "serves", "sent", "done"}
           /\ pc'["worker"] \in {"waits", "serves", "done"}
        \/ pc["worker"] = "run" /\ pc'["worker"] = "send" /\ UNCHANGED running
        \/ pc["worker"] = "send" /\ pc'["worker"] = "sent" /\ pc["ui"] = "closed"
    BY <1>0, <1>5, <2>1, WorkerMoves
  <2>4. pc["worker"] = "run" => sender # "worker"
    BY <1>0 DEF TypeInv, SenderInv, Nobody
  <2>5. (Runs' => Runs) /\ (Runs' => UNCHANGED running)
    BY <1>2, <2>3, <2>4 DEF Runs
  <2>6. Pending' => Pending
    BY <2>2, <2>5 DEF Pending
  <2> QED BY <1>0, <1>1, <1>2, <1>3, <2>2, <2>5, <2>6 DEF JobInv
<1> QED BY <1>4, <1>5

(* ... after another step of the window's thread. *)
LEMMA JobWindow ==
  ASSUME ClientInv, WindowStep, Alive', [Next]_clientVars, "unknown" \notin Kinds
  PROVE  JobInv'
<1>0. TypeInv /\ JobInv /\ OverInv
  BY DEF ClientInv
<1>1. Alive
  BY AliveStep
<1>2. UNCHANGED <<action, complete_notifier, completed>>
  BY <1>0, WindowFrame
<1>3. CASE Handle("scrambler") \/ Handle("worker")
  <2>1. /\ pc["ui"] = "loop" /\ pc'["ui"] = "exec"
        /\ pc'["scrambler"] = pc["scrambler"] /\ pc'["worker"] = pc["worker"]
        /\ UNCHANGED <<waiting, running>>
    BY <1>0, <1>3, HandleFrame
  <2>2. /\ Runs' <=> Runs
        /\ \A t : ~Handled(t) /\ ~Handled(t)'
    BY <2>1 DEF Runs, Handled
  <2>3. Pending' <=> Pending
    BY <2>1, <2>2 DEF Pending
  <2> QED BY <1>0, <1>1, <1>2, <2>1, <2>2, <2>3 DEF JobInv
<1>4. CASE Return
  <2>1. /\ pc["ui"] = "return" /\ pc'["ui"] = "loop"
        /\ UNCHANGED <<waiting, running>>
    BY <1>0, <1>4, ReturnFrame
  <2>2. CASE sender = "scrambler"
    <3>1. pc'["scrambler"] = "wait" /\ pc'["worker"] = pc["worker"]
      BY <1>0, <1>4, <2>2, ReturnFrame
    <3>2. (Runs' <=> Runs) /\ ~Handled("worker")
      BY <2>1, <2>2, <3>1 DEF Runs, Handled
    <3>3. Pending' <=> Pending
      BY <2>1, <3>2 DEF Pending
    <3> QED BY <1>0, <1>1, <1>2, <2>1, <3>1, <3>2, <3>3 DEF JobInv, Polls
  <2>3. CASE sender # "scrambler"
    <3>1. /\ sender = "worker" /\ pc["worker"] = "send" /\ pc'["worker"] = "sent"
          /\ pc'["scrambler"] = pc["scrambler"]
      BY <1>0, <1>4, <2>3, ReturnFrame
    <3>2. ~Runs' /\ ~Runs /\ ~Handled("scrambler")
      BY <2>1, <3>1 DEF Runs, Handled
    <3>3. Pending' <=> Pending
      BY <2>1, <3>2 DEF Pending
    <3> QED BY <1>0, <1>1, <1>2, <2>1, <3>1, <3>2, <3>3 DEF JobInv
  <2> QED BY <2>2, <2>3
<1>5. CASE Close
  BY <1>0, <1>1, <1>2, <1>5, ClosingFrame DEF JobInv, Runs, Pending, Handled
<1>6. CASE Timer \/ ExitProcess("ui", "closed")
  BY <1>0, <1>1, <1>6, QuietFrame, Quiet DEF JobInv, Runs, Pending, Handled
<1> QED BY <1>3, <1>4, <1>5, <1>6 DEF WindowStep

(* A job that may still run is the current action's. *)
LEMMA JobStep == ASSUME ClientInv, [Next]_clientVars, "unknown" \notin Kinds PROVE JobInv'
<1>1. CASE ~Alive'
  BY <1>1 DEF JobInv
<1>2. CASE Alive' /\ ScramblerStep
  BY <1>2, JobScrambler
<1>3. CASE Alive' /\ HandlerStep
  BY <1>3, JobHandler
<1>4. CASE Alive' /\ WorkerStep
  BY <1>4, JobWorkerStep
<1>5. CASE Alive' /\ WindowStep
  BY <1>5, JobWindow
<1>6. CASE UNCHANGED clientVars
  BY <1>6, QuietFrame, Quiet DEF ClientInv, JobInv, Alive, Runs, Pending, Handled
<1> QED BY <1>1, <1>2, <1>3, <1>4, <1>5, <1>6, StepCases DEF WindowStep

-----------------------------------------------------------------------------
(* The invariant holds in every state, and what follows from it *)

(* The invariant holds at the start. *)
LEMMA InitClient == Init => ClientInv
<1> SUFFICES ASSUME Init PROVE ClientInv
  OBVIOUS
<1>1. TypeInv
  BY InitType
<1>2. /\ pc["ui"] = "loop" /\ pc["scrambler"] \in {"idle", "ended"}
      /\ pc["worker"] \in {"serves", "over"} /\ (~worker_open => pc["worker"] = "over")
  BY DEF Init, Thread
<1>3. /\ waiting = <<>> /\ running = NoId /\ response = <<>> /\ ~complete_notifier
      /\ completed = 0 /\ action.id = 0 /\ ~excepted
  BY DEF Init, Queue!Init, NoAction, NoId
<1>4. RunningInv /\ OverInv /\ NoLateInv /\ IdleInv
  BY <1>2, <1>3 DEF RunningInv, OverInv, NoLateInv, IdleInv
<1>5. JobInv
  BY <1>2, <1>3 DEF JobInv, Runs, Pending, Handled
<1>6. CompletedInv /\ EventInv /\ ResponseInv
  BY <1>2, <1>3 DEF CompletedInv, EventInv, ResponseInv, Before
<1> QED BY <1>1, <1>4, <1>5, <1>6 DEF ClientInv

(* It is inductive. *)
LEMMA StepClient == "unknown" \notin Kinds => (ClientInv /\ [Next]_clientVars => ClientInv')
<1> SUFFICES ASSUME "unknown" \notin Kinds, ClientInv, [Next]_clientVars PROVE ClientInv'
  OBVIOUS
<1>1. TypeInv' /\ RunningInv'
  BY TypeStep, RunningStep, HandlerFrame DEF ClientInv, RunningInv
<1> QED BY <1>1, OverStep, NoLateStep, IdleStep, JobStep, CompletedStep, EventStep,
        ResponseStep DEF ClientInv

(* It holds in every state. *)
LEMMA ClientInvariant == ASSUME "unknown" \notin Kinds PROVE Spec => []ClientInv
<1>1. ClientInv /\ [Next]_clientVars => ClientInv'
  BY StepClient
<1> QED BY <1>1, InitClient, PTL DEF Spec

(* The window's thread works on the shared action only while               *)
(* data_scramble_work waits for it, although no lock protects the action.  *)
THEOREM Alone == ASSUME "unknown" \notin Kinds PROVE Spec => []HandledAlone
<1>1. ClientInv => HandledAlone
  BY WorkerMessage, ScramblerMessage DEF HandledAlone, Polls
<1> QED BY <1>1, ClientInvariant, PTL

(* A page that was waited for is handled as part of the action that loaded *)
(* it, however late it comes.                                              *)
THEOREM JobsOwned == ASSUME "unknown" \notin Kinds PROVE Spec => []OwnJobs
<1>1. ClientInv => OwnJobs
  BY WorkerMessage DEF OwnJobs
<1> QED BY <1>1, ClientInvariant, PTL

(* An answer that is not an exception is given for an action whose handler *)
(* set the event: no event left over from before completes an action.      *)
THEOREM HandledAnswer == ASSUME "unknown" \notin Kinds PROVE Spec => []AnswerMeansHandled
<1>1. ClientInv => AnswerMeansHandled
  BY DEF ClientInv, EventInv, AnswerMeansHandled
<1> QED BY <1>1, ClientInvariant, PTL

(* The texts of an answer were written for its own action.                 *)
THEOREM AnswerOwned == ASSUME "unknown" \notin Kinds PROVE Spec => []OwnAnswer
<1>1. ClientInv => OwnAnswer
  BY DEF ClientInv, ResponseInv, OwnAnswer
<1> QED BY <1>1, ClientInvariant, PTL

-----------------------------------------------------------------------------
(* The client and the queue it uses; this needs nothing about Kinds. *)

(* Nothing is dropped from a queue that was not stopped: a worker that is  *)
(* over was stopped, or was never created and is not polled.               *)
DropInv ==
  pc["worker"] = "over" =>
    stopped \/ (~worker_open /\ pc["scrambler"] \notin {"state", "end", "check"})

(* A handler may queue a job, and does no more. *)
LEMMA HandlerQueue ==
  ASSUME TypeInv, HandlerStep
  PROVE  /\ [Queue!Next]_<<waiting, running, stopped>>
         /\ pc'["ui"] \in {"text", "notify", "return"}
         /\ pc'["scrambler"] = pc["scrambler"] /\ pc'["worker"] = pc["worker"]
         /\ UNCHANGED <<stopped, worker_open>>
<1>1. pc["ui"] \in {"exec", "text", "notify"}
  BY DEF HandlerStep, Locate, Exec, Text, Notify, Goto
<1>2. action.id \in Id
  BY <1>1, ActionId DEF TypeInv, TypeOK, DataOK, SenderInv, ArrivedInv
<1>3. MayQueueJob \/ UNCHANGED <<queue, signal>>
  BY DEF HandlerStep, Locate, Exec, Perform, Text, Notify, queue, signal
<1>4. /\ [Queue!Next]_<<waiting, running, stopped>>
      /\ UNCHANGED <<stopped, worker_open>>
  <2>1. CASE UNCHANGED <<queue, signal>>
    BY <2>1 DEF queue, signal
  <2>2. CASE Queue!Submit(action.id) /\ UNCHANGED worker_open
    BY <1>2, <2>2 DEF Queue!Next, Queue!Submit
  <2> QED BY <1>3, <2>1, <2>2 DEF MayQueueJob
<1>5. /\ pc'["ui"] \in {"text", "notify", "return"}
      /\ pc'["scrambler"] = pc["scrambler"] /\ pc'["worker"] = pc["worker"]
  BY DEF HandlerStep, Locate, Exec, Text, Notify, Goto, TypeInv, TypeOK, PcOK, Thread
<1> QED BY <1>4, <1>5

(* data_scramble_work stops the queue and drops what is left of it. *)
LEMMA ScramblerQueue ==
  ASSUME TypeInv, DropInv, ScramblerStep
  PROVE  [Queue!Next]_<<waiting, running, stopped>> /\ DropInv'
<1>1. pc'["ui"] = pc["ui"] /\ pc'["worker"] = pc["worker"]
  BY ScramblerFrame
<1>2. CASE EndWorker
  <2>1. stopped' /\ Queue!Stop
    BY <1>2 DEF EndWorker, StopWorker, Queue!Stop
  <2> QED BY <2>1 DEF DropInv, Queue!Next
<1>3. CASE CheckExit /\ pc["worker"] = "over"
  <2>1. pc["scrambler"] = "check" /\ waiting' = <<>> /\ UNCHANGED <<running, stopped>>
    BY <1>3 DEF CheckExit, Goto
  <2>2. stopped
    BY <1>3, <2>1 DEF DropInv
  <2>3. Queue!Drop \/ UNCHANGED <<waiting, running, stopped>>
    BY <2>1, <2>2 DEF Queue!Drop
  <2>4. stopped'
    BY <2>1, <2>2
  <2> QED BY <2>3, <2>4 DEF DropInv, Queue!Next
<1>4. CASE ~EndWorker /\ ~(CheckExit /\ pc["worker"] = "over")
  <2>1. UNCHANGED <<waiting, running, stopped, worker_open>>
    BY <1>4 DEF ScramblerStep, Fetch, Clear, SendFails, WaitNotified, WaitTimeout, Poll,
       PollState, CheckExit, Except, Respond, ExitProcess, Step, queue, signal
  <2>2. ~worker_open /\ pc["scrambler"] \notin {"state", "end", "check"} =>
          pc'["scrambler"] \notin {"state", "end", "check"}
    BY ScramblerMoves
  <2> QED BY <1>1, <2>1, <2>2 DEF DropInv
<1> QED BY <1>2, <1>3, <1>4

(* The worker begins, drops and finishes jobs. *)
LEMMA WorkerQueue ==
  ASSUME TypeInv, RunningInv, DropInv, WorkerStep
  PROVE  [Queue!Next]_<<waiting, running, stopped>> /\ DropInv'
<1>1. /\ pc'["ui"] = pc["ui"] /\ pc'["scrambler"] = pc["scrambler"]
      /\ UNCHANGED worker_open
  BY WorkerFrame
<1>2. (stopped => stopped') /\ (pc'["worker"] = "over" => pc["worker"] = "over" \/ stopped)
  BY WorkerMoves DEF Begin
<1>3. [Queue!Next]_<<waiting, running, stopped>>
  <2>1. CASE Begin
    BY <2>1 DEF Begin, Queue!Next
  <2>2. CASE Finish
    BY <2>2 DEF Finish, Queue!Next
  <2>3. CASE Discard
    BY <2>3 DEF Discard, Queue!Next, Queue!Drop
  <2>4. CASE Orphaned
    BY <2>4 DEF Orphaned, StopWorker, Queue!Next, queue
  <2>5. CASE Wake \/ Rest \/ Loaded \/ SendFails("worker", "sent")
    BY <2>5 DEF Wake, Rest, Loaded, SendFails, Step, queue
  <2> QED BY <2>1, <2>2, <2>3, <2>4, <2>5 DEF WorkerStep
<1> QED BY <1>1, <1>2, <1>3 DEF DropInv

(* Outside its handlers the window leaves the queue alone. *)
LEMMA WindowQueue ==
  ASSUME TypeInv, RunningInv, DropInv, WindowStep
  PROVE  [Queue!Next]_<<waiting, running, stopped>> /\ DropInv'
<1>1. CASE Handle("scrambler") \/ Handle("worker")
  BY <1>1, HandleFrame DEF DropInv
<1>2. CASE Return
  BY <1>2, ReturnFrame DEF DropInv
<1>3. CASE Close
  BY <1>3, ClosingFrame DEF DropInv
<1>4. CASE Timer \/ ExitProcess("ui", "closed")
  BY <1>4, QuietFrame, Quiet DEF DropInv
<1> QED BY <1>1, <1>2, <1>3, <1>4 DEF WindowStep

(* RunningInv again, now for actions of any kind. *)
LEMMA RunningAlways ==
  ASSUME TypeInv, RunningInv, [Next]_clientVars PROVE RunningInv'
<1> USE DEF RunningInv
<1>1. CASE HandlerStep
  <2>1. UNCHANGED running
    BY <1>1 DEF HandlerStep, Locate, Exec, Perform, Text, Notify, MayQueueJob, Queue!Submit,
       queue
  <2> QED BY <1>1, <2>1, HandlerQueue
<1>2. CASE ~HandlerStep
  BY <1>2, RunningStep
<1> QED BY <1>1, <1>2

(* Every step is one of the queue's. *)
LEMMA QueueStep ==
  ASSUME TypeInv, RunningInv, DropInv, [Next]_clientVars
  PROVE  [Queue!Next]_<<waiting, running, stopped>> /\ DropInv'
<1>1. CASE HandlerStep
  BY <1>1, HandlerQueue DEF DropInv
<1>2. CASE UNCHANGED clientVars
  BY <1>2, QuietFrame, Quiet DEF DropInv
<1> QED BY <1>1, <1>2, ScramblerQueue, WorkerQueue, WindowQueue, StepCases DEF WindowStep

(* The client queues, begins, finishes, stops and drops jobs as JobQueue   *)
(* allows, and does nothing else to the queue.                             *)
THEOREM UsesTheQueue == Spec => UsesQueue
<1> DEFINE QInv == TypeInv /\ RunningInv /\ DropInv
<1>1. Init => QInv /\ Queue!Init
  BY InitType DEF Init, Queue!Init, Thread, RunningInv, DropInv
<1>2. QInv /\ [Next]_clientVars => QInv'
  BY TypeStep, RunningAlways, QueueStep
<1>3. QInv /\ [Next]_clientVars => [Queue!Next]_<<waiting, running, stopped>>
  BY QueueStep
<1> QED BY <1>1, <1>2, <1>3, PTL DEF Spec, UsesQueue, Queue!Spec, Queue!queueVars
=============================================================================
