------------------------ MODULE BrowserClientProofs ------------------------
(***************************************************************************)
(* Type correctness of BrowserClient for any number of actions of any      *)
(* kinds.  TypeOK is not inductive by itself: a job is named by the action *)
(* that queued it, so it has to be known that a handler runs only after an *)
(* action has arrived, and that it runs for a thread that waits for it.    *)
(***************************************************************************)
EXTENDS BrowserClient, SequenceTheorems, TLAPS

Label(t) == IF t = "scrambler" THEN ScramblerLabel
            ELSE IF t = "ui" THEN UILabel ELSE WorkerLabel

(* Moving one thread to one of its labels. *)
LEMMA GotoType ==
  ASSUME PcOK, NEW t \in Thread, NEW from, NEW to \in Label(t), Goto(t, from, to)
  PROVE  PcOK'
BY DEF PcOK, Goto, Label, Thread

(* The message being handled is that of a thread that waits in SendMessage. *)
SenderInv ==
  /\ sender = Nobody <=> pc["ui"] \notin {"exec", "text", "notify", "return"}
  /\ sender # Nobody => pc[sender] = "send"

(* Before the first action arrives nothing is handled, queued or run. *)
ArrivedInv ==
  action = NoAction =>
    /\ pc["scrambler"] \in {"idle", "ended"} /\ sender = Nobody
    /\ waiting = <<>> /\ pc["worker"] \in {"waits", "serves", "over"}

TypeInv == TypeOK /\ SenderInv /\ ArrivedInv

(* The labels of the three threads. *)
LEMMA ScramblerPc == ASSUME PcOK, ScramblerStep PROVE PcOK'
<1>1. CASE ExitProcess("scrambler", "idle") \/ ExitProcess("scrambler", "respond")
  BY <1>1 DEF ExitProcess, PcOK
<1>2. CASE \/ Fetch \/ Clear \/ SendFails("scrambler", "wait") \/ WaitNotified
           \/ WaitTimeout \/ Poll \/ PollState \/ EndWorker \/ CheckExit \/ Except \/ Respond
           \/ Step("scrambler", "idle", "ended")
  <2>1. "scrambler" \in Thread BY DEF Thread
  <2>2. PICK from, to \in Label("scrambler") : Goto("scrambler", from, to)
    BY <1>2 DEF Fetch, Clear, SendFails, WaitNotified, WaitTimeout, Poll, PollState,
       EndWorker, CheckExit, Except, Respond, Step, Label, ScramblerLabel
  <2> QED BY <2>1, <2>2, GotoType
<1> QED BY <1>1, <1>2 DEF ScramblerStep

(* ... of the window's thread. *)
LEMMA UIPc == ASSUME PcOK, DataOK, SenderInv, UIStep PROVE PcOK'
<1>1. CASE Return
  BY <1>1 DEF Return, PcOK, DataOK, SenderInv, Nobody, Thread, ScramblerLabel, UILabel,
     WorkerLabel
<1>3. CASE Timer \/ ExitProcess("ui", "closed")
  BY <1>3 DEF Timer, ExitProcess, PcOK
<1>4. CASE \/ Handle("scrambler") \/ Handle("worker") \/ Locate \/ Exec \/ Text
           \/ Notify \/ Close
  <2>1. "ui" \in Thread BY DEF Thread
  <2>2. PICK from, to \in Label("ui") : Goto("ui", from, to)
    BY <1>4 DEF Handle, Locate, Exec, Text, Notify, Close, Step, Label, UILabel
  <2> QED BY <2>1, <2>2, GotoType
<1> QED BY <1>1, <1>3, <1>4 DEF UIStep

(* ... of the job worker. *)
LEMMA WorkerPc == ASSUME PcOK, WorkerStep PROVE PcOK'
<1>1. "worker" \in Thread BY DEF Thread
<1>2. PICK from, to \in Label("worker") : Goto("worker", from, to)
  BY DEF WorkerStep, Wake, Rest, Begin, Discard, Loaded, SendFails, Orphaned, Finish, Step,
     Label, WorkerLabel
<1> QED BY <1>1, <1>2, GotoType

(* What appending to a sequence and taking its head and tail give. *)
LEMMA AppendType ==
  ASSUME NEW S, NEW s \in Seq(S), NEW x \in S PROVE Append(s, x) \in Seq(S)
OBVIOUS

(* The head and the tail of a sequence. *)
LEMMA HeadTail ==
  ASSUME NEW S, NEW s \in Seq(S), s # <<>>
  PROVE  Head(s) \in S /\ Tail(s) \in Seq(S)
OBVIOUS

(* Only the record that stands for "no action yet" has no id. *)
LEMMA ActionId ==
  ASSUME action \in Action \union {NoAction}
  PROVE  /\ action.id \in Id \union {NoId}
         /\ action # NoAction => action.id \in Id /\ action \in Action
BY DEF Action, NoAction

(* The data of the three threads. *)
LEMMA ScramblerData == ASSUME DataOK, ScramblerStep PROVE DataOK'
<1> USE DEF DataOK, Goto, Step, work, call, queue, signal, seen
<1>1. CASE Fetch
  <2>1. action' \in Action
    <3>1. action.id \in 0 .. MaxActions
      BY BrowserClientAssumption, ActionId DEF Id, NoId
    <3>2. action.id + 1 \in Id
      BY <1>1, <3>1, BrowserClientAssumption DEF Fetch, Id
    <3> QED BY <1>1, <3>2, BrowserClientAssumption DEF Fetch, Action
  <2> QED BY <1>1, <2>1 DEF Fetch
<1>2. CASE EndWorker
  BY <1>2 DEF EndWorker, StopWorker, Queue!Stop
<1>3. CASE CheckExit
  <2>1. waiting' \in Seq(Id) /\ worker_open' \in BOOLEAN
    BY <1>3, EmptySeq DEF CheckExit
  <2> QED BY <1>3, <2>1 DEF CheckExit
<1>4. CASE Except
  BY <1>4 DEF Except
<1>5. CASE Clear
  BY <1>5, EmptySeq DEF Clear
<1>8. CASE WaitNotified
  BY <1>8 DEF WaitNotified
<1>6. CASE \/ SendFails("scrambler", "wait") \/ WaitTimeout \/ Poll \/ PollState \/ Respond
           \/ Step("scrambler", "idle", "ended")
  BY <1>6 DEF SendFails, WaitTimeout, Poll, PollState, Respond
<1>7. CASE ExitProcess("scrambler", "idle") \/ ExitProcess("scrambler", "respond")
  BY <1>7 DEF ExitProcess
<1> QED BY <1>1, <1>2, <1>3, <1>4, <1>5, <1>6, <1>7, <1>8 DEF ScramblerStep

(* Queueing a job, or failing to. *)
LEMMA QueueType ==
  ASSUME DataOK, action.id \in Id, MayQueueJob
  PROVE  /\ waiting' \in Seq(Id) /\ running' \in Id \union {NoId} /\ stopped' \in BOOLEAN
         /\ work_notify' \in BOOLEAN /\ worker_open' \in BOOLEAN
<1>1. CASE UNCHANGED <<queue, signal>>
  BY <1>1 DEF DataOK, queue, signal
<1>2. CASE Queue!Submit(action.id) /\ work_notify' = TRUE /\ UNCHANGED worker_open
  BY <1>2, AppendType DEF DataOK, Queue!Submit
<1> QED BY <1>1, <1>2 DEF MayQueueJob

(* What the window's thread stores keeps its type. *)
LEMMA UIData == ASSUME TypeInv, UIStep PROVE DataOK'
<1> USE DEF DataOK, Goto, Step, work, call, queue, signal, seen
<1>0. DataOK BY DEF TypeInv, TypeOK
<1>1. pc["ui"] \in {"exec", "text", "notify"} => action \in Action /\ action.id \in Id
  BY ActionId, <1>0 DEF TypeInv, SenderInv, ArrivedInv, Nobody
<1>2. CASE Locate
  BY <1>0, <1>1, <1>2, QueueType DEF Locate
<1>3. CASE Exec
  <2>1. action \in Action /\ action.id \in Id
    BY <1>1, <1>3 DEF Exec
  <2>2. action' \in Action
    BY <1>3, <2>1 DEF Exec, Perform, Action
  <2>3. /\ waiting' \in Seq(Id) /\ running' \in Id \union {NoId} /\ stopped' \in BOOLEAN
        /\ work_notify' \in BOOLEAN /\ worker_open' \in BOOLEAN
        /\ action_end' \in BOOLEAN /\ performed' \in Id \union {NoId}
    BY <1>0, <1>3, <2>1, QueueType DEF Exec, Perform
  <2>4. response' \in Seq(Id \union {NoId})
    BY <1>0, <1>3, <2>1 DEF Exec, Answer
  <2>5. complete_notifier' \in BOOLEAN /\ completed' \in Id \union {NoId}
    BY <1>0, <1>3, <2>1 DEF Exec
  <2>6. UNCHANGED <<sender, excepted, exited>>
    BY <1>3 DEF Exec
  <2> HIDE DEF DataOK
  <2> QED BY <1>0, <2>2, <2>3, <2>4, <2>5, <2>6 DEF DataOK
<1>4. CASE Text
  <2>1. action.id \in Id
    BY <1>1, <1>4 DEF Text
  <2>2. <<action.id>> \in Seq(Id \union {NoId})
    BY <2>1
  <2>4. response \in Seq(Id \union {NoId}) /\ action.id \in Id \union {NoId}
    BY <1>0, <2>1
  <2>3. response # <<>> => [response EXCEPT ![1] = action.id] \in Seq(Id \union {NoId})
    <3> HIDE DEF DataOK
    <3> QED BY <2>4, ExceptSeq
  <2>5. \/ response' = response \/ response' = <<action.id>>
        \/ response # <<>> /\ response' = [response EXCEPT ![1] = action.id]
    BY <1>4 DEF Text
  <2>6. response' \in Seq(Id \union {NoId})
    BY <2>2, <2>3, <2>4, <2>5
  <2> QED BY <1>0, <1>4, <2>6 DEF Text
<1>5. CASE Notify
  BY <1>0, <1>1, <1>5 DEF Notify
<1>6. CASE Handle("scrambler") \/ Handle("worker") \/ Return
  BY <1>0, <1>6 DEF Handle, Return
<1>7. CASE Timer \/ ExitProcess("ui", "closed")
  BY <1>0, <1>7 DEF Timer, ExitProcess
<1>8. CASE Close
  BY <1>0, <1>8 DEF Close
<1> QED BY <1>2, <1>3, <1>4, <1>5, <1>6, <1>7, <1>8 DEF UIStep

(* What the job worker stores keeps its type. *)
LEMMA WorkerData == ASSUME DataOK, WorkerStep PROVE DataOK'
<1> USE DEF DataOK, Goto, Step, work, call, queue, signal, seen
<1>1. CASE Begin
  <2>1. running' \in Id /\ waiting' \in Seq(Id)
    BY <1>1, HeadTail DEF Begin, Queue!Begin
  <2> QED BY <1>1, <2>1 DEF Begin, Queue!Begin
<1>2. CASE Discard
  <2>1. waiting' \in Seq(Id)
    BY <1>2, HeadTail DEF Discard
  <2> QED BY <1>2, <2>1 DEF Discard
<1>3. CASE Wake
  BY <1>3 DEF Wake
<1>6. CASE Rest \/ Loaded \/ SendFails("worker", "sent")
  BY <1>6 DEF Rest, Loaded, SendFails
<1>4. CASE Orphaned
  BY <1>4 DEF Orphaned, StopWorker, Queue!Stop
<1>5. CASE Finish
  BY <1>5 DEF Finish, Queue!Finish
<1> QED BY <1>1, <1>2, <1>3, <1>4, <1>5, <1>6 DEF WorkerStep

(* The threads a step may belong to. *)
LEMMA NextCases ==
  ASSUME [Next]_clientVars
  PROVE  ScramblerStep \/ UIStep \/ WorkerStep \/ UNCHANGED clientVars
BY DEF Next, Gone

(* The parts of the inductive invariant are kept by every step. *)
LEMMA SenderStep == ASSUME TypeInv, [Next]_clientVars PROVE SenderInv'
<1> USE DEF SenderInv, TypeInv, TypeOK, PcOK, Thread, Nobody
<1>1. CASE ScramblerStep
  <2>1. CASE SendFails("scrambler", "wait")
    BY <1>1, <2>1 DEF SendFails, Step, Goto, call
  <2>2. CASE \/ Fetch \/ Clear \/ WaitNotified \/ WaitTimeout \/ Poll
             \/ PollState \/ EndWorker \/ CheckExit \/ Except \/ Respond
             \/ Step("scrambler", "idle", "ended")
    <3>1. /\ pc["scrambler"] # "send" /\ UNCHANGED sender
          /\ \E to \in ScramblerLabel : pc' = [pc EXCEPT !["scrambler"] = to]
      BY <2>2 DEF Fetch, Clear, WaitNotified, WaitTimeout, Poll, PollState, EndWorker,
         CheckExit, Except, Respond, Step, Goto, call, ScramblerLabel
    <3> QED BY <3>1
  <2>3. CASE ExitProcess("scrambler", "idle") \/ ExitProcess("scrambler", "respond")
    BY <2>3 DEF ExitProcess, call
  <2> QED BY <1>1, <2>1, <2>2, <2>3 DEF ScramblerStep
<1>2. CASE UIStep
  <2>1. CASE Handle("scrambler") \/ Handle("worker")
    BY <2>1 DEF Handle, Goto
  <2>2. CASE Locate \/ Exec \/ Text \/ Notify
    <3>1. /\ pc["ui"] \in {"exec", "text", "notify"} /\ UNCHANGED sender
          /\ \E to \in {"text", "notify", "return"} : pc' = [pc EXCEPT !["ui"] = to]
      BY <2>2 DEF Locate, Exec, Text, Notify, Goto, call
    <3>2. pc'["ui"] \in {"text", "notify", "return"}
          /\ pc'["scrambler"] = pc["scrambler"] /\ pc'["worker"] = pc["worker"]
      BY <3>1
    <3>3. sender \in {"scrambler", "worker", Nobody}
      BY DEF DataOK
    <3> QED BY <3>1, <3>2, <3>3
  <2>3. CASE Return
    BY <2>3 DEF Return
  <2>4. CASE Timer \/ ExitProcess("ui", "closed")
    BY <2>4 DEF Timer, ExitProcess, call
  <2>5. CASE Close
    BY <2>5 DEF Close, Step, Goto, call
  <2> QED BY <1>2, <2>1, <2>2, <2>3, <2>4, <2>5 DEF UIStep
<1>3. CASE WorkerStep
  <2>1. /\ pc["worker"] = "send" => pc["ui"] = "closed"
        /\ UNCHANGED sender
        /\ \E to \in WorkerLabel : pc' = [pc EXCEPT !["worker"] = to]
    BY <1>3 DEF WorkerStep, Wake, Rest, Begin, Discard, Loaded, SendFails, Orphaned, Finish,
       Step, Goto, call, WorkerLabel
  <2> QED BY <2>1
<1>4. CASE UNCHANGED clientVars
  BY <1>4 DEF clientVars, call
<1> QED BY <1>1, <1>2, <1>3, <1>4, NextCases

(* Nothing is queued or run before the first action. *)
LEMMA ArrivedStep == ASSUME TypeInv, [Next]_clientVars PROVE ArrivedInv'
<1> USE DEF ArrivedInv, SenderInv, TypeInv, TypeOK, PcOK, Thread, Nobody, Goto, Step, work,
    call, queue
<1>1. CASE Fetch
  <2>1. action'.id # NoId
    BY <1>1, ActionId, BrowserClientAssumption DEF Fetch, DataOK, Id, NoId
  <2> QED BY <2>1 DEF NoAction
<1>2. CASE ScramblerStep /\ ~Fetch
  BY <1>2 DEF ScramblerStep, Clear, SendFails, WaitNotified, WaitTimeout, Poll, PollState,
     EndWorker, CheckExit, Except, Respond, ExitProcess, StopWorker, Queue!Stop
<1>3. CASE UIStep
  <2>1. action = NoAction => sender = Nobody /\ pc["ui"] \notin {"exec", "text", "notify", "return"}
    OBVIOUS
  <2>2. CASE Exec
    <3>1. action # NoAction /\ action \in Action
      BY <2>1, <2>2, ActionId DEF Exec, DataOK
    <3>2. action'.id = action.id /\ action.id # NoId
      BY <2>2, <3>1 DEF Exec, Perform, Action, Id, NoId
    <3> QED BY <3>2 DEF NoAction
  <2>3. CASE UIStep /\ ~Exec
    BY <2>1, <2>3 DEF UIStep, Handle, Locate, Text, Notify, Return, Timer, Close,
       ExitProcess
  <2> QED BY <1>3, <2>2, <2>3
<1>4. CASE WorkerStep
  BY <1>4 DEF WorkerStep, Wake, Rest, Begin, Discard, Loaded, SendFails, Orphaned, Finish,
     Queue!Begin, Queue!Finish, StopWorker, Queue!Stop
<1>5. CASE UNCHANGED clientVars
  BY <1>5 DEF clientVars
<1> QED BY <1>1, <1>2, <1>3, <1>4, <1>5, NextCases

(* The invariant holds at the start and is inductive. *)
LEMMA InitType == Init => TypeInv
<1> SUFFICES ASSUME Init PROVE TypeInv
  OBVIOUS
<1>1. PcOK
  BY DEF Init, PcOK, Thread, ScramblerLabel, UILabel, WorkerLabel
<1>2. DataOK
  BY EmptySeq DEF Init, DataOK, NoAction, Queue!Init
<1>3. SenderInv
  BY DEF Init, SenderInv, Thread
<1>4. ArrivedInv
  BY DEF Init, ArrivedInv, Thread, Queue!Init
<1> QED BY <1>1, <1>2, <1>3, <1>4 DEF TypeInv, TypeOK

(* The invariant is inductive. *)
LEMMA TypeStep == TypeInv /\ [Next]_clientVars => TypeInv'
<1> SUFFICES ASSUME TypeInv, [Next]_clientVars PROVE TypeInv'
  OBVIOUS
<1>1. PcOK'
  <2>1. CASE UNCHANGED clientVars
    BY <2>1 DEF clientVars, TypeInv, TypeOK, PcOK
  <2> QED BY <2>1, NextCases, ScramblerPc, UIPc, WorkerPc DEF TypeInv, TypeOK
<1>2. DataOK'
  <2>1. CASE UNCHANGED clientVars
    BY <2>1 DEF clientVars, work, call, queue, signal, seen, TypeInv, TypeOK, DataOK
  <2> QED BY <2>1, NextCases, ScramblerData, UIData, WorkerData DEF TypeInv, TypeOK
<1> QED BY <1>1, <1>2, SenderStep, ArrivedStep DEF TypeInv, TypeOK

(* It holds in every state. *)
LEMMA TypeInvariant == Spec => []TypeInv
BY InitType, TypeStep, PTL DEF Spec

(* Every variable keeps its type; in particular no job is queued, and no   *)
(* text written, for an action that has not arrived.                       *)
THEOREM ClientTyping == Spec => []TypeOK
<1>1. TypeInv => TypeOK BY DEF TypeInv
<1> QED BY <1>1, TypeInvariant, PTL
-----------------------------------------------------------------------------
(* The poll *)

(* data_scramble_work waits without the event being set only for the       *)
(* action that loads a page, the first one, or after the window has gone:  *)
(* any other action is carried out, and the event set, before SendMessage  *)
(* returns, as no click or step back goes on.  So the poll that closes the *)
(* worker's handle is followed by none that finds it closed.               *)
Waiting == action.locates \/ pc["ui"] = "closed"

PollInv ==
  /\ ~action.todo /\ action_end
  /\ action.id = NoId => worker_open
  /\ pc["ui"] = "return" /\ sender = "scrambler" => action.locates \/ complete_notifier
  /\ pc["scrambler"] = "wait" => Waiting \/ complete_notifier
  /\ pc["scrambler"] \in {"poll", "state", "end", "check"} => Waiting
  /\ ~worker_open =>
       \/ ~action.locates \/ pc["ui"] = "closed"
       \/ pc["scrambler"] \in {"except", "respond", "idle", "ended"}

(* The steps of data_scramble_work keep it. *)
LEMMA PollScrambler ==
  ASSUME InputSent = {FALSE}, TypeInv, PollInv, ScramblerStep
  PROVE  PollInv'
<1> USE DEF PollInv, Waiting, TypeInv, TypeOK, PcOK, Thread, Goto, Step
<1>1. UNCHANGED <<pc["ui"], action_end, sender>>
  BY DEF ScramblerStep, Fetch, Clear, SendFails, WaitNotified, WaitTimeout, Poll, PollState,
     EndWorker, CheckExit, Except, Respond, ExitProcess, call
<1>2. CASE Fetch
  <2>1. /\ action'.todo = FALSE
        /\ action'.locates = (action.id = NoId)
        /\ action'.id = action.id + 1 /\ action.id \in Nat
        /\ pc'["scrambler"] = "clear"
        /\ UNCHANGED <<complete_notifier, worker_open>>
    BY <1>2, InputSent = {FALSE}, ActionId, BrowserClientAssumption
    DEF Fetch, signal, DataOK, Id, NoId
  <2>2. sender # "scrambler"
    BY <1>2 DEF Fetch, SenderInv, Nobody
  <2>3. action'.id # NoId
    BY <2>1 DEF NoId
  <2>4. ~worker_open' => ~action'.locates
    BY <2>1
  <2> QED BY <1>1, <2>1, <2>2, <2>3, <2>4
<1>3. CASE SendFails("scrambler", "wait")
  BY <1>1, <1>3 DEF SendFails, work, signal
<1>4. CASE WaitNotified
  <2>1. sender # "scrambler"
    BY <1>4 DEF WaitNotified, SenderInv, Nobody
  <2> QED BY <1>1, <1>4, <2>1 DEF WaitNotified, signal
<1>5. CASE CheckExit
  <2>1. action # NoAction
    BY <1>5 DEF CheckExit, ArrivedInv
  <2>2. action.id # NoId
    BY <2>1, ActionId DEF DataOK, Id, NoId
  <2>3. UNCHANGED <<action, complete_notifier>>
    BY <1>5 DEF CheckExit, work
  <2>4. CASE pc'["scrambler"] = "wait" /\ UNCHANGED worker_open
    BY <1>1, <1>5, <2>3, <2>4 DEF CheckExit
  <2>5. CASE pc'["scrambler"] = "except"
    BY <1>1, <1>5, <2>2, <2>3, <2>5 DEF CheckExit
  <2> QED BY <1>5, <2>4, <2>5 DEF CheckExit, signal
<1>6. CASE \/ Clear \/ WaitTimeout \/ Poll \/ PollState \/ EndWorker \/ Except
           \/ Respond \/ Step("scrambler", "idle", "ended")
  BY <1>1, <1>6
  DEF Clear, WaitTimeout, Poll, PollState, EndWorker, StopWorker, Except, Respond, work, signal
<1>7. CASE ExitProcess("scrambler", "idle") \/ ExitProcess("scrambler", "respond")
  BY <1>1, <1>7 DEF ExitProcess, work, signal
<1> QED BY <1>2, <1>3, <1>4, <1>5, <1>6, <1>7 DEF ScramblerStep

(* The steps of the other two threads keep it. *)
LEMMA PollOthers ==
  ASSUME TypeInv, PollInv, UIStep \/ WorkerStep
  PROVE  PollInv'
<1> USE DEF PollInv, Waiting, TypeInv, TypeOK, PcOK, Thread, Goto, Step
<1>1. CASE WorkerStep
  BY <1>1
  DEF WorkerStep, Wake, Rest, Begin, Discard, Loaded, SendFails, Orphaned, Finish, StopWorker,
      work, call, signal
<1>2. CASE Locate \/ Exec
  <2>1. /\ UNCHANGED <<pc["scrambler"], action, worker_open, action_end, sender>>
        /\ complete_notifier => complete_notifier'
        /\ pc["ui"] = "exec" /\ pc'["ui"] \in {"return", "text"}
        /\ pc'["ui"] = "return" => action.locates
    BY <1>2 DEF Locate, Exec, Performs, MayQueueJob, signal, work, call, DataOK
  <2> QED BY <2>1
<1>3. CASE Return
  <2>1. sender \in {"scrambler", "worker"} /\ pc[sender] = "send"
    BY <1>3 DEF Return, SenderInv, DataOK, Nobody
  <2>2. /\ pc'["ui"] = "loop"
        /\ pc'["scrambler"] = IF sender = "scrambler" THEN "wait" ELSE pc["scrambler"]
        /\ UNCHANGED <<action, complete_notifier, action_end, worker_open>>
    BY <1>3, <2>1 DEF Return, work, signal
  <2> QED BY <1>3, <2>1, <2>2 DEF Return
<1>4. CASE Handle("scrambler") \/ Handle("worker") \/ Text \/ Notify \/ Timer \/ Close
           \/ ExitProcess("ui", "closed")
  BY <1>4 DEF Handle, Text, Notify, Timer, Close, ExitProcess, work, call, signal, DataOK
<1> QED BY <1>1, <1>2, <1>3, <1>4, UIStep \/ WorkerStep DEF UIStep

(* PollFindsWorker for any number of actions: as long as the manager sends *)
(* a URL with the first action of a process only and no text with a click, *)
(* the ASSERT( FALSE ) for a closed worker handle is never met.            *)
THEOREM PollFinds ==
  ASSUME InputSent = {FALSE}, "no_worker" \notin Faults
  PROVE  Spec => []PollFindsWorker
<1>1. Init => PollInv
  BY "no_worker" \notin Faults DEF Init, PollInv, Waiting, NoAction, Thread
<1>2. TypeInv /\ PollInv /\ [Next]_clientVars => PollInv'
  <2> SUFFICES ASSUME TypeInv, PollInv, [Next]_clientVars PROVE PollInv'
    OBVIOUS
  <2>1. CASE UNCHANGED clientVars
    BY <2>1 DEF clientVars, work, call, signal, PollInv, Waiting
  <2> QED BY <2>1, InputSent = {FALSE}, NextCases, PollScrambler, PollOthers
<1>3. PollInv => PollFindsWorker
  BY DEF PollInv, Waiting, PollFindsWorker
<1> QED BY <1>1, <1>2, <1>3, TypeInvariant, PTL DEF Spec
=============================================================================
