--------------------------- MODULE BrowserClient ---------------------------
(***************************************************************************)
(* How a browser process carries out the actions its manager sends:        *)
(*                                                                         *)
(*   "scrambler"  data_scramble_work fetches an action over the pipe,      *)
(*                sends it to the window, waits for complete_notifier,     *)
(*                polls the job worker when nothing comes, and answers;    *)
(*   "ui"         on_html_action performs the action, and queues a job     *)
(*                when a page has to be loaded first;                      *)
(*   "worker"     web_page_work waits for the page and sends the action    *)
(*                to the window once more.                                 *)
(*                                                                         *)
(* The three threads share html_action_work without a lock.  The worker's  *)
(* list is the queue of JobQueue, which JobWorker is proved to implement;  *)
(* a job is named by the action that queued it.                            *)
(***************************************************************************)
EXTENDS Naturals, Sequences

CONSTANTS
  MaxActions,  (* bound: how many actions the manager sends                 *)
  Kinds,       (* the kinds of actions it sends                             *)
  InputSent,   (* may an action other than "input" come with an input text? *)
  Faults       (* "window_closed": the user closes the browser window;      *)
               (* "no_worker": the worker thread cannot be created          *)

ASSUME BrowserClientAssumption ==
  /\ MaxActions \in Nat
  /\ Kinds \subseteq {"read", "click", "back", "unknown"}
  /\ InputSent \subseteq BOOLEAN
  /\ Faults \subseteq {"window_closed", "no_worker"}

Id     == 1 .. MaxActions
NoId   == 0
Thread == {"scrambler", "ui", "worker"}
Nobody == "nobody"

VARIABLES
  pc,                 (* where each thread is                               *)
  action,             (* html_action_work.action and .locate_url            *)
  response,           (* html_action_work.response: the id of the action    *)
                      (* every text was written for, NoId in an exception   *)
  complete_notifier,  (* the auto-reset event: TRUE when signalled          *)
  action_end,         (* on_html_action's local action_end                  *)
  sender,             (* whose message on_html_action handles               *)
  waiting,            (* the queued jobs                                    *)
  running,            (* the job being run, or NoId                         *)
  stopped,            (* JOB_WORKER.stop_working                            *)
  work_notify,        (* the worker's auto-reset event                      *)
  worker_open,        (* JOB_WORKER.worker is not NULL                      *)
  completed,          (* the last action whose handler set the event        *)
  performed,          (* the last click or step back that was performed     *)
  excepted,           (* an exception has been reported to the manager      *)
  exited              (* ExitProcess was called                             *)

queue  == <<waiting, running, stopped>>
signal == <<work_notify, worker_open>>
work   == <<action, response, complete_notifier>>
call   == <<action_end, sender>>
seen   == <<completed, performed, excepted>>
clientVars == <<pc, work, call, queue, signal, seen, exited>>

Queue == INSTANCE JobQueue WITH Block <- Id, NoBlock <- NoId

(* html_element_action, as far as on_html_action tells actions apart:      *)
(* "read" is an output, a hilight, an input or a locate; locates says that *)
(* a page is to be loaded first; todo says that outputs holds a text that  *)
(* is not "done".                                                          *)
Param  == {"load_page", "text", "other"}
Action == [id : Id, kind : Kinds, locates : BOOLEAN, param : Param, todo : BOOLEAN]
NoAction ==
  [id |-> NoId, kind |-> "read", locates |-> FALSE, param |-> "other", todo |-> FALSE]

Goto(t, from, to) == pc[t] = from /\ pc' = [pc EXCEPT ![t] = to]

(* A step that changes only where t is. *)
Step(t, from, to) ==
  Goto(t, from, to) /\ UNCHANGED <<work, call, queue, signal, seen, exited>>

(* The worker's flag is raised and its event set. *)
StopWorker == Queue!Stop /\ work_notify' = TRUE /\ UNCHANGED worker_open

-----------------------------------------------------------------------------
(* data_scramble_work *)

(* Mutant: the manager sends the URL with every action. *)
Fetch_AlwaysLocates ==
  /\ Goto("scrambler", "idle", "clear")
  /\ action.id < MaxActions
  /\ \E k \in Kinds, p \in Param, i \in InputSent :
       action' = [id |-> action.id + 1, kind |-> k, locates |-> TRUE, param |-> p,
                  todo |-> i]
  /\ UNCHANGED <<response, complete_notifier, call, queue, signal, seen, exited>>

(* The manager's answer is parsed into the record the threads share.  A    *)
(* URL comes with the first action of the process and with no other        *)
(* (UrlWithFirst in ScriptRun); outputs holds the input text, or nothing.  *)
Fetch ==
  /\ Goto("scrambler", "idle", "clear")
  /\ action.id < MaxActions
  /\ \E k \in Kinds, p \in Param, i \in InputSent :
       action' = [id |-> action.id + 1, kind |-> k, locates |-> action.id = NoId,
                  param |-> p, todo |-> i]
  /\ UNCHANGED <<response, complete_notifier, call, queue, signal, seen, exited>>

(* Mutant: the texts of the action before are kept. *)
Clear_Nothing == Step("scrambler", "clear", "send")

Clear ==
  /\ Goto("scrambler", "clear", "send")
  /\ response' = <<>>
  /\ UNCHANGED <<action, complete_notifier, call, queue, signal, seen, exited>>

(* SendMessage fails at once when the window is gone. *)
SendFails(t, to) == pc["ui"] = "closed" /\ Step(t, "send", to)

(* Mutant: complete_notifier is a manual-reset event. *)
WaitNotified_Sticky == complete_notifier /\ Step("scrambler", "wait", "respond")

(* WaitForSingleObject( complete_notifier, 3000 ) *)
WaitNotified ==
  /\ Goto("scrambler", "wait", "respond")
  /\ complete_notifier
  /\ complete_notifier' = FALSE
  /\ UNCHANGED <<action, response, call, queue, signal, seen, exited>>

WaitTimeout == ~complete_notifier /\ Step("scrambler", "wait", "poll")

(* check_all_work_done: is a job queued?  Without a worker there is no     *)
(* need to ask.                                                            *)
Poll ==
  Step("scrambler", "poll", IF ~worker_open THEN "except"
                            ELSE IF waiting = <<>> THEN "state" ELSE "check")

(* Mutant: an empty list alone counts as "all work is done". *)
PollState_Ignored == Step("scrambler", "state", "end")

(* ... then: does the worker wait?  worker_job_end clears working_state,   *)
(* which the worker may set again before it sees the flag.                 *)
PollState ==
  \/ pc["worker"] = "waits" /\ Step("scrambler", "state", "end")
  \/ (pc["worker"] # "waits" \/ stopped) /\ Step("scrambler", "state", "check")

EndWorker ==
  /\ Goto("scrambler", "end", "except")
  /\ StopWorker
  /\ UNCHANGED <<work, call, seen, exited>>

(* Mutant: the end of the worker goes unnoticed. *)
CheckExit_Never == Step("scrambler", "check", "wait")

(* check_job_worker_exit: a worker that is over is cleaned up. *)
CheckExit ==
  \/ pc["worker"] # "over" /\ Step("scrambler", "check", "wait")
  \/ /\ pc["worker"] = "over"
     /\ Goto("scrambler", "check", "except")
     /\ waiting' = <<>> /\ worker_open' = FALSE
     /\ UNCHANGED <<running, stopped, work_notify, work, call, seen, exited>>

(* ERROR_EXCEPTION_IN_SCRIPT_HANDLER replaces whatever texts there are. *)
Except ==
  /\ Goto("scrambler", "except", "respond")
  /\ response' = <<NoId>>
  /\ excepted' = TRUE
  /\ UNCHANGED <<action, complete_notifier, call, queue, signal, completed,
                 performed, exited>>

(* The manager says CONTINUE, or the exchange fails, which is ignored. *)
Respond == Step("scrambler", "respond", "idle")

(* The process exits when no action can be fetched and when the manager    *)
(* says WORK_DONE; without memory the thread returns ERROR_SUCCESS.        *)
ExitProcess(t, label) ==
  /\ pc[t] = label
  /\ exited' = TRUE
  /\ UNCHANGED <<pc, work, call, queue, signal, seen>>

ScramblerStep ==
  \/ Fetch \/ Clear \/ SendFails("scrambler", "wait") \/ WaitNotified
  \/ WaitTimeout \/ Poll \/ PollState \/ EndWorker \/ CheckExit \/ Except
  \/ Respond \/ ExitProcess("scrambler", "idle") \/ ExitProcess("scrambler", "respond")
  \/ Step("scrambler", "idle", "ended")

-----------------------------------------------------------------------------
(* The window's thread: on_html_action *)

(* The window's procedure takes the message of a thread in SendMessage. *)
Handle(t) ==
  /\ pc[t] = "send"
  /\ Goto("ui", "loop", "exec")
  /\ sender' = t /\ action_end' = TRUE
  /\ UNCHANGED <<work, queue, signal, seen, exited>>

(* start_worker, in vain when malloc fails. *)
MayQueueJob ==
  \/ Queue!Submit(action.id) /\ work_notify' = TRUE /\ UNCHANGED worker_open
  \/ UNCHANGED <<queue, signal>>

Answer == response' = Append(response, action.id)

(* Mutant: the handler of the first message ends the action. *)
Locate_Ends ==
  /\ Goto("ui", "exec", "text")
  /\ sender = "scrambler" /\ action.locates
  /\ MayQueueJob
  /\ UNCHANGED <<work, call, seen, exited>>

(* The page of a new action is loaded first.  No job is queued either when *)
(* the window shows this page already, or cannot navigate.                 *)
Locate ==
  /\ Goto("ui", "exec", "return")
  /\ sender = "scrambler" /\ action.locates
  /\ MayQueueJob
  /\ UNCHANGED <<work, call, seen, exited>>

Performs == action.kind \in {"click", "back"} /\ action.todo

(* A click, and a step back, is performed and marked "done"; when it loads *)
(* a page the action goes on.                                              *)
Perform ==
  /\ performed' = action.id
  /\ action' = [action EXCEPT !.todo = FALSE]
  /\ IF action.kind = "back" \/ action.param = "load_page"
     THEN MayQueueJob /\ action_end' = FALSE
     ELSE UNCHANGED <<queue, signal, action_end>>

(* An output writes a text for every element it finds, or none; a click    *)
(* that goes on writes none; an unknown action sets the event right away.  *)
Exec ==
  /\ Goto("ui", "exec", "text")
  /\ ~(sender = "scrambler" /\ action.locates)
  /\ IF Performs THEN Perform
                 ELSE UNCHANGED <<action, performed, queue, signal, action_end>>
  /\ \/ Answer /\ (action.kind = "click" => action_end')
     \/ /\ action.kind = "read" \/ (action.kind = "click" /\ ~action_end')
        /\ UNCHANGED response
  /\ complete_notifier' = (complete_notifier \/ action.kind = "unknown")
  /\ completed' = IF action.kind = "unknown" THEN action.id ELSE completed
  /\ UNCHANGED <<sender, excepted, exited>>

(* For the worker's message the text of the page becomes the first text,   *)
(* if the document can be read.                                            *)
Text ==
  /\ Goto("ui", "text", "notify")
  /\ \/ UNCHANGED response
     \/ /\ sender = "worker" /\ action.param = "text"
        /\ response' = IF response = <<>> THEN <<action.id>>
                       ELSE [response EXCEPT ![1] = action.id]
  /\ UNCHANGED <<action, complete_notifier, call, queue, signal, seen, exited>>

Notify ==
  /\ Goto("ui", "notify", "return")
  /\ complete_notifier' = (complete_notifier \/ action_end)
  /\ completed' = IF action_end THEN action.id ELSE completed
  /\ UNCHANGED <<action, response, call, queue, signal, performed, excepted, exited>>

(* Mutant: whoever sent the message goes on to wait for the event. *)
Return_ToWait ==
  /\ pc["ui"] = "return"
  /\ pc' = [pc EXCEPT !["ui"] = "loop", ![sender] = "wait"]
  /\ sender' = Nobody
  /\ UNCHANGED <<work, action_end, queue, signal, seen, exited>>

(* SendMessage returns in the thread that sent the message. *)
Return ==
  /\ pc["ui"] = "return"
  /\ pc' = [pc EXCEPT !["ui"] = "loop",
                      ![sender] = IF sender = "scrambler" THEN "wait" ELSE "sent"]
  /\ sender' = Nobody
  /\ UNCHANGED <<work, action_end, queue, signal, seen, exited>>

(* evaluate_worker_state: once data_scramble_work has ended the process    *)
(* exits if the worker is over as well.  A worker that waits for a job     *)
(* never is: the process stays.                                            *)
Timer ==
  /\ pc["ui"] = "loop" /\ pc["scrambler"] = "ended"
  /\ exited' = (pc["worker"] = "over" \/ ~worker_open)
  /\ UNCHANGED <<pc, work, call, queue, signal, seen>>

(* OnCancel posts WM_QUIT: the window goes with its message loop, and the  *)
(* process exits under the other threads.                                  *)
Close == "window_closed" \in Faults /\ Step("ui", "loop", "closed")

UIStep ==
  \/ Handle("scrambler") \/ Handle("worker") \/ Locate \/ Exec \/ Text \/ Notify
  \/ Return \/ Timer \/ Close \/ ExitProcess("ui", "closed")

-----------------------------------------------------------------------------
(* worker_thread and web_page_work; the list's mutex makes steps of them *)

Wake ==
  /\ Goto("worker", "waits", IF stopped THEN "over" ELSE "serves")
  /\ work_notify /\ work_notify' = FALSE
  /\ UNCHANGED <<worker_open, queue, work, call, seen, exited>>

(* With the list empty the worker ends, if it is to, or waits again. *)
Rest ==
  /\ waiting = <<>>
  /\ Step("worker", "serves", IF stopped THEN "over" ELSE "waits")

(* Mutant: the flag is not tested between unlinking a job and running it. *)
Begin_AfterStop ==
  /\ Goto("worker", "serves", "run")
  /\ waiting # <<>>
  /\ running' = Head(waiting) /\ waiting' = Tail(waiting)
  /\ UNCHANGED <<stopped, signal, work, call, seen, exited>>

(* A job is unlinked and, the flag being down, run. *)
Begin ==
  /\ Goto("worker", "serves", "run")
  /\ Queue!Begin
  /\ UNCHANGED <<signal, work, call, seen, exited>>

(* A job that is unlinked after the flag was raised is not run. *)
Discard ==
  /\ Goto("worker", "serves", "over")
  /\ stopped /\ waiting # <<>>
  /\ waiting' = Tail(waiting)
  /\ UNCHANGED <<running, stopped, signal, work, call, seen, exited>>

(* The page is there, or its time is over. *)
Loaded == Step("worker", "run", "send")

(* A routine that finds data_scramble_work gone and no job left stops the  *)
(* worker.                                                                 *)
Orphaned ==
  /\ Goto("worker", "sent", "done")
  /\ IF pc["scrambler"] = "ended" /\ waiting = <<>>
     THEN StopWorker ELSE UNCHANGED <<queue, signal>>
  /\ UNCHANGED <<work, call, seen, exited>>

Finish ==
  /\ Goto("worker", "done", IF stopped THEN "over" ELSE "serves")
  /\ Queue!Finish
  /\ UNCHANGED <<signal, work, call, seen, exited>>

WorkerStep ==
  \/ Wake \/ Rest \/ Begin \/ Discard \/ Loaded \/ SendFails("worker", "sent")
  \/ Orphaned \/ Finish

-----------------------------------------------------------------------------
(* The manager's pipe appears within 30 seconds, or data_scramble_work     *)
(* ends; creating the worker thread succeeds, or not.                      *)
Init ==
  /\ \E start \in {"idle", "ended"}, created \in BOOLEAN :
       /\ pc = [t \in Thread |-> IF t = "scrambler" THEN start
                                ELSE IF t = "ui" THEN "loop"
                                ELSE IF created THEN "serves" ELSE "over"]
       /\ created \/ "no_worker" \in Faults
       /\ worker_open = created
  /\ action = NoAction /\ response = <<>> /\ complete_notifier = FALSE
  /\ action_end = TRUE /\ sender = Nobody
  /\ Queue!Init /\ work_notify = FALSE
  /\ completed = NoId /\ performed = NoId /\ excepted = FALSE
  /\ exited = FALSE

(* The process is gone. *)
Gone == exited /\ UNCHANGED clientVars

Next == (~exited /\ (ScramblerStep \/ UIStep \/ WorkerStep)) \/ Gone

(* Threads are scheduled, the window's thread dispatches what is sent to   *)
(* it, and waiting for a page is bounded.  Nothing makes the user close    *)
(* the window.                                                             *)
Live(A) == ~exited /\ A
Fairness ==
  /\ WF_clientVars(Live(ScramblerStep)) /\ WF_clientVars(Live(WorkerStep))
  /\ WF_clientVars(Live(Locate \/ Exec \/ Text \/ Notify \/ Return
                         \/ ExitProcess("ui", "closed")))
  /\ SF_clientVars(Live(Handle("scrambler"))) /\ SF_clientVars(Live(Handle("worker")))
  /\ SF_clientVars(Live(Timer))

Spec     == Init /\ [][Next]_clientVars
FairSpec == Spec /\ Fairness

-----------------------------------------------------------------------------
(* Properties *)

ScramblerLabel == {"idle", "clear", "send", "wait", "poll", "state", "end", "check",
                   "except", "respond", "ended"}
UILabel == {"loop", "exec", "text", "notify", "return", "closed"}
WorkerLabel == {"waits", "serves", "run", "send", "sent", "done", "over"}

PcOK ==
  /\ pc \in [Thread -> ScramblerLabel \union UILabel \union WorkerLabel]
  /\ pc["scrambler"] \in ScramblerLabel
  /\ pc["ui"] \in UILabel
  /\ pc["worker"] \in WorkerLabel

DataOK ==
  /\ action \in Action \union {NoAction}
  /\ response \in Seq(Id \union {NoId})
  /\ complete_notifier \in BOOLEAN /\ action_end \in BOOLEAN
  /\ sender \in {"scrambler", "worker", Nobody}
  /\ waiting \in Seq(Id) /\ running \in Id \union {NoId} /\ stopped \in BOOLEAN
  /\ work_notify \in BOOLEAN /\ worker_open \in BOOLEAN
  /\ completed \in Id \union {NoId} /\ performed \in Id \union {NoId}
  /\ excepted \in BOOLEAN /\ exited \in BOOLEAN

(* Every variable holds a value of its C type, and each thread is at a     *)
(* label of its own; no job is queued for an action that has not arrived.  *)
TypeOK == PcOK /\ DataOK

InHandler == pc["ui"] \in {"exec", "text", "notify"}

(* The window's thread never works on html_action_work while               *)
(* data_scramble_work changes it or reads the answer from it, although     *)
(* nothing but the event and the poll keeps them apart                     *)
(* (web_browser_window.cpp:773-784,855-861,889-916 against 1791-2097).     *)
HandledAlone ==
  InHandler => pc["scrambler"] \in {"send", "wait", "poll", "state", "check"}

(* A job's message is handled for the action that queued the job, never    *)
(* for a later one, whatever timed out in between                          *)
(* (web_browser_window.cpp:3278, 800-829).                                 *)
OwnJobs == InHandler /\ sender = "worker" => running = action.id

(* Until the first exception the manager gets an answer only for an action *)
(* that was carried out to its end (web_browser_window.cpp:800-804,2102).  *)
AnswerMeansHandled ==
  pc["scrambler"] = "respond" /\ ~excepted => completed = action.id

(* The texts sent under an action's id were written for it, or are the     *)
(* exception (web_browser_window.cpp:784,855-861,889-916).                 *)
OwnAnswer ==
  pc["scrambler"] = "respond" =>
    \A i \in DOMAIN response : response[i] \in {action.id, NoId}

(* The client uses the worker as the queue it is. *)
UsesQueue == Queue!Spec

(* Every action sent to the window is answered, the exception being an     *)
(* answer too, or the process exits (web_browser_window.cpp:798-830).      *)
ActionAnswered == pc["scrambler"] = "send" ~> (pc["scrambler"] = "idle" \/ exited)

(* An exception stands for a page that was not opened or for an action     *)
(* that failed on the way (comment in web_browser_window.cpp:819).         *)
ExceptionMeansFailed == pc["scrambler"] = "except" => completed # action.id

(* A poll finds the worker's handle, the ASSERT( FALSE ) next to it is     *)
(* never met: what this manager sends after the first action of a process  *)
(* is answered within SendMessage, so that the poll is the first action's  *)
(* (web_browser_window.cpp:802-828).                                       *)
PollFindsWorker == pc["scrambler"] = "poll" => worker_open \/ pc["ui"] = "closed"

(* An action is performed unless its output says "done", as the guard in   *)
(* the comment of web_browser_window.cpp:1987 has it.                      *)
AnswerMeansPerformed ==
  pc["scrambler"] = "respond" /\ ~excepted /\ action.kind \in {"click", "back"} =>
    performed = action.id
=============================================================================
