---------------------------- MODULE ScriptWorker ----------------------------
(***************************************************************************)
(* How the manager's window starts, stops and abandons its script thread:  *)
(*                                                                         *)
(*   "ui"      the Execute button (start, stop), the messages the script   *)
(*             thread sends to the window, and OnDestroy;                  *)
(*   "script"  exec_html_action_script_thread, whose work on one action is *)
(*             left to ScriptRun: here it is an exchange over the pipe.    *)
(*                                                                         *)
(* The two share SCRIPT_WORKER and the registry of browser processes.  The *)
(* registry has no lock; at most one of its records is in use at a time,   *)
(* and that one is modelled, its release statement by statement.           *)
(***************************************************************************)
EXTENDS Naturals

CONSTANT MaxStarts  (* bound: how often the Execute button starts a script  *)

ASSUME ScriptWorkerAssumption == MaxStarts \in Nat

Script   == 1 .. MaxStarts
NoScript == 0
Thread   == {"ui", "script"}

VARIABLES
  pc,              (* where each thread is                                  *)
  back,            (* where each thread goes after it released the record   *)
  stop_work,       (* SCRIPT_WORKER.stop_work                               *)
  running,         (* SCRIPT_WORKER.running                                 *)
  exit,            (* SCRIPT_WORKER.exit                                    *)
  action,          (* SCRIPT_WORKER.action: the script to be run next       *)
  root,            (* the thread's root: the script it runs                 *)
  work_notifier,   (* the auto-reset event: TRUE when signalled             *)
  state_notifier,  (* the manual-reset event                                *)
  script_running,  (* the dialog's flag: the button stops, not starts       *)
  starts,          (* how many scripts have been started                    *)
  pipe,            (* ipc_info.point.pipe is not NULL                       *)
  pipe_name,       (* ipc_info.point.pipe_name is not NULL                  *)
  pipe_inited,     (* ipc_info.pipe_inited                                  *)
  held,            (* what the record really owns: its pipe, its name       *)
  twice            (* something was closed or freed that was not owned      *)

flags  == <<stop_work, running, exit>>
events == <<work_notifier, state_notifier>>
job    == <<action, root, starts>>
record == <<pipe, pipe_name, pipe_inited, held, twice>>
scriptVars == <<pc, back, flags, events, job, script_running, record>>

Goto(t, from, to) == pc[t] = from /\ pc' = [pc EXCEPT ![t] = to]

(* A step that changes only where t is. *)
Step(t, from, to) ==
  /\ Goto(t, from, to)
  /\ UNCHANGED <<back, flags, events, job, script_running, record>>

(* The labels of the release of a record, and of the script thread's run.  *)
Releasing == {"test", "close", "null", "client", "uninit", "free", "name", "done"}
InRelease(t) == pc[t] \in Releasing
InRun ==
  \/ pc["script"] \in {"begin", "pick", "check", "hilight", "page", "accept", "exchange"}
  \/ InRelease("script") /\ back["script"] \in {"check", "disconnect"}
Over == pc["script"] \in {"ended", "killed"}

(* SendMessage returns when the window's thread has handled the message.   *)
Sending == pc["script"] \in {"hilight", "sendStopped"}

(* The timeouts of the window's thread are seconds long: they run out only *)
(* while the script thread is where it may stay that long.                 *)
Delayed ==
  Sending \/ pc["script"] \in {"accept", "exchange", "client"}

-----------------------------------------------------------------------------
(* close_server_named_pipe and _release_web_browser_process, by thread t.  *)

TestPipe(t) ==
  Step(t, "test", IF pipe THEN "close" ELSE "uninit")

ClosePipe(t) ==
  /\ Goto(t, "close", "null")
  /\ twice' = (twice \/ (pipe /\ "pipe" \notin held))
  /\ held' = IF pipe THEN held \ {"pipe"} ELSE held
  /\ UNCHANGED <<back, flags, events, job, script_running, pipe, pipe_name, pipe_inited>>

NullPipe(t) ==
  /\ Goto(t, "null", "client")
  /\ pipe' = FALSE
  /\ UNCHANGED <<back, flags, events, job, script_running, pipe_name, pipe_inited,
                 held, twice>>

(* Mutant: a process that does not end is waited for without a limit. *)
AwaitClient_Forever(t) == Step(t, "client", "client")

(* The browser process is given 5 seconds, then it is terminated. *)
AwaitClient(t) == Step(t, "client", "uninit")

TestInited(t) ==
  Step(t, "uninit", IF pipe_inited THEN "free" ELSE "done")

(* uninit_pipe_point frees the name (and closes the mutex) ... *)
FreeName(t) ==
  /\ Goto(t, "free", "name")
  /\ twice' = (twice \/ (pipe_name /\ "name" \notin held))
  /\ held' = IF pipe_name THEN held \ {"name"} ELSE held
  /\ UNCHANGED <<back, flags, events, job, script_running, pipe, pipe_name, pipe_inited>>

(* ... and clears the pointer. *)
NullName(t) ==
  /\ Goto(t, "name", "done")
  /\ pipe_name' = FALSE
  /\ UNCHANGED <<back, flags, events, job, script_running, pipe, pipe_inited, held, twice>>

ReleaseDone(t) ==
  /\ Goto(t, "done", back[t])
  /\ pipe_inited' = FALSE
  /\ UNCHANGED <<back, flags, events, job, script_running, pipe, pipe_name, held, twice>>

Release(t) ==
  \/ TestPipe(t) \/ ClosePipe(t) \/ NullPipe(t) \/ AwaitClient(t)
  \/ TestInited(t) \/ FreeName(t) \/ NullName(t) \/ ReleaseDone(t)

(* t goes on to release the record and then to "to". *)
StartRelease(t, from, to) ==
  /\ Goto(t, from, "test")
  /\ back' = [back EXCEPT ![t] = to]
  /\ UNCHANGED <<flags, events, job, script_running, record>>

-----------------------------------------------------------------------------
(* The window's thread.  Windows dispatches a sent message before an input *)
(* message, so a click waits for it.                                       *)

Click == pc["ui"] = "idle" /\ ~Sending

(* The button starts a script: start_html_script_work_ex copies it and     *)
(* inserts a record for the copy into the registry.                        *)
ClickStart ==
  Click /\ ~script_running /\ starts < MaxStarts /\ Step("ui", "idle", "insert")

Inserted == Step("ui", "insert", "startWait")

(* An instance without a URL is skipped; the button is pressed all the same. *)
SkipInstance ==
  /\ Click /\ ~script_running
  /\ script_running' = TRUE
  /\ UNCHANGED <<pc, back, flags, events, job, record>>

(* WaitForSingleObject( state_notifier, 10000 ); it is not reset. *)
StartWait ==
  \/ state_notifier /\ Step("ui", "startWait", "startTest")
  \/ ~state_notifier /\ Delayed /\ Step("ui", "startWait", "idle")

StartTest == Step("ui", "startTest", IF running THEN "idle" ELSE "startLock")

StartLock ==
  /\ Goto("ui", "startLock", "startSet")
  /\ starts' = starts + 1
  /\ action' = starts + 1
  /\ stop_work' = FALSE
  /\ UNCHANGED <<back, running, exit, events, root, script_running, record>>

(* Mutant: the event is not set. *)
StartSet_NoEvent ==
  /\ Goto("ui", "startSet", "idle")
  /\ script_running' = TRUE
  /\ UNCHANGED <<back, flags, events, job, record>>

StartSet ==
  /\ Goto("ui", "startSet", "idle")
  /\ work_notifier' = TRUE
  /\ script_running' = TRUE
  /\ UNCHANGED <<back, flags, state_notifier, job, record>>

(* The button stops the script. *)
ClickStop ==
  /\ Click /\ script_running /\ Goto("ui", "idle", "stopWait")
  /\ stop_work' = TRUE
  /\ UNCHANGED <<back, running, exit, events, job, script_running, record>>

(* Mutant: a stop that is not answered releases the browsers, as the code  *)
(* once did.                                                               *)
StopWait_Release ==
  \/ /\ state_notifier
     /\ Goto("ui", "stopWait", "idle") /\ script_running' = FALSE
     /\ UNCHANGED <<back, flags, events, job, record>>
  \/ /\ ~state_notifier /\ Delayed
     /\ StartRelease("ui", "stopWait", "idle")

(* Mutant: the wait is repeated until the script has ended. *)
StopWait_Again ==
  \/ /\ state_notifier
     /\ Goto("ui", "stopWait", "idle") /\ script_running' = FALSE
     /\ UNCHANGED <<back, flags, events, job, record>>
  \/ ~state_notifier /\ Delayed /\ Step("ui", "stopWait", "stopWait")

(* stop_html_script_work waits 3 seconds and 1 more; what it returns is    *)
(* ignored by stop_html_script_work_ex.                                    *)
StopWait ==
  /\ state_notifier \/ Delayed
  /\ Goto("ui", "stopWait", "idle")
  /\ script_running' = FALSE
  /\ UNCHANGED <<back, flags, events, job, record>>

(* A message of the script thread: the action to be shown, or the end.     *)
OnLocate ==
  /\ pc["ui"] = "idle" /\ Step("script", "hilight", "page")

(* Mutant: the message is posted, not sent. *)
OnStopped_Posted ==
  /\ Goto("script", "sendStopped", "top")
  /\ script_running' = FALSE
  /\ UNCHANGED <<back, flags, events, job, record>>

OnStopped ==
  /\ pc["ui"] = "idle" /\ Goto("script", "sendStopped", "top")
  /\ script_running' = FALSE
  /\ UNCHANGED <<back, flags, events, job, record>>

(* OnDestroy: exit_html_script_worker. *)
Destroy ==
  /\ Click /\ Goto("ui", "idle", "exitSet")
  /\ stop_work' = TRUE
  /\ exit' = TRUE
  /\ UNCHANGED <<back, running, events, job, script_running, record>>

ExitSet ==
  /\ Goto("ui", "exitSet", "exitWait")
  /\ work_notifier' = TRUE
  /\ UNCHANGED <<back, flags, state_notifier, job, script_running, record>>

(* Mutant: the second wait is left out. *)
ExitWait_Once ==
  \/ state_notifier /\ Step("ui", "exitWait", "exitTest")
  \/ ~state_notifier /\ Delayed /\ StartRelease("ui", "exitWait", "exitTest")

(* Without an answer in 3 seconds the browsers are disconnected under the  *)
(* script thread, and it gets 3 more.                                      *)
ExitWait ==
  \/ state_notifier /\ Step("ui", "exitWait", "exitTest")
  \/ ~state_notifier /\ Delayed /\ StartRelease("ui", "exitWait", "exitWait2")

ExitWait2 ==
  (state_notifier \/ Delayed) /\ Step("ui", "exitWait2", "exitTest")

(* running is looked at, in an assertion only. *)
ExitTest == Step("ui", "exitTest", "join")

(* Mutant: the thread is left alone when it does not end. *)
Join_Leave ==
  (Over \/ Delayed) /\ Step("ui", "join", "closed")

(* Three seconds for the thread, then TerminateThread; the handles are     *)
(* closed and the fields reset.                                            *)
Join ==
  /\ Over \/ Delayed
  /\ pc["ui"] = "join"
  /\ pc' = [pc EXCEPT !["ui"] = "closed",
                      !["script"] = IF Over THEN @ ELSE "killed"]
  /\ stop_work' = TRUE /\ running' = FALSE /\ exit' = FALSE /\ action' = NoScript
  /\ work_notifier' = FALSE /\ state_notifier' = FALSE
  /\ UNCHANGED <<back, root, starts, script_running, record>>

UI ==
  \/ ClickStart \/ Inserted \/ SkipInstance \/ StartWait \/ StartTest
  \/ StartLock \/ StartSet \/ ClickStop \/ StopWait \/ OnLocate \/ OnStopped
  \/ Destroy \/ ExitSet \/ ExitWait \/ ExitWait2 \/ ExitTest \/ Join

-----------------------------------------------------------------------------
(* The script thread. *)

Idle ==
  /\ Goto("script", "top", "signal")
  /\ running' = FALSE
  /\ UNCHANGED <<back, stop_work, exit, events, job, script_running, record>>

Signal ==
  /\ Goto("script", "signal", "wait")
  /\ state_notifier' = TRUE
  /\ UNCHANGED <<back, flags, work_notifier, job, script_running, record>>

Wait ==
  /\ work_notifier
  /\ Goto("script", "wait", "woken")
  /\ work_notifier' = FALSE
  /\ UNCHANGED <<back, flags, state_notifier, job, script_running, record>>

(* exit is looked at before the script is taken. *)
Woken ==
  \/ ~exit /\ Step("script", "woken", "take")
  \/ exit /\ StartRelease("script", "woken", "delete")

(* Mutant: the event is not reset when a script is taken. *)
Take_NoReset ==
  /\ Goto("script", "take", IF action = NoScript THEN "disconnect" ELSE "begin")
  /\ root' = action
  /\ action' = NoScript
  /\ running' = (action # NoScript)
  /\ UNCHANGED <<back, stop_work, exit, events, starts, script_running, record>>

(* Under the lock; without a script the thread goes through its end again. *)
Take ==
  /\ Goto("script", "take", IF action = NoScript THEN "disconnect" ELSE "begin")
  /\ root' = action
  /\ action' = NoScript
  /\ IF action = NoScript
       THEN UNCHANGED <<running, state_notifier>>
       ELSE running' = TRUE /\ state_notifier' = FALSE
  /\ UNCHANGED <<back, stop_work, exit, work_notifier, starts, script_running, record>>

(* EXIT_WORK_IF_NEEDED, then get_action_web_browser. *)
Begin == Step("script", "begin", IF stop_work THEN "disconnect" ELSE "pick")

Pick == Step("script", "pick", "check")

Check == Step("script", "check", IF stop_work THEN "disconnect" ELSE "hilight")

(* The page is opened in a new browser process when the record has none.   *)
OpenPage ==
  \/ stop_work /\ Step("script", "page", "disconnect")
  \/ ~stop_work /\ pipe /\ Step("script", "page", "exchange")
  \/ /\ ~stop_work /\ ~pipe
     /\ Goto("script", "page", "accept")
     /\ pipe' = TRUE /\ pipe_name' = TRUE /\ pipe_inited' = TRUE
     /\ held' = {"pipe", "name"}
     /\ UNCHANGED <<back, flags, events, job, script_running, twice>>

(* The process cannot be started, or its pipe not be made. *)
OpenPageFails ==
  /\ ~stop_work /\ ~pipe
  /\ Goto("script", "page", "test")
  /\ back' = [back EXCEPT !["script"] = "disconnect"]
  /\ \E inited \in BOOLEAN :
       /\ pipe_name' = inited /\ pipe_inited' = inited
       /\ held' = IF inited THEN {"name"} ELSE {}
  /\ UNCHANGED <<flags, events, job, script_running, pipe, twice>>

(* ConnectNamedPipe, without a timeout: the browser connects (a browser    *)
(* that dies before leaves the thread here) ...                            *)
Accept == "pipe" \in held /\ Step("script", "accept", "exchange")

(* ... or the pipe is closed by the other thread. *)
AcceptFails ==
  "pipe" \notin held /\ StartRelease("script", "accept", "disconnect")

(* An action is carried out: the next one follows, or none; or the pipe    *)
(* breaks, and the action is tried again or given up.                      *)
Exchange ==
  \/ "pipe" \in held /\ \E to \in {"check", "disconnect"} : Step("script", "exchange", to)
  \/ \E to \in {"check", "disconnect"} : StartRelease("script", "exchange", to)

(* Mutant: the browsers of the script stay. *)
Disconnect_Skip == Step("script", "disconnect", "sendStopped")

(* disconnect_all_web_browser_processes, then SendMessage to the window. *)
Disconnect == StartRelease("script", "disconnect", "sendStopped")

(* release_all_web_browser_processes deletes the records. *)
Delete == Step("script", "delete", "ended")

ScriptStep ==
  \/ Idle \/ Signal \/ Wait \/ Woken \/ Take \/ Begin \/ Pick \/ Check \/ OpenPage
  \/ OpenPageFails \/ AcceptFails \/ Exchange \/ Disconnect \/ Delete

Closed == pc["ui"] = "closed" /\ UNCHANGED scriptVars

Next == UI \/ ScriptStep \/ Accept \/ (\E t \in Thread : Release(t)) \/ Closed

(* create_html_action_script_worker *)
Init ==
  /\ pc = [t \in Thread |-> IF t = "ui" THEN "idle" ELSE "top"]
  /\ back = [t \in Thread |-> "idle"]
  /\ stop_work = TRUE /\ running = FALSE /\ exit = FALSE
  /\ action = NoScript /\ root = NoScript /\ starts = 0
  /\ work_notifier = FALSE /\ state_notifier = FALSE
  /\ script_running = FALSE
  /\ pipe = FALSE /\ pipe_name = FALSE /\ pipe_inited = FALSE /\ held = {} /\ twice = FALSE

Spec == Init /\ [][Next]_scriptVars

(* Fairness: a handler the window's thread entered goes on, and a sent     *)
(* message is dispatched when the thread is free; the script thread goes   *)
(* on, the browsers answer or break.  Not assumed: that the user clicks,   *)
(* or that a started browser connects.                                     *)
InHandler ==
  \/ Inserted \/ StartWait \/ StartTest \/ StartLock \/ StartSet \/ StopWait
  \/ OnLocate \/ OnStopped \/ ExitSet \/ ExitWait \/ ExitWait2 \/ ExitTest \/ Join

FairSpec ==
  /\ Spec
  /\ WF_scriptVars(InHandler)
  /\ WF_scriptVars(ScriptStep)
  /\ \A t \in Thread : WF_scriptVars(Release(t))

-----------------------------------------------------------------------------
UiLabel == Releasing \cup
  {"idle", "insert", "startWait", "startTest", "startLock", "startSet", "stopWait",
   "exitSet", "exitWait", "exitWait2", "exitTest", "join", "closed"}

ScriptLabel == Releasing \cup
  {"top", "signal", "wait", "woken", "take", "begin", "pick", "check", "hilight", "page",
   "accept", "exchange", "disconnect", "sendStopped", "delete", "ended", "killed"}

Labels ==
  /\ pc \in [Thread -> UiLabel \cup ScriptLabel]
  /\ pc["ui"] \in UiLabel /\ pc["script"] \in ScriptLabel
  /\ back \in [Thread -> {"idle", "exitWait2", "check", "disconnect", "sendStopped", "delete"}]
  /\ InRelease("ui") => back["ui"] = "exitWait2"
  /\ InRelease("script") => back["script"] \in {"check", "disconnect", "sendStopped", "delete"}

Flags ==
  /\ stop_work \in BOOLEAN /\ running \in BOOLEAN /\ exit \in BOOLEAN
  /\ work_notifier \in BOOLEAN /\ state_notifier \in BOOLEAN /\ script_running \in BOOLEAN
  /\ pipe \in BOOLEAN /\ pipe_name \in BOOLEAN /\ pipe_inited \in BOOLEAN
  /\ twice \in BOOLEAN

Values ==
  /\ action \in Script \cup {NoScript} /\ root \in Script \cup {NoScript}
  /\ starts \in 0 .. MaxStarts
  /\ held \subseteq {"pipe", "name"}

TypeOK == Labels /\ Flags /\ Values

(* While state_notifier is signalled no script is being run: what the      *)
(* window's thread waits for before it hands over the next script, takes   *)
(* the stop for done and closes the handles.                               *)
StateMeansIdle == state_notifier => ~InRun

(* exit_html_script_worker closes the events and deletes the lock when the *)
(* script thread can use them no more.                                     *)
HandlesOutliveThread == pc["ui"] = "closed" => Over

(* Before the window is destroyed, no pipe is closed and no name freed     *)
(* twice, however often scripts are started and stopped.                   *)
ReleasedOnce == twice => exit \/ pc["ui"] = "closed"

(* No record is deleted by the script thread while the window's thread     *)
(* releases it.                                                            *)
DeletedAlone == pc["script"] = "delete" => ~InRelease("ui")

(* A script is run with the record released: nothing of the script before  *)
(* it is left open, whatever stopped that one.                             *)
CleanStart == pc["script"] = "pick" => held = {} /\ ~pipe /\ ~pipe_inited

(* Every click, and the destruction of the window, is over at some time,   *)
(* whatever the script thread waits for: each may wait for the other.      *)
ClickEnds == pc["ui"] # "idle" ~> pc["ui"] \in {"idle", "closed"}

(* A script that is running when it is stopped comes to its end, unless it *)
(* is started again or waits for a browser that does not connect.          *)
StopEnds ==
  InRun /\ stop_work ~> ~InRun \/ ~stop_work \/ pc["script"] = "accept"

(* A script that was handed over is taken, unless another one is running:  *)
(* the signal cannot be missed by a thread on its way to the wait.         *)
StartTaken == action # NoScript ~> action = NoScript \/ InRun

-----------------------------------------------------------------------------
(* The assertion in start_html_script_work: nothing runs when a script is  *)
(* started.                                                                *)
StartFindsIdle ==
  [][pc["ui"] = "insert" /\ pc'["ui"] = "startWait" => ~running]_scriptVars
=============================================================================
