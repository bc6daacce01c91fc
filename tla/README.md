# A TLA+ model of data_scrambler

`data_scrambler` is a Windows (MFC) program that extracts data from web pages.
A *manager* process holds the scripts, the configuration of what to extract and
the user interface.  For every page it drives a *browser process*, which embeds
Internet Explorer, carries out one action after another (output, click, input,
back, locate, hilight) and answers over a named pipe.

This directory models the part of it that is hard to test: the threads, events,
locks and handles of both processes, the protocol between them and the order in
which a script is carried out.  The sections below give the inventory, the
correspondence to the code, what the runs and the proofs show, and what is left
out.  Line numbers refer to the files under `src/`.

## 1. Inventory

| component | code | state | operations | what must hold |
|---|---|---|---|---|
| job worker | `scrambler/work_job.cpp`, `work_job.h` | list of jobs, mutex, auto-reset event, stop flag, `working_state`, three handles | start, add a job, "is all work done?", "is the worker over?", end from inside | list used by one thread at a time; no block freed twice; no job after a stop; jobs in order, once; no lost wakeup |
| browser client | `scrambler/web_browser_window.cpp`, `external_link.cpp` | `html_action_work` (action, responses, event, url), shared without a lock | `data_scramble_work` (fetch, send, wait, poll, answer), `on_html_action`, `web_page_work`, timers, `OnCancel` | an answer belongs to its action; an action is answered; a late page load is not taken for the next action |
| script worker | `scrambler/html_element_prop_dlg.cpp` 246-299, 11357-11655, 12031-12940 | `SCRIPT_WORKER`: running, stop flag, exit flag, two events, a critical section | create, start, stop, exit, the thread's loop with its retries | start after stop works; exit ends; no two scripts at once |
| action navigation | same file, 8608-8885, 10639-11133; `html_maker_common/html_action.cpp` | tree of actions, the current one, the links found (`outputs`), the two urls of a page | next action, next link, jump, retry | links in order and none lost; texts put out before the next link; a bounded number of attempts; the run ends |
| configuration tree | same file, 14581-15400, 16854-17145 | tree of page properties, `config_tree_lock` | attach, detach, release | pointers of parent, child and sibling agree |
| pipe transport | `scrambler/pipe_line.c`, `.h` | one pipe handle and mutex per point | connect, request and reply, accept, disconnect | a reply is paired with its request; a handle is not closed while in use |
| browser process registry | `scrambler/web_page_browser_manage.cpp` | list and map of `WEB_BROWSER_PROCESS`, without a lock | allocate, find, start, connect, release | one process per page; nothing closed twice; no process left behind |
| thread and lock helpers | `html_maker/common_func.c`, `.h` | - | create and stop a thread, mutexes | a stopped thread is over |
| page load timer | `web_browser_window.cpp` 215-257, 3192-3262 | tick counters, page state | timer | a page is reported loaded exactly once |
| xpath and HTML analysis, parser of the script language, SQLite/MySQL output, HTTP and update, dialogs and plugins | `html_maker_common/`, `scrambler/syntax`, `sqlite_conn.cpp`, ... | - | - | not modelled: pure computation on COM objects, generated code, or I/O on a single thread |

The vendored code (protobuf, sqlite, libcef, json, `thirdparty`, `ictclas`) is
not part of the inventory.

How they interact: the script worker picks an action and sends it through the
registry and the pipe.  In the browser process `data_scramble_work` receives
it, stores it in `html_action_work` and calls `SendMessage` to the window.  The
window's thread performs it at once, or starts a page load and queues a job;
the job worker waits for the page and calls `SendMessage` with the same action
once more.  When the handler has ended the action it sets `complete_notifier`,
for which `data_scramble_work` waits 3 seconds at a time; between two waits it
polls the job worker to learn whether waiting still makes sense.

What is hard about it: four unsynchronised views of "is the worker idle"; one
function, `check_job_worker_exit`, called in two threads and closing the same
handles; an event that may be set after its waiter gave up; a record shared without a lock; a routine that runs longer than
its action is waited for; in the manager, a stop, a start and an exit that give
up after seconds while the script thread goes on, a registry two threads walk
without a lock, and retries that cannot tell "no more actions" from an error.
`PROJECT.json` lists these hazards at their lines.

## 2. Modules

| module | what it is |
|---|---|
| `JobQueue` | what the job worker promises: a stoppable queue that runs jobs one at a time, in order |
| `JobWorker` | the job worker with the three threads that use it, one step per access to shared memory, with the heap, the mutex, the event and the handles |
| `JobWorkerProofs`, `JobWorkerHeapProofs` | theorems about `JobWorker`, its implementation of `JobQueue` included |
| `BrowserClient` | how an action is carried out by the three threads, on top of `JobQueue` |
| `BrowserClientProofs` | type correctness of `BrowserClient`, and that a poll finds the worker |
| `BrowserClientSafetyProofs` | its safety properties and its use of `JobQueue` |
| `ScriptWorker` | how the manager's window starts, stops and ends its script thread, with the record of the browser process both of them release |
| `ScriptWorkerProofs` | its six safety properties |
| `ActionNavigation` | which action follows another one: operators over a script, no state |
| `ActionNavigationProofs` | what they return, for every script |
| `ScriptRun` | one run of a script: the script thread, a browser process for each page, and the messages between them |
| `MCScriptRun` | three small scripts for TLC |
| `ScriptRunProofs` | type correctness, the bound on attempts, one process per page, that an action meets the page that is located, and that a URL goes with the first action of a process only |
| `ScriptRunLinkProofs` | the order of the links and of the texts |

`JobWorker` and `BrowserClient` look at the browser process at two grains.  `JobWorker` keeps every
read and write of the worker's record and forgets what an action is;
`JobWorker` implements `JobQueue` (checked and proved), so `BrowserClient` can
take the queue for the worker and look at what is done with actions, answers and
the event instead.  `UsesQueue` says that it uses that queue and nothing else.
`ScriptWorker` and `ScriptRun` divide the manager in the same way: the first
keeps the window's thread, the events and the handles and forgets what a script
is; the second keeps the script and forgets how the thread was started.  In
`ScriptRun` a browser carries out an action in one step, `Act`, which may
succeed, fail or end on another page; that this step is always taken or the
process ends is what `ActionAnswered` of `BrowserClient` shows.

### JobWorker and the code

| variables | code |
|---|---|
| `pc` | the statement each of the three threads is about to execute |
| `handle`, `stop_working`, `working_state`, `work_notify`, `lock_owner`, `works` | the fields of `JOB_WORKER` (work_job.h 10-31); `handle` records which of the three `HANDLE` fields are not NULL |
| `entry`, `job`, `new_job` | locals of `worker_thread` and `add_job_to_worker` |
| `allocated`, `bad_free` | the heap; `bad_free` records a `free` of a block its caller did not own |
| `url_todo`, `click_todo`, `sender` | as much of the action and its handler as decides whether a job is queued |
| `exited` | `ExitProcess` was called |

`WorkerTop` to `WorkerPost` are the statements of `worker_thread` in their
order, `RoutineSend` to `RoutineReturn` those of `web_page_work` with
`check_woker_job_exist` and `worker_job_end` inlined, `ExitCheck` to `ExitClose`
those of `check_job_worker_exit`, which the window's thread and the scrambler
both execute.  Two facts about Windows are part of the model: an auto-reset event
is consumed by one wait, and `lock_mutex` and `SetEvent` on a NULL handle fail and
are ignored by every caller.  A job pointer that C leaves uninitialised holds `NoBlock`, and
a stale pointer keeps the block that was freed, which `malloc` may have handed
out again.

Nothing but `worker_job_end` stops the worker.  `stop_job_worker` has one caller,
`OnDestroy` of the browser window (998-1002), and the window's message map
(3140-3163) has no entry for it.  When the user closes the window, `OnCancel`
(3187-3190) posts WM_QUIT: the message loop ends, a `SendMessage` to the window
fails from then on, and the process exits under its threads.  `Cancel` here and
`Close` in `BrowserClient` are that step; the threads may go on for a while before
`ExitProcess` is taken.

A page is loaded for the first action of a process only (`url_todo`).  The
manager opens a process for every new page (html_element_prop_dlg.cpp 12295) and
tells it WORK_DONE before the next one (12791-12808).  That its three tests of "a
new page" agree, so that no later action carries a URL, is not assumed but the
property `UrlWithFirst` of `ScriptRun`, checked and proved.

A click or a step back is performed once (`click_todo`), when it arrives with a
text that is not "done".  The client handles such a request although the manager
of this repository sends an input text with INPUT actions only
(html_element_prop_dlg.cpp 8242-8262); see the run `BrowserClientClick`.  The
constant `InputSent` says whether a click may come with a text: the safety runs
and proofs take both, which is wider than what this manager sends; what holds
only for this manager is checked with `InputSent = {FALSE}` (`JobWorkerManager`,
`BrowserClientManager`).

### BrowserClient and the code

| variables | code |
|---|---|
| `action` | `html_action_work.action` and `.locate_url`, as far as `on_html_action` tells actions apart |
| `response` | `html_action_work.response`; a text is represented by the action it was written for |
| `complete_notifier` | the auto-reset event |
| `action_end`, `sender` | the local of `on_html_action`, and who sent the message it handles |
| `waiting`, `running`, `stopped` | the job worker as a `JobQueue`; a job is named by the action that queued it |
| `work_notify`, `worker_open` | the worker's event and its handle |
| `completed`, `performed`, `excepted` | history: the action the event was last set for, the click performed last, whether an exception was reported |

`Fetch` to `Respond` are `data_scramble_work` (664-996); `Poll`, `PollState`,
`EndWorker` and `CheckExit` are its calls into `work_job.cpp`.  `Handle` to
`Return` are one call of `on_html_action` (1774-2139): `Locate` for the first
message of the action with a url, the first one, `Exec` for the rest, then the page's text, then
the event.  `Wake` to `Finish` are `worker_thread` with `web_page_work`, with the
statements under one mutex in one step.  Whether a page loads, and how long it
takes, is left open: `Loaded` may happen at any time, and so may the end of a 3
second wait when the event is not set.  `start_worker` may fail, the worker
thread may not exist, the user may close the window.  A failed exchange with the
manager after an answer is ignored by the code and by the model.

### ScriptWorker and the code

| variables | code |
|---|---|
| `pc`, `back` | the statement each of the two threads is about to execute, and where it goes after it released the record |
| `stop_work`, `running`, `exit`, `action`, `work_notifier`, `state_notifier` | the fields of `SCRIPT_WORKER` (html_element_prop_dlg.h 80-90); `state_notifier` is manual-reset, `work_notifier` auto-reset (264-270) |
| `root` | the thread's local: the script it runs |
| `script_running` | the dialog's flag, which makes the Execute button a Stop button |
| `pipe`, `pipe_name`, `pipe_inited` | the `IPC_INFO` of the browser's record |
| `held`, `twice` | the handle and the name the record really owns; whether one was closed or freed that it did not own |

`ClickStart` to `StartSet` are `start_html_script_work`, `ClickStop` and
`StopWait` are `stop_html_script_work`, `Destroy` to `Join` are
`exit_html_script_worker`, `Idle` to `Take` the head of the thread's loop.
`TestPipe` to `ReleaseDone` are `close_server_named_pipe` and
`_release_web_browser_process`, executed by the thread `disconnect` and `exit`
call them from, one step per access to the record.  A sent message (`hilight`,
`sendStopped`) waits for the window's thread to be idle, and is dispatched
before a click; `hilight` stands for every message of a run.  The waits of the
window's thread are seconds long, so they run out only while the script thread
is where it may stay that long (`Delayed`: in a message, in ConnectNamedPipe, in
an exchange, in the wait for a process).

### ActionNavigation, ScriptRun and the code

A script is three sequences over its actions in the order of the tree: the kind
of an action, the page it belongs to (the action that leads there) and the
target of a jump.  `Proposed` is `get_next_html_element_action` with
`get_next_action_from_source_action`, `NextAction` adds the jump.  An action of
the kind "script" is one the manager executes itself (`check_local_action`); its
text either holds or does not, which the model leaves open each time.

| variables | code |
|---|---|
| `pc` | where the script thread is, between two looks at the stop flag |
| `action`, `browser`, `retry_count`, `ret`, `need_close` | locals of `exec_html_action_script_thread`; `ret` tells "ok", "error" and an io error apart |
| `next`, `relation` | locals `action_next` and `locate_mode`: the action the search has reached, and how (`LOCATE_TO_...`) |
| `outputs` | `HTML_ELEMENT_ACTION.outputs`: the links not yet followed |
| `rec` | `WEB_BROWSER_PROCESS`, one per page: `pipe_inited`, `current_url`, `locate_url` |
| `client` | the browser process of a page: where it is in its exchange with the manager, which says what is in the pipe, and the page it shows |
| `sent`, `found`, `visited`, `saved` | history: how often the action was sent, the links last found, opened, and put out |

`EnterLocal`, `EnterSkip` and `Enter` are the "script" actions a script begins
with and the test of its first page (12190-12258); `Begin` to `Retry` are the
loop of the thread (12260-12904), `Disconnect` what follows it.  `Select` is the
first call of `get_next_html_element_action` after an action, `Local` and `Skip`
are the further ones while it returns "script" actions (12563-12625), `Land` is
what is done with the result: the texts of the page that ends, the next action,
the counters.  `Advance` is one such call with all it changes: the link it takes
from `outputs`, the `locate_url` of a page (`Relocated`).  `AnalyseAnswer` is
`analyze_html_element_action_response` (8608-8893) for an answer that is not an
error: `Located` sets the two urls by the kind of the action, and `Listed` is
what the manager keeps of a list of links - all but the first, because it takes
the first text of every answer for the text of the page (8669 and 8709), which the
browser puts there for a text only (web_browser_window.cpp 1757-1767).
`EXIT_WORK_IF_NEEDED` leaves the block it stands in, hence the
different targets of the stopped steps.  A stop in the middle of a message (a
length without its data) is the stop before it: the pipe is closed by
`Disconnect` either way.  After the run only what it leaves open matters.

## 3. Runs

| run | bounds | shows |
|---|---|---|
| `JobWorkerSafety` | 2 blocks | safety of list, lock, handles and heap, no start after a stop, and `ImplementsQueue`; no lost wakeup, an orphan exits |
| `JobWorkerManager` | 2 blocks, no text with a click | the "fatal" log of work_job.cpp:305 is never reached: a worker that ended leaves no job |
| `BrowserClientSafety` | 3 actions | actions, jobs, texts and the event are never mixed up; every action is answered, or the process exits |
| `BrowserClientException` | 1 action, no faults | a completed action is reported as an exception (819) |
| `BrowserClientManager` | 3 actions, no text with a click | the `ASSERT( FALSE )` of 827 is never met: a poll finds the worker's handle, also after an exception |
| `BrowserClientClick` | 1 action, no faults | a click without an input text is not performed |
| `ScriptWorkerSafety` | 3 starts | six safety properties of events, handles and record; clicks, stops and starts are answered |
| `ScriptWorkerStart` | 3 starts | the assertion 11378 fails: a start finds the old script running |
| `ScriptRunSafety` | 3 scripts, lists of 1 and 3 links, 1 retry, 1 crash | links and texts in order, bounded attempts, one process per page, a URL with its first action only; the run, a stopped run and the browsers end |
| `ScriptRunLocated` | the same | the assertion 8628 fails: an answer for a page that is not located |
| `ScriptRunCondition` | the same | a condition in front of a jump skips its target, not the jump |

Bounds.  With two blocks a handler adds a job while another one runs or waits,
and a block that was freed is handed out again; the properties other than the
liveness ones are proved for any number.  `JobWorker` has no other bound: the
loops of the threads are finite state.  `MaxActions` bounds the actions the manager sends: the first may
time out, the second may be confused with it, the third shows whether anything is
left over; no history reaches further back, because every handler and every
answer refers to the current action only.  In `BrowserClientManager` the first
action may stop the worker, a second poll would close its handle and a third
would miss it.  The window never closes in the runs for the disagreements, so
that they do not depend on it.
`MaxStarts` is 3 because a start may find the script before it running and the
one before that stopped. The three scripts between them have every kind of
action: a list whose links lead to a page with several actions and which is
followed by another action, with a condition in front of a jump, one the script
begins with and one in the middle of a page (`ListScript`); paging, where a jump
closes a loop, with an action under a loading click (`PagingScript`); a jump
into the page of another action (`DetailScript`). Three links, of which two are
kept, are the least for "the next link" and "the last link" to differ, and of
one link nothing is kept; one retry, where the code has two, is the least for an
action that is sent again to fail again (the proofs are for any number); one
crash, because a process that replaces a crashed one starts from nothing.

The passing properties, with what each is about, are stated above their
definitions.  Those to read first: `DoneMeansIdle` (two unprotected reads, and
yet the answer is right), `HandlesOutliveWorker`, `HeapSafeUntilStop` (the stale
job pointer of work_job.cpp:53-77 is harmless as long as nobody stops the
worker), `LockHandleValid` (two threads may close the mutex whose handle is
asserted to be open where it is taken), `ImplementsQueue`; `OwnJobs` (a late page load never meets the next
action), `AnswerMeansHandled` (the auto-reset event and the poll together keep a
late event from completing the next action until the first exception) and
`OwnAnswer`; `StateMeansIdle` (one event answers three questions) and
`ReleasedOnce` (nobody but the script thread releases the record, except while
the window is destroyed); `LinksInOrder` and `PagesSaved` (with every failure
and retry of the page behind a link), `ActsOnLocated`, `OneBrowser` and
`UrlWithFirst` (the question whether a page is new is asked three times, while the
urls it compares change).

### Fairness

Threads are scheduled, so every step of a thread that stays enabled is taken
(weak fairness per thread).  A mutex of Windows goes to its waiters in turn, and
the window's thread dispatches every sent message and every timer message
although it may be busy in between: strong fairness for taking the mutex, for
handling each sender's message and for the timer.  Waiting for a page is bounded
by the tick counter, so `Loaded` and `RoutineSend` are fair.  Nothing is assumed
about the user closing the window or about the manager.

In `ScriptWorker` a handler of the window's thread goes on once it was entered
and the script thread goes on (weak fairness); that a browser connects
(`Accept`) and that the user clicks are not assumed.  In `ScriptRun` the script
thread and the browser processes go on: an action is carried out or given up,
which `ActionAnswered` of `BrowserClient` justifies, and the user answers the
question after an error.  That the user stops the script is not assumed.  A
thread in ConnectNamedPipe whose browser died waits for ever
(web_page_browser_manage.cpp 419): `RunEnds` and `StopEnds` except this state.
`StopEnds` also excepts a script with both "script" actions and a jump back: in
a loop of conditions nothing looks at the stop flag (12563-12625).

### Disagreements met

1. An action that completes between the timeout and the poll is reported as an
   exception and the worker is stopped for good (`BrowserClientException`).
2. Clicks and steps back need an input text that is never sent
   (`BrowserClientClick`).
3. `start_html_script_work` asserts that no script is running; the result of a
   stop that gave up is dropped, so that the next click starts one
   (`ScriptWorkerStart`).
4. "No more items" after the last link of a page is retried like an error: the
   last action is sent again, for a page with no url, and its texts are put out
   again (`ScriptRunLocated`).
5. The comment on the "script" actions (12207) says that neither the action
   after a condition nor the one after that is found through a jump.  Both are:
   when the condition does not hold, the jump's target is skipped instead of the
   jump, and the script goes on behind the target (`ScriptRunCondition`).

Also seen, without a run of its own: `OnDestroy` and with it `stop_job_worker` are
never called (message map 3140-3163), so that closing the window ends the process
under its threads; a worker that is idle when
`data_scramble_work` returns is never told to stop, so the process stays until
its window is closed (`evaluate_worker_state`, 592-636); an unknown action sets
the event twice (2053 and 2102), so that the second signal may complete the
next action, which is why the runs of `BrowserClient` and four of its theorems leave
unknown kinds out; the actions under a click that loads a page are passed over:
the ERROR_NOT_SUPPORTED of 10984 is overwritten in 11036 and 11053; a page that
begins with a "script" action or a jump, or ends with a "script" action, does not
have its texts put out, because only the last of several searches decides on
them (12721), and after the jump its links are taken without being opened; the
first link of every list is lost (8709, see `Listed`); an output that finds no
text at all is an error, one whose text is an exception's is not (8652, 8669);
the answer to a locate action, "0;" and a url, is taken for a number, so that it
never sets `current_url` (8884), and a click that failed leaves `current_url` as
it was, so that such an action may meet a page that shows something else when
"script" actions turn to it once more (12490); a link that is equal to the one before
it is not opened again; an action that is skipped still relocates its
page; a condition that is the last action of a page and does not hold
skips the first action of the next one; after the last
link of a page the run ends, so that the actions after the one that found the
links are never reached (10725-10734); the test of
`location_url` in `start_html_script_work_ex` (11464) is the wrong way round;
while the window is destroyed two threads may release one record (11612).

## 4. Proofs

All theorems are for any number of heap blocks (`JobWorker`), of actions
(`BrowserClient`) and of starts (`ScriptWorker`), and for every set of
well-formed scripts, lists of links, retry limit and number of crashes
(`ScriptRun`); they assume the named assumptions on the constants and, for four
theorems about `BrowserClient`, that no action is of an unknown kind.  `NoJobLeft`
and `PollFinds` assume that no click comes with a text (`InputSent = {FALSE}`),
which is what this manager does; `PollFinds` also that the worker thread could be
created.

| theorem | states | rests on |
|---|---|---|
| `Typing` | `TypeOK` of `JobWorker` | `add_job_to_worker` holds a block until it has inserted it (`JobHeld`) |
| `HandlesSafe` | `HandlesOutliveWorker` | who is in a handler (`SenderInv`) and what the threads that close them have established (`HandleInv`) |
| `NoLateStart` | `NoStartAfterStop` | the same; an action property, one case per step |
| `ListSafe` | `ListAccessExclusive` | between lock and unlock a thread owns the mutex, unless the lock's handle was closed - and then nobody else can reach the list (`LockInv`, `StopInv`) |
| `LockHandleSafe` | `LockHandleValid` | the timer closes the mutex only when the scrambler has ended, the scrambler only after the worker, and afterwards it finds the worker's handle cleared (`HandleInv`) |
| `HeapSafeTheorem` | `HeapSafeUntilStop` | queued, running and held blocks are disjoint and live (`HeapInv`) |
| `DoneTheorem` | `DoneMeansIdle` | the first observation (empty list) stays true while the second is made, because only a message the scrambler is not waiting in could queue a job (`DoneInv`) |
| `NoJobLeft` | `NoJobLeftAtExit` | the worker is stopped when its list was seen empty, by a thread after which no message queues a job: the action with the url is handled, or the scrambler has ended (`EndInv`) |
| `Refinement` | `ImplementsQueue` | step simulation under the mapping in `JobWorker`: an unlinked job still waits until the flag has been tested; a routine is running; `RunInv` says it has a block |
| `ClientTyping` | `TypeOK` of `BrowserClient` | a handler runs only after an action arrived (`ArrivedInv`) and for a thread that waits in SendMessage |
| `PollFinds` | `PollFindsWorker` | a wait runs out only for the first action or after the window has gone: any other action is ended, and the event set, before SendMessage returns (`PollInv`) |
| `Alone`, `JobsOwned`, `HandledAnswer`, `AnswerOwned` | `HandledAlone`, `OwnJobs`, `AnswerMeansHandled`, `OwnAnswer` | `ClientInv`, below |
| `UsesTheQueue` | `UsesQueue` | step simulation; nothing is dropped from a queue that was not stopped (`DropInv`) |
| `ScriptTyping`, `SignalMeansIdle`, `HandlesSafe`, `ReleaseOnce`, `DeleteAlone`, `StartsClean` | the six invariants of `ScriptWorkerSafety` | `WorkerInv`, below |
| `NextActionIn` | the action after another one is in the script, on its page, the page behind it, the page's first action or a jump's target; a link is taken only where one is left | the minimum of a finite set of actions (`FiniteSetTheorems`) |
| `RunTyping`, `SendsBounded`, `NoSecondBrowser` | `TypeOK`, `AttemptsBounded`, `OneBrowser` of `ScriptRun` | `RunInv`, below, and `NextActionIn` |
| `ActsWhereLocated` | `ActsOnLocated` | `PlaceInv`, below: it adds to `RunInv` what a browser shows |
| `UrlOnlyFirst` | `UrlWithFirst` | a browser without an action is one the thread has just started, and its page is new until the action is written (`NewInv`, on top of `RunInv`) |
| `LinksFollowedInOrder`, `PagesSavedFirst` | `LinksInOrder`, `PagesSaved` | `WalkInv`, below: it adds to `PlaceInv` the links taken, opened and put out |

The inductive invariant `ClientInv` is the argument for why an unprotected
record works.  As long as the worker may still run something (`Alive`), at most
one job is left, it belongs to the current action, and `data_scramble_work`
still waits for that action (`JobInv`): it leaves the loop of waits only with
the event, which is not set while a job is pending, or through a poll, which
saw an empty list and an idle worker (`IdleInv`) or a worker that is over
(`OverInv`).  None of the four properties is inductive without it: that the
event belongs to the current action (`EventInv`) needs that no old job can
complete a new action, which needs that old jobs are gone when an action is
fetched, which needs the poll to be right.  TLC checked `ClientInv` on the bounds
of `BrowserClientSafety` before it was proved.

`WorkerInv` says what each thread may assume of the other at each of its
statements: the event is reset from the moment a script is taken until the
thread is idle again, whatever the window's thread does; until `exit` is set
only the script thread touches the record, so what it owns (`held`) follows
from where that thread is in its release; a run ends with a release, so the
next begins with none.  The window's thread reaches `closed` only through the
wait or TerminateThread.

`RunInv` is the argument for `OneBrowser` and for the bound on attempts.  A
script goes on to the pages behind the one it is on and never back (`PageInv`),
so the pages ahead of the thread have no browser process (`AheadInv`), and a page
that is turned to for the first time needs no argument; while "script" actions
are passed, this is said of the action the search has reached (`next`) as well as
of the one it started from.  A page in use is opened
anew only after its url was cleared or changed; each place that does so is
followed by the release of the process before the loop comes round
(`ReadyInv`), and a release ends the process unless it has yet to connect, which
is waited for or ends the run (`StartInv`).  `CountInv` relates the two counters
of attempts: `retry_count` is raised at two places of one round after a failed
action, `sent` once, so that `retry_count` is never behind.

`PlaceInv` is the argument for `ActsOnLocated`: the manager knows only what it
noted, and what it noted is what the browser shows.  A page the thread has not
come to has no browser and no `current_url` (`FreshInv`); the thread and the
browser agree on who has the message (`StageInv`), so that a browser is at work
only while its answer is awaited (`BusyInv`).  `ShownInv` then follows the url
through one round: an action brings a url exactly when there is no `current_url`,
it is the located one, and a browser whose `current_url` is noted shows that page
or none.  Nothing is located after the last link of a page, and only there
(`SpentInv`, and `SpentWalk` while the search is under way): the page may then
show what the last click led to, which `Shown` allows for an action that is sent
again.  `ActsOnLocated` excepts a page with a "locate" action in a script with
"script" actions (`LocatedAgain`), for which this fails.

`WalkInv` relates five accounts of the links of a page: the list as it was found,
what is left of it, the url that is located, the message on its way and what was
opened.  What is left is the end of the list (`ListInv`) and what was opened its
beginning (`OrderInv`); between the two lies at most one link, the one that was
taken and not yet opened (`Pending`): the thread has it in `locate_url`, its next
action is the first of the page, and that action brings it however often it is
sent.  `AheadLinks` says so while the page is ahead of the thread, `InLinks` while
the thread is on it, because a link is taken from either side: by the action that
found the list and by the last action of the page behind it (`NextActionCases`).
That no link is left out needs that a link is not taken while another one is
`Pending` (`NotPending`): the search for the next action begins only after the
page's first action was answered.  That none is opened once more needs that
`current_url` and the url shown are the last link opened (`OpenedInv`).  For
`PagesSaved`, the texts of the last link are still to be put out only while its
url is the located one or the search has just turned to the next (`SavedInv`).
The assumption `LinkAssumption` says that no link is the empty url or one of the
three names by which the model calls the pages that are not links.

TLC checked the invariants on the bounds of the runs, or samples of them, before
they were proved.

Only model-checked: the liveness properties (`QueuedJobServed`, `OrphanExits`,
`ActionAnswered`, `ClickEnds`, `StartTaken`, `RunEnds`,
`BrowsersEnd` and the two `StopEnds`), because fairness and ENABLED are beyond
the prover.

## 5. Not modelled

In the components that are modelled:

- `JobWorker`, `BrowserClient`: the failure of `CreateMutex` and `CreateEvent`
  in `start_job_worker`; the DOM; the page load ticks (`check_web_page_loading_status`
  compares tick counts, so that a page is loaded or given up in the end, which
  is what the model says); the menus and the mouse handlers of the window;
  `stop_job_worker` and `OnDestroy`, which are never called; what the threads do
  with the COM objects of a window that has gone, other than a `SendMessage` that
  fails.
- `ScriptWorker`: one record stands for the registry, and one instance for the
  array of one script instance; memory that cannot be allocated.
- `ActionNavigation`, `ScriptRun`: what the texts of the "script" actions
  compute, except that a condition holds or not; what the output messages write;
  the framing of a message by its length; the delays between actions.
  `WellFormed` leaves out four configurations: a jump to no action and a jump to
  a jump, on which the code asserts; a jump in a script with a page whose second
  action leads to another page, for which the test of a jump's level takes the
  wrong page (11105); and a jump behind a link in a script that also has "script"
  actions, on whose error 12577 asserts.

Not modelled at all, because there is no state machine to check: the
configuration tree (one thread, one tree control), the analysis of pages and
XPath (computation on COM objects), the parser of the script language (generated
by bison and flex), the outputs to SQLite and MySQL, the HTTP client and the
update (blocking calls of one thread), the dialogs and the plugins.  Most of the
repository is vendored (protobuf, sqlite, libcef, json, wtl, ictclas) or a copy
of one of the program's own files, so that the share of the lines that is
modelled is small; the modelled files are those in which two threads or two
processes meet.

What could come next: the tick
counters of `check_web_page_loading_status` with their width; two records in
`ScriptWorker`.
