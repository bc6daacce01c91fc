------------------------ MODULE ScriptWorkerProofs ------------------------
(***************************************************************************)
(* The safety properties of ScriptWorker, proved for every number of       *)
(* scripts that are started.                                               *)
(***************************************************************************)
EXTENDS ScriptWorker, TLAPS

USE DEF Thread, NoScript, Script, flags, events, job, record, Goto, Step, StartRelease

(* The steps, in groups: the window's thread starts and stops scripts,     *)
(* handles messages and leaves; the script thread takes a script and       *)
(* executes it; either releases the record.                                *)
Starting ==
  \/ ClickStart \/ Inserted \/ SkipInstance \/ StartWait \/ StartTest \/ StartLock
  \/ StartSet
Stopping    == ClickStop \/ StopWait
Dispatching == OnLocate \/ OnStopped
Leaving     == Destroy \/ ExitSet \/ ExitWait \/ ExitWait2 \/ ExitTest
Taking      == Idle \/ Signal \/ Wait \/ Woken \/ Take \/ Begin \/ Pick
Executing   ==
  \/ Check \/ OpenPage \/ OpenPageFails \/ AcceptFails \/ Accept \/ Exchange
  \/ Disconnect \/ Delete
ClosingPipe(t) == TestPipe(t) \/ ClosePipe(t) \/ NullPipe(t) \/ AwaitClient(t)
Freeing(t)     == TestInited(t) \/ FreeName(t) \/ NullName(t) \/ ReleaseDone(t)

(* Every step is one of these, or changes nothing. *)
LEMMA StepCases ==
  ASSUME [Next]_scriptVars
  PROVE  \/ Starting \/ Stopping \/ Dispatching \/ Leaving \/ Join \/ Taking \/ Executing
         \/ \E t \in Thread : ClosingPipe(t) \/ Freeing(t)
         \/ UNCHANGED scriptVars
BY DEF Next, UI, ScriptStep, Release, Closed, Starting, Stopping, Dispatching, Leaving,
   Taking, Executing, ClosingPipe, Freeing

(* Only a thread that may start another script is about to. *)
BoundInv ==
  pc["ui"] \in {"insert", "startWait", "startTest", "startLock"} => starts < MaxStarts

(* Once a script has been signalled as over, the event stays set until the *)
(* next one is taken.                                                      *)
SignalInv ==
  \/ pc["script"] \in {"wait", "woken", "take", "delete"}
  \/ InRelease("script") /\ back["script"] = "delete"
  => state_notifier

(* exit is set exactly while the window's thread is in                     *)
(* exit_html_script_worker.                                                *)
Exiting ==
  InRelease("ui") \/ pc["ui"] \in {"exitSet", "exitWait", "exitWait2", "exitTest", "join"}

ExitInv == (Exiting => exit) /\ (exit => Exiting)

(* The window's thread releases the record only in the middle of a script, *)
(* which then cannot come to its end.                                      *)
AbandonInv ==
  InRelease("ui") =>
    \/ pc["script"] \in {"check", "hilight", "page", "accept", "exchange", "disconnect",
                         "sendStopped"}
    \/ InRelease("script") /\ back["script"] # "delete"

Clean == held = {} /\ ~pipe /\ ~pipe_name /\ ~pipe_inited

(* Until the window is destroyed the record is the script thread's, and    *)
(* its fields tell what it owns.                                           *)
Owned ==
  /\ ~twice
  /\ pipe /\ pc["script"] # "null" => "pipe" \in held
  /\ pipe_name /\ pc["script"] # "name" => "name" \in held
  /\ "pipe" \in held => pipe /\ pc["script"] # "null"
  /\ "name" \in held => pipe_name /\ pc["script"] # "name"
  /\ pipe_name => pipe_inited
  /\ pc["script"] \in {"client", "uninit", "free", "name", "done"} => ~pipe
  /\ pc["script"] = "done" => ~pipe_name
  /\ pc["script"] = "sendStopped" => Clean

OwnInv == ~exit /\ pc["ui"] # "closed" => Owned

(* Between two scripts the record is empty. *)
Between ==
  pc["script"] \in {"top", "signal", "wait", "woken", "take", "begin", "pick"}

CleanInv == Between => Clean

-----------------------------------------------------------------------------
(* What the window's thread does on its own leaves the script thread, its  *)
(* event and the record as they are.                                       *)
LEMMA UiFrame ==
  ASSUME TypeOK, Starting \/ Stopping \/ Leaving
  PROVE  /\ pc'["script"] = pc["script"]
         /\ back'["script"] = back["script"]
         /\ UNCHANGED <<state_notifier, record>>
         /\ Starting \/ Stopping => exit' = exit /\ pc["ui"] # "closed"
<1> DEFINE Frame == /\ pc'["script"] = pc["script"]
                    /\ back'["script"] = back["script"]
                    /\ UNCHANGED <<state_notifier, record>>
<1>1. CASE Starting
  <2>1. Frame /\ exit' = exit
    BY <1>1 DEF Starting, ClickStart, Inserted, SkipInstance, StartWait, StartTest,
       StartLock, StartSet, TypeOK, Labels
  <2>2. pc["ui"] # "closed"
    BY <1>1 DEF Starting, ClickStart, Inserted, SkipInstance, StartWait, StartTest,
       StartLock, StartSet, Click
  <2> QED BY <2>1, <2>2
<1>2. CASE Stopping
  BY <1>2 DEF Stopping, ClickStop, StopWait, Click, TypeOK, Labels
<1>3. CASE Leaving
  <2>1. Frame
    BY <1>3 DEF Leaving, Destroy, ExitSet, ExitWait, ExitWait2, ExitTest, TypeOK, Labels
  <2> QED BY <2>1, <1>1, <1>2
<1> QED BY <1>1, <1>2, <1>3

(* What the script thread does leaves the window's thread as it is.        *)
LEMMA ScriptFrame ==
  ASSUME TypeOK, Taking \/ Executing
  PROVE  /\ pc'["ui"] = pc["ui"] /\ back'["ui"] = back["ui"]
         /\ UNCHANGED <<exit, starts>>
<1>1. CASE Taking
  BY <1>1 DEF Taking, Idle, Signal, Wait, Woken, Take, Begin, Pick, TypeOK, Labels
<1>2. CASE Executing
  BY <1>2 DEF Executing, Check, OpenPage, OpenPageFails, AcceptFails, Accept, Exchange,
     Disconnect, Delete, TypeOK, Labels
<1> QED BY <1>1, <1>2

(* The threads stay at their labels. *)
LEMMA LabelsKept ==
  ASSUME TypeOK, [Next]_scriptVars
  PROVE  Labels'
<1>1. CASE Starting
  BY <1>1 DEF Starting, ClickStart, Inserted, SkipInstance, StartWait, StartTest,
              StartLock, StartSet, TypeOK, Labels, UiLabel, ScriptLabel, InRelease,
              Releasing, Click, Sending
<1>2. CASE Stopping
  BY <1>2 DEF Stopping, ClickStop, StopWait, TypeOK, Labels, UiLabel, ScriptLabel,
              InRelease, Releasing, Click, Sending
<1>3. CASE Dispatching
  BY <1>3 DEF Dispatching, OnLocate, OnStopped, TypeOK, Labels, UiLabel,
              ScriptLabel, InRelease, Releasing, Click, Sending
<1>4. CASE Leaving
  BY <1>4 DEF Leaving, Destroy, ExitSet, ExitWait, ExitWait2, ExitTest, TypeOK,
              Labels, UiLabel, ScriptLabel, InRelease, Releasing, Click, Sending
<1>5. CASE Join
  BY <1>5 DEF Join, TypeOK, Labels, UiLabel, ScriptLabel, InRelease, Releasing,
              Click, Sending
<1>6. CASE Taking
  BY <1>6 DEF Taking, Idle, Signal, Wait, Woken, Take, Begin, Pick, TypeOK, Labels,
              UiLabel, ScriptLabel, InRelease, Releasing, Click, Sending
<1>7. CASE Executing
  BY <1>7 DEF Executing, Check, OpenPage, OpenPageFails, AcceptFails, Accept,
              Exchange, Disconnect, Delete, TypeOK, Labels, UiLabel, ScriptLabel,
              InRelease, Releasing, Click, Sending
<1>8. ASSUME NEW t \in Thread, ClosingPipe(t) PROVE Labels'
  BY <1>8 DEF ClosingPipe, TestPipe, ClosePipe, NullPipe, AwaitClient, TypeOK,
              Labels, UiLabel, ScriptLabel, InRelease, Releasing, Click, Sending
<1>9. ASSUME NEW t \in Thread, Freeing(t) PROVE Labels'
  BY <1>9 DEF Freeing, TestInited, FreeName, NullName, ReleaseDone, TypeOK, Labels,
              UiLabel, ScriptLabel, InRelease, Releasing, Click, Sending
<1>10. CASE UNCHANGED scriptVars
  BY <1>10 DEF scriptVars, TypeOK, Labels, InRelease
<1> QED BY StepCases, <1>1, <1>2, <1>3, <1>4, <1>5, <1>6, <1>7, <1>8, <1>9, <1>10

(* The flags stay Boolean. *)
LEMMA FlagsKept ==
  ASSUME TypeOK, [Next]_scriptVars
  PROVE  Flags'
<1>1. CASE Starting
  <2>1. CASE ClickStart
    BY <2>1 DEF ClickStart, TypeOK, Flags
  <2>2. CASE Inserted
    BY <2>2 DEF Inserted, TypeOK, Flags
  <2>3. CASE SkipInstance
    BY <2>3 DEF SkipInstance, TypeOK, Flags
  <2>4. CASE StartWait
    BY <2>4 DEF StartWait, TypeOK, Flags
  <2>5. CASE StartTest
    BY <2>5 DEF StartTest, TypeOK, Flags
  <2>6. CASE StartLock
    BY <2>6 DEF StartLock, TypeOK, Flags
  <2>7. CASE StartSet
    BY <2>7 DEF StartSet, TypeOK, Flags
  <2> QED BY <1>1, <2>1, <2>2, <2>3, <2>4, <2>5, <2>6, <2>7 DEF Starting
<1>2. CASE Stopping
  <2>1. CASE ClickStop
    BY <2>1 DEF ClickStop, TypeOK, Flags
  <2>2. CASE StopWait
    BY <2>2 DEF StopWait, TypeOK, Flags
  <2> QED BY <1>2, <2>1, <2>2 DEF Stopping
<1>3. CASE Dispatching
  <2>1. CASE OnLocate
    BY <2>1 DEF OnLocate, TypeOK, Flags
  <2>2. CASE OnStopped
    BY <2>2 DEF OnStopped, TypeOK, Flags
  <2> QED BY <1>3, <2>1, <2>2 DEF Dispatching
<1>4. CASE Leaving
  <2>1. CASE Destroy
    BY <2>1 DEF Destroy, TypeOK, Flags
  <2>2. CASE ExitSet
    BY <2>2 DEF ExitSet, TypeOK, Flags
  <2>3. CASE ExitWait
    BY <2>3 DEF ExitWait, TypeOK, Flags
  <2>4. CASE ExitWait2
    BY <2>4 DEF ExitWait2, TypeOK, Flags
  <2>5. CASE ExitTest
    BY <2>5 DEF ExitTest, TypeOK, Flags
  <2> QED BY <1>4, <2>1, <2>2, <2>3, <2>4, <2>5 DEF Leaving
<1>5. CASE Join
  BY <1>5 DEF Join, TypeOK, Flags
<1>6. CASE Taking
  <2>1. CASE Idle
    BY <2>1 DEF Idle, TypeOK, Flags
  <2>2. CASE Signal
    BY <2>2 DEF Signal, TypeOK, Flags
  <2>3. CASE Wait
    BY <2>3 DEF Wait, TypeOK, Flags
  <2>4. CASE Woken
    BY <2>4 DEF Woken, TypeOK, Flags
  <2>5. CASE Take
    BY <2>5 DEF Take, TypeOK, Flags
  <2>6. CASE Begin
    BY <2>6 DEF Begin, TypeOK, Flags
  <2>7. CASE Pick
    BY <2>7 DEF Pick, TypeOK, Flags
  <2> QED BY <1>6, <2>1, <2>2, <2>3, <2>4, <2>5, <2>6, <2>7 DEF Taking
<1>7. CASE Executing
  <2>1. CASE Check
    BY <2>1 DEF Check, TypeOK, Flags
  <2>2. CASE OpenPage
    BY <2>2 DEF OpenPage, TypeOK, Flags
  <2>3. CASE OpenPageFails
    BY <2>3 DEF OpenPageFails, TypeOK, Flags
  <2>4. CASE AcceptFails
    BY <2>4 DEF AcceptFails, TypeOK, Flags
  <2>5. CASE Accept
    BY <2>5 DEF Accept, TypeOK, Flags
  <2>6. CASE Exchange
    BY <2>6 DEF Exchange, TypeOK, Flags
  <2>7. CASE Disconnect
    BY <2>7 DEF Disconnect, TypeOK, Flags
  <2>8. CASE Delete
    BY <2>8 DEF Delete, TypeOK, Flags
  <2> QED BY <1>7, <2>1, <2>2, <2>3, <2>4, <2>5, <2>6, <2>7, <2>8 DEF Executing
<1>8. ASSUME NEW t \in Thread, ClosingPipe(t) PROVE Flags'
  <2>1. CASE TestPipe(t)
    BY <2>1 DEF TestPipe, TypeOK, Flags
  <2>2. CASE ClosePipe(t)
    BY <2>2 DEF ClosePipe, TypeOK, Flags
  <2>3. CASE NullPipe(t)
    BY <2>3 DEF NullPipe, TypeOK, Flags
  <2>4. CASE AwaitClient(t)
    BY <2>4 DEF AwaitClient, TypeOK, Flags
  <2> QED BY <1>8, <2>1, <2>2, <2>3, <2>4 DEF ClosingPipe
<1>9. ASSUME NEW t \in Thread, Freeing(t) PROVE Flags'
  <2>1. CASE TestInited(t)
    BY <2>1 DEF TestInited, TypeOK, Flags
  <2>2. CASE FreeName(t)
    BY <2>2 DEF FreeName, TypeOK, Flags
  <2>3. CASE NullName(t)
    BY <2>3 DEF NullName, TypeOK, Flags
  <2>4. CASE ReleaseDone(t)
    BY <2>4 DEF ReleaseDone, TypeOK, Flags
  <2> QED BY <1>9, <2>1, <2>2, <2>3, <2>4 DEF Freeing
<1>10. CASE UNCHANGED scriptVars
  BY <1>10 DEF scriptVars, TypeOK, Flags
<1> QED BY StepCases, <1>1, <1>2, <1>3, <1>4, <1>5, <1>6, <1>7, <1>8, <1>9, <1>10

(* A start that is under way was within the bound. *)
LEMMA BoundKept ==
  ASSUME TypeOK, BoundInv, [Next]_scriptVars
  PROVE  BoundInv'
<1>1. CASE Taking \/ Executing
  BY <1>1, ScriptFrame DEF BoundInv, Releasing
<1>2. CASE Starting
  BY ScriptWorkerAssumption, <1>2 DEF Starting, ClickStart, Inserted, SkipInstance,
                                      StartWait, StartTest, StartLock, StartSet,
                                      TypeOK, BoundInv, Click, Sending, Values,
                                      Releasing, Labels, UiLabel, ScriptLabel
<1>3. CASE Stopping
  BY <1>3 DEF Stopping, ClickStop, StopWait, TypeOK, BoundInv, Click, Sending,
              Values, Releasing, Labels, UiLabel, ScriptLabel
<1>4. CASE Dispatching
  BY <1>4 DEF Dispatching, OnLocate, OnStopped, TypeOK, BoundInv, Click, Sending,
              Values, Releasing, Labels, UiLabel, ScriptLabel
<1>5. CASE Leaving
  BY <1>5 DEF Leaving, Destroy, ExitSet, ExitWait, ExitWait2, ExitTest, TypeOK,
              BoundInv, Click, Sending, Values, Releasing, Labels, UiLabel,
              ScriptLabel
<1>6. CASE Join
  BY <1>6 DEF Join, TypeOK, BoundInv, Click, Sending, Values, Releasing, Labels,
              UiLabel, ScriptLabel
<1>7. ASSUME NEW t \in Thread, ClosingPipe(t) PROVE BoundInv'
  BY <1>7 DEF ClosingPipe, TestPipe, ClosePipe, NullPipe, AwaitClient, TypeOK,
              BoundInv, Click, Sending, Values, Releasing, Labels, UiLabel,
              ScriptLabel
<1>8. ASSUME NEW t \in Thread, Freeing(t) PROVE BoundInv'
  BY <1>8 DEF Freeing, TestInited, FreeName, NullName, ReleaseDone, TypeOK,
              BoundInv, Click, Sending, Values, Releasing, Labels, UiLabel,
              ScriptLabel
<1>9. CASE UNCHANGED scriptVars
  BY <1>9 DEF scriptVars, TypeOK, BoundInv, Values, Labels
<1> QED BY StepCases, <1>1, <1>2, <1>3, <1>4, <1>5, <1>6, <1>7, <1>8, <1>9

(* The other variables keep their types. *)
LEMMA ValuesKept ==
  ASSUME TypeOK, BoundInv, [Next]_scriptVars
  PROVE  Values'
<1>1. CASE Starting
  <2>1. CASE ClickStart \/ Inserted \/ SkipInstance \/ StartTest \/ StartSet
    BY <2>1 DEF ClickStart, Inserted, SkipInstance, StartTest, StartSet, TypeOK,
                BoundInv, Values
  <2>2. CASE StartWait
    BY <2>2 DEF StartWait, TypeOK, BoundInv, Values
  <2>3. CASE StartLock
    BY ScriptWorkerAssumption, <2>3 DEF StartLock, TypeOK, BoundInv, Values
  <2> QED BY <1>1, <2>1, <2>2, <2>3 DEF Starting
<1>2. CASE Stopping
  BY <1>2 DEF Stopping, ClickStop, StopWait, TypeOK, BoundInv, Values
<1>3. CASE Dispatching
  BY <1>3 DEF Dispatching, OnLocate, OnStopped, TypeOK, BoundInv, Values
<1>4. CASE Leaving
  BY <1>4 DEF Leaving, Destroy, ExitSet, ExitWait, ExitWait2, ExitTest, TypeOK,
              BoundInv, Values
<1>5. CASE Join
  BY <1>5 DEF Join, TypeOK, BoundInv, Values
<1>6. CASE Taking
  BY <1>6 DEF Taking, Idle, Signal, Wait, Woken, Take, Begin, Pick, TypeOK,
              BoundInv, Values
<1>7. CASE Executing
  BY <1>7 DEF Executing, Check, OpenPage, OpenPageFails, AcceptFails, Accept,
              Exchange, Disconnect, Delete, TypeOK, BoundInv, Values
<1>8. ASSUME NEW t \in Thread, ClosingPipe(t) PROVE Values'
  BY <1>8 DEF ClosingPipe, TestPipe, ClosePipe, NullPipe, AwaitClient, TypeOK,
              BoundInv, Values
<1>9. ASSUME NEW t \in Thread, Freeing(t) PROVE Values'
  BY <1>9 DEF Freeing, TestInited, FreeName, NullName, ReleaseDone, TypeOK,
              BoundInv, Values
<1>10. CASE UNCHANGED scriptVars
  BY <1>10 DEF scriptVars, TypeOK, BoundInv, Values
<1> QED BY StepCases, <1>1, <1>2, <1>3, <1>4, <1>5, <1>6, <1>7, <1>8, <1>9, <1>10

(* Taking a script resets the event, and only the thread between two       *)
(* scripts sets it.                                                        *)
LEMMA IdleKept ==
  ASSUME TypeOK, StateMeansIdle, [Next]_scriptVars
  PROVE  StateMeansIdle'
<1>1. CASE Starting \/ Stopping \/ Leaving
  BY <1>1, UiFrame DEF StateMeansIdle, InRun, InRelease, Releasing
<1>2. CASE Dispatching
  BY <1>2 DEF Dispatching, OnLocate, OnStopped, TypeOK, StateMeansIdle, InRun,
              InRelease, Releasing, Labels, UiLabel, ScriptLabel
<1>3. CASE Join
  BY <1>3 DEF Join, TypeOK, StateMeansIdle, InRun, InRelease, Releasing, Labels,
              UiLabel, ScriptLabel
<1>4. CASE Taking
  <2>1. CASE Idle \/ Signal
    BY <2>1 DEF Idle, Signal, TypeOK, StateMeansIdle, InRun, InRelease, Releasing,
                Labels, UiLabel, ScriptLabel
  <2>2. CASE Wait \/ Woken
    BY <2>2 DEF Wait, Woken, TypeOK, StateMeansIdle, InRun, InRelease, Releasing,
                Labels, UiLabel, ScriptLabel
  <2>3. CASE Take
    BY <2>3 DEF Take, TypeOK, StateMeansIdle, InRun, InRelease, Releasing, Labels,
                UiLabel, ScriptLabel
  <2>4. CASE Begin \/ Pick
    BY <2>4 DEF Begin, Pick, TypeOK, StateMeansIdle, InRun, InRelease, Releasing,
                Labels, UiLabel, ScriptLabel
  <2> QED BY <1>4, <2>1, <2>2, <2>3, <2>4 DEF Taking
<1>5. CASE Executing
  BY <1>5 DEF Executing, Check, OpenPage, OpenPageFails, AcceptFails, Accept,
              Exchange, Disconnect, Delete, TypeOK, StateMeansIdle, InRun,
              InRelease, Releasing, Labels, UiLabel, ScriptLabel
<1>6. ASSUME NEW t \in Thread, ClosingPipe(t) PROVE StateMeansIdle'
  <2>1. CASE TestPipe(t)
    BY <2>1 DEF TestPipe, TypeOK, StateMeansIdle, InRun, InRelease, Releasing,
                Labels, UiLabel, ScriptLabel
  <2>2. CASE ClosePipe(t)
    BY <2>2 DEF ClosePipe, TypeOK, StateMeansIdle, InRun, InRelease, Releasing,
                Labels, UiLabel, ScriptLabel
  <2>3. CASE NullPipe(t)
    BY <2>3 DEF NullPipe, TypeOK, StateMeansIdle, InRun, InRelease, Releasing,
                Labels, UiLabel, ScriptLabel
  <2>4. CASE AwaitClient(t)
    BY <2>4 DEF AwaitClient, TypeOK, StateMeansIdle, InRun, InRelease, Releasing,
                Labels, UiLabel, ScriptLabel
  <2> QED BY <1>6, <2>1, <2>2, <2>3, <2>4 DEF ClosingPipe
<1>7. ASSUME NEW t \in Thread, Freeing(t) PROVE StateMeansIdle'
  <2>1. CASE TestInited(t)
    BY <2>1 DEF TestInited, TypeOK, StateMeansIdle, InRun, InRelease, Releasing,
                Labels, UiLabel, ScriptLabel
  <2>2. CASE FreeName(t)
    BY <2>2 DEF FreeName, TypeOK, StateMeansIdle, InRun, InRelease, Releasing,
                Labels, UiLabel, ScriptLabel
  <2>3. CASE NullName(t)
    BY <2>3 DEF NullName, TypeOK, StateMeansIdle, InRun, InRelease, Releasing,
                Labels, UiLabel, ScriptLabel
  <2>4. CASE ReleaseDone(t)
    BY <2>4 DEF ReleaseDone, TypeOK, StateMeansIdle, InRun, InRelease, Releasing,
                Labels, UiLabel, ScriptLabel
  <2> QED BY <1>7, <2>1, <2>2, <2>3, <2>4 DEF Freeing
<1>8. CASE UNCHANGED scriptVars
  BY <1>8 DEF scriptVars, TypeOK, StateMeansIdle, InRun, InRelease, Labels
<1> QED BY StepCases, <1>1, <1>2, <1>3, <1>4, <1>5, <1>6, <1>7, <1>8

(* A thread that is over stays over. *)
LEMMA HandlesKept ==
  ASSUME TypeOK, HandlesOutliveThread, [Next]_scriptVars
  PROVE  HandlesOutliveThread'
<1>1. CASE Starting
  BY <1>1 DEF Starting, ClickStart, Inserted, SkipInstance, StartWait, StartTest,
              StartLock, StartSet, TypeOK, HandlesOutliveThread, Over, Click,
              Releasing, InRelease, Labels, UiLabel, ScriptLabel
<1>2. CASE Stopping
  BY <1>2 DEF Stopping, ClickStop, StopWait, TypeOK, HandlesOutliveThread, Over,
              Click, Releasing, InRelease, Labels, UiLabel, ScriptLabel
<1>3. CASE Dispatching
  BY <1>3 DEF Dispatching, OnLocate, OnStopped, TypeOK, HandlesOutliveThread, Over,
              Click, Releasing, InRelease, Labels, UiLabel, ScriptLabel
<1>4. CASE Leaving
  BY <1>4 DEF Leaving, Destroy, ExitSet, ExitWait, ExitWait2, ExitTest, TypeOK,
              HandlesOutliveThread, Over, Click, Releasing, InRelease, Labels,
              UiLabel, ScriptLabel
<1>5. CASE Join
  BY <1>5 DEF Join, TypeOK, HandlesOutliveThread, Over, Click, Releasing, InRelease,
              Labels, UiLabel, ScriptLabel
<1>6. CASE Taking
  BY <1>6 DEF Taking, Idle, Signal, Wait, Woken, Take, Begin, Pick, TypeOK,
              HandlesOutliveThread, Over, Click, Releasing, InRelease, Labels,
              UiLabel, ScriptLabel
<1>7. CASE Executing
  BY <1>7 DEF Executing, Check, OpenPage, OpenPageFails, AcceptFails, Accept,
              Exchange, Disconnect, Delete, TypeOK, HandlesOutliveThread, Over,
              Click, Releasing, InRelease, Labels, UiLabel, ScriptLabel
<1>8. ASSUME NEW t \in Thread, ClosingPipe(t) PROVE HandlesOutliveThread'
  BY <1>8 DEF ClosingPipe, TestPipe, ClosePipe, NullPipe, AwaitClient, TypeOK,
              HandlesOutliveThread, Over, Click, Releasing, InRelease, Labels,
              UiLabel, ScriptLabel
<1>9. ASSUME NEW t \in Thread, Freeing(t) PROVE HandlesOutliveThread'
  BY <1>9 DEF Freeing, TestInited, FreeName, NullName, ReleaseDone, TypeOK,
              HandlesOutliveThread, Over, Click, Releasing, InRelease, Labels,
              UiLabel, ScriptLabel
<1>10. CASE UNCHANGED scriptVars
  BY <1>10 DEF scriptVars, TypeOK, HandlesOutliveThread, Over, InRelease, Labels
<1> QED BY StepCases, <1>1, <1>2, <1>3, <1>4, <1>5, <1>6, <1>7, <1>8, <1>9, <1>10

(* Only a script that is taken resets the event. *)
LEMMA SignalKept ==
  ASSUME TypeOK, SignalInv, StateMeansIdle, [Next]_scriptVars
  PROVE  SignalInv'
<1>1. CASE Starting \/ Stopping \/ Leaving
  BY <1>1, UiFrame DEF SignalInv, StateMeansIdle, InRun, InRelease, Releasing, Over
<1>2. CASE Dispatching
  BY <1>2 DEF Dispatching, OnLocate, OnStopped, TypeOK, SignalInv, StateMeansIdle,
              InRun, InRelease, Releasing, Over, Labels, UiLabel, ScriptLabel
<1>3. CASE Join
  BY <1>3 DEF Join, TypeOK, SignalInv, StateMeansIdle, InRun, InRelease, Releasing,
              Over, Labels, UiLabel, ScriptLabel
<1>4. CASE Taking
  BY <1>4 DEF Taking, Idle, Signal, Wait, Woken, Take, Begin, Pick, TypeOK,
              SignalInv, StateMeansIdle, InRun, InRelease, Releasing, Over, Labels,
              UiLabel, ScriptLabel
<1>5. CASE Executing
  BY <1>5 DEF Executing, Check, OpenPage, OpenPageFails, AcceptFails, Accept,
              Exchange, Disconnect, Delete, TypeOK, SignalInv, StateMeansIdle,
              InRun, InRelease, Releasing, Over, Labels, UiLabel, ScriptLabel
<1>6. ASSUME NEW t \in Thread, ClosingPipe(t) PROVE SignalInv'
  BY <1>6 DEF ClosingPipe, TestPipe, ClosePipe, NullPipe, AwaitClient, TypeOK,
              SignalInv, StateMeansIdle, InRun, InRelease, Releasing, Over, Labels,
              UiLabel, ScriptLabel
<1>7. ASSUME NEW t \in Thread, Freeing(t) PROVE SignalInv'
  BY <1>7 DEF Freeing, TestInited, FreeName, NullName, ReleaseDone, TypeOK,
              SignalInv, StateMeansIdle, InRun, InRelease, Releasing, Over, Labels,
              UiLabel, ScriptLabel
<1>8. CASE UNCHANGED scriptVars
  BY <1>8 DEF scriptVars, TypeOK, SignalInv, StateMeansIdle, InRun, InRelease, Over,
              Labels
<1> QED BY StepCases, <1>1, <1>2, <1>3, <1>4, <1>5, <1>6, <1>7, <1>8

(* The window's thread does not come back from exit_html_script_worker. *)
LEMMA ExitKept ==
  ASSUME TypeOK, ExitInv, [Next]_scriptVars
  PROVE  ExitInv'
<1>1. CASE Taking \/ Executing
  BY <1>1, ScriptFrame DEF ExitInv, Exiting, InRelease, Releasing, Flags
<1>2. CASE Starting
  BY <1>2 DEF Starting, ClickStart, Inserted, SkipInstance, StartWait, StartTest,
              StartLock, StartSet, TypeOK, ExitInv, Exiting, Click, InRelease,
              Releasing, Flags, Labels, UiLabel, ScriptLabel
<1>3. CASE Stopping
  BY <1>3 DEF Stopping, ClickStop, StopWait, TypeOK, ExitInv, Exiting, Click,
              InRelease, Releasing, Flags, Labels, UiLabel, ScriptLabel
<1>4. CASE Dispatching
  BY <1>4 DEF Dispatching, OnLocate, OnStopped, TypeOK, ExitInv, Exiting, Click,
              InRelease, Releasing, Flags, Labels, UiLabel, ScriptLabel
<1>5. CASE Leaving
  BY <1>5 DEF Leaving, Destroy, ExitSet, ExitWait, ExitWait2, ExitTest, TypeOK,
              ExitInv, Exiting, Click, InRelease, Releasing, Flags, Labels, UiLabel,
              ScriptLabel
<1>6. CASE Join
  BY <1>6 DEF Join, TypeOK, ExitInv, Exiting, Click, InRelease, Releasing, Flags,
              Labels, UiLabel, ScriptLabel
<1>7. ASSUME NEW t \in Thread, ClosingPipe(t) PROVE ExitInv'
  BY <1>7 DEF ClosingPipe, TestPipe, ClosePipe, NullPipe, AwaitClient, TypeOK,
              ExitInv, Exiting, Click, InRelease, Releasing, Flags, Labels, UiLabel,
              ScriptLabel
<1>8. ASSUME NEW t \in Thread, Freeing(t) PROVE ExitInv'
  BY <1>8 DEF Freeing, TestInited, FreeName, NullName, ReleaseDone, TypeOK, ExitInv,
              Exiting, Click, InRelease, Releasing, Flags, Labels, UiLabel,
              ScriptLabel
<1>9. CASE UNCHANGED scriptVars
  BY <1>9 DEF scriptVars, TypeOK, ExitInv, Exiting, InRelease, Flags, Labels
<1> QED BY StepCases, <1>1, <1>2, <1>3, <1>4, <1>5, <1>6, <1>7, <1>8, <1>9

(* While the window's thread releases the record, the message that would   *)
(* end the script is not handled; and a wait that timed out saw no signal  *)
(* (SignalInv).                                                            *)
LEMMA AbandonKept ==
  ASSUME TypeOK, AbandonInv, SignalInv, [Next]_scriptVars
  PROVE  AbandonInv'
<1>1. CASE Starting
  BY <1>1 DEF Starting, ClickStart, Inserted, SkipInstance, StartWait, StartTest,
              StartLock, StartSet, TypeOK, AbandonInv, SignalInv, Click, Sending,
              Delayed, InRelease, Releasing, Labels, UiLabel, ScriptLabel
<1>2. CASE Stopping
  BY <1>2 DEF Stopping, ClickStop, StopWait, TypeOK, AbandonInv, SignalInv, Click,
              Sending, Delayed, InRelease, Releasing, Labels, UiLabel, ScriptLabel
<1>3. CASE Dispatching
  BY <1>3 DEF Dispatching, OnLocate, OnStopped, TypeOK, AbandonInv, SignalInv,
              Click, Sending, Delayed, InRelease, Releasing, Labels, UiLabel,
              ScriptLabel
<1>4. CASE Leaving
  BY <1>4 DEF Leaving, Destroy, ExitSet, ExitWait, ExitWait2, ExitTest, TypeOK,
              AbandonInv, SignalInv, Click, Sending, Delayed, InRelease, Releasing,
              Labels, UiLabel, ScriptLabel
<1>5. CASE Join
  BY <1>5 DEF Join, TypeOK, AbandonInv, SignalInv, Click, Sending, Delayed,
              InRelease, Releasing, Labels, UiLabel, ScriptLabel
<1>6. CASE Taking
  BY <1>6 DEF Taking, Idle, Signal, Wait, Woken, Take, Begin, Pick, TypeOK,
              AbandonInv, SignalInv, Click, Sending, Delayed, InRelease, Releasing,
              Labels, UiLabel, ScriptLabel
<1>7. CASE Executing
  BY <1>7 DEF Executing, Check, OpenPage, OpenPageFails, AcceptFails, Accept,
              Exchange, Disconnect, Delete, TypeOK, AbandonInv, SignalInv, Click,
              Sending, Delayed, InRelease, Releasing, Labels, UiLabel, ScriptLabel
<1>8. ASSUME NEW t \in Thread, ClosingPipe(t) PROVE AbandonInv'
  BY <1>8 DEF ClosingPipe, TestPipe, ClosePipe, NullPipe, AwaitClient, TypeOK,
              AbandonInv, SignalInv, Click, Sending, Delayed, InRelease, Releasing,
              Labels, UiLabel, ScriptLabel
<1>9. ASSUME NEW t \in Thread, Freeing(t) PROVE AbandonInv'
  BY <1>9 DEF Freeing, TestInited, FreeName, NullName, ReleaseDone, TypeOK,
              AbandonInv, SignalInv, Click, Sending, Delayed, InRelease, Releasing,
              Labels, UiLabel, ScriptLabel
<1>10. CASE UNCHANGED scriptVars
  BY <1>10 DEF scriptVars, TypeOK, AbandonInv, SignalInv, InRelease, Labels
<1> QED BY StepCases, <1>1, <1>2, <1>3, <1>4, <1>5, <1>6, <1>7, <1>8, <1>9, <1>10

(* Before the window is destroyed only the script thread touches the       *)
(* record.                                                                 *)
LEMMA OwnKept ==
  ASSUME TypeOK, OwnInv, ExitInv, CleanInv, [Next]_scriptVars
  PROVE  OwnInv'
<1>1. CASE Starting \/ Stopping
  BY <1>1, UiFrame DEF OwnInv, Owned, Clean, CleanInv, Between, ExitInv, Exiting,
                       InRelease, Releasing
<1>2. CASE Dispatching
  BY <1>2 DEF Dispatching, OnLocate, OnStopped, TypeOK, OwnInv, Owned, Clean,
              CleanInv, Between, ExitInv, Exiting, Click, Sending, InRelease,
              Releasing, Values, Labels, UiLabel, ScriptLabel
<1>3. CASE Leaving
  BY <1>3 DEF Leaving, Destroy, ExitSet, ExitWait, ExitWait2, ExitTest, TypeOK,
              OwnInv, Owned, Clean, CleanInv, Between, ExitInv, Exiting, Click,
              Sending, InRelease, Releasing, Values, Labels, UiLabel, ScriptLabel
<1>4. CASE Join
  BY <1>4 DEF Join, TypeOK, OwnInv, Owned, Clean, CleanInv, Between, ExitInv,
              Exiting, Click, Sending, InRelease, Releasing, Values, Labels,
              UiLabel, ScriptLabel
<1>5. CASE Taking
  BY <1>5 DEF Taking, Idle, Signal, Wait, Woken, Take, Begin, Pick, TypeOK, OwnInv,
              Owned, Clean, CleanInv, Between, ExitInv, Exiting, Click, Sending,
              InRelease, Releasing, Values, Labels, UiLabel, ScriptLabel
<1>6. CASE Executing
  BY <1>6 DEF Executing, Check, OpenPage, OpenPageFails, AcceptFails, Accept,
              Exchange, Disconnect, Delete, TypeOK, OwnInv, Owned, Clean, CleanInv,
              Between, ExitInv, Exiting, Click, Sending, InRelease, Releasing,
              Values, Labels, UiLabel, ScriptLabel
<1>7. ASSUME NEW t \in Thread, ClosingPipe(t) PROVE OwnInv'
  <2>1. CASE TestPipe(t)
    BY <2>1 DEF TestPipe, TypeOK, OwnInv, Owned, Clean, CleanInv, Between, ExitInv,
                Exiting, Click, Sending, InRelease, Releasing, Values, Labels,
                UiLabel, ScriptLabel
  <2>2. CASE ClosePipe(t)
    BY <2>2 DEF ClosePipe, TypeOK, OwnInv, Owned, Clean, CleanInv, Between, ExitInv,
                Exiting, Click, Sending, InRelease, Releasing, Values, Labels,
                UiLabel, ScriptLabel
  <2>3. CASE NullPipe(t)
    BY <2>3 DEF NullPipe, TypeOK, OwnInv, Owned, Clean, CleanInv, Between, ExitInv,
                Exiting, Click, Sending, InRelease, Releasing, Values, Labels,
                UiLabel, ScriptLabel
  <2>4. CASE AwaitClient(t)
    BY <2>4 DEF AwaitClient, TypeOK, OwnInv, Owned, Clean, CleanInv, Between,
                ExitInv, Exiting, Click, Sending, InRelease, Releasing, Values,
                Labels, UiLabel, ScriptLabel
  <2> QED BY <1>7, <2>1, <2>2, <2>3, <2>4 DEF ClosingPipe
<1>8. ASSUME NEW t \in Thread, Freeing(t) PROVE OwnInv'
  <2>1. CASE TestInited(t)
    BY <2>1 DEF TestInited, TypeOK, OwnInv, Owned, Clean, CleanInv, Between,
                ExitInv, Exiting, Click, Sending, InRelease, Releasing, Values,
                Labels, UiLabel, ScriptLabel
  <2>2. CASE FreeName(t)
    BY <2>2 DEF FreeName, TypeOK, OwnInv, Owned, Clean, CleanInv, Between, ExitInv,
                Exiting, Click, Sending, InRelease, Releasing, Values, Labels,
                UiLabel, ScriptLabel
  <2>3. CASE NullName(t)
    BY <2>3 DEF NullName, TypeOK, OwnInv, Owned, Clean, CleanInv, Between, ExitInv,
                Exiting, Click, Sending, InRelease, Releasing, Values, Labels,
                UiLabel, ScriptLabel
  <2>4. CASE ReleaseDone(t)
    BY <2>4 DEF ReleaseDone, TypeOK, OwnInv, Owned, Clean, CleanInv, Between,
                ExitInv, Exiting, Click, Sending, InRelease, Releasing, Values,
                Labels, UiLabel, ScriptLabel
  <2> QED BY <1>8, <2>1, <2>2, <2>3, <2>4 DEF Freeing
<1>9. CASE UNCHANGED scriptVars
  BY <1>9 DEF scriptVars, TypeOK, OwnInv, Owned, Clean, CleanInv, Between, ExitInv,
              Exiting, InRelease, Values, Labels
<1> QED BY StepCases, <1>1, <1>2, <1>3, <1>4, <1>5, <1>6, <1>7, <1>8, <1>9

(* The record is empty when a script is over (OwnInv), and stays so until  *)
(* the next one opens a page.                                              *)
LEMMA CleanKept ==
  ASSUME TypeOK, CleanInv, OwnInv, ExitInv, AbandonInv, [Next]_scriptVars
  PROVE  CleanInv'
<1>1. CASE Starting \/ Stopping \/ Leaving
  BY <1>1, UiFrame DEF OwnInv, Owned, Clean, CleanInv, Between, AbandonInv, ExitInv,
                       Exiting, InRelease, Releasing
<1>2. CASE Dispatching
  BY <1>2 DEF Dispatching, OnLocate, OnStopped, TypeOK, OwnInv, Owned, Clean,
              CleanInv, Between, AbandonInv, ExitInv, Exiting, InRelease, Releasing,
              Values, Labels, UiLabel, ScriptLabel
<1>3. CASE Join
  BY <1>3 DEF Join, TypeOK, OwnInv, Owned, Clean, CleanInv, Between, AbandonInv,
              ExitInv, Exiting, InRelease, Releasing, Values, Labels, UiLabel,
              ScriptLabel
<1>4. CASE Taking
  BY <1>4 DEF Taking, Idle, Signal, Wait, Woken, Take, Begin, Pick, TypeOK, OwnInv,
              Owned, Clean, CleanInv, Between, AbandonInv, ExitInv, Exiting,
              InRelease, Releasing, Values, Labels, UiLabel, ScriptLabel
<1>5. CASE Executing
  BY <1>5 DEF Executing, Check, OpenPage, OpenPageFails, AcceptFails, Accept,
              Exchange, Disconnect, Delete, TypeOK, OwnInv, Owned, Clean, CleanInv,
              Between, AbandonInv, ExitInv, Exiting, InRelease, Releasing, Values,
              Labels, UiLabel, ScriptLabel
<1>6. ASSUME NEW t \in Thread, ClosingPipe(t) PROVE CleanInv'
  BY <1>6 DEF ClosingPipe, TestPipe, ClosePipe, NullPipe, AwaitClient, TypeOK,
              OwnInv, Owned, Clean, CleanInv, Between, AbandonInv, ExitInv, Exiting,
              InRelease, Releasing, Values, Labels, UiLabel, ScriptLabel
<1>7. ASSUME NEW t \in Thread, Freeing(t) PROVE CleanInv'
  BY <1>7 DEF Freeing, TestInited, FreeName, NullName, ReleaseDone, TypeOK, OwnInv,
              Owned, Clean, CleanInv, Between, AbandonInv, ExitInv, Exiting,
              InRelease, Releasing, Values, Labels, UiLabel, ScriptLabel
<1>8. CASE UNCHANGED scriptVars
  BY <1>8 DEF scriptVars, TypeOK, OwnInv, Owned, Clean, CleanInv, Between,
              AbandonInv, ExitInv, Exiting, InRelease, Values, Labels
<1> QED BY StepCases, <1>1, <1>2, <1>3, <1>4, <1>5, <1>6, <1>7, <1>8

-----------------------------------------------------------------------------
(* The inductive invariant.                                                *)
WorkerInv ==
  /\ TypeOK /\ BoundInv /\ StateMeansIdle /\ HandlesOutliveThread
  /\ SignalInv /\ ExitInv /\ AbandonInv /\ OwnInv /\ CleanInv

LEMMA InitWorkerInv == Init => WorkerInv
<1> SUFFICES ASSUME Init PROVE WorkerInv
  OBVIOUS
<1> USE DEF Init
<1>1. Labels
  BY DEF Labels, UiLabel, ScriptLabel, InRelease, Releasing
<1>2. Flags
  BY Zenon DEF Flags
<1>3. Values
  BY ScriptWorkerAssumption DEF Values
<1>4. BoundInv /\ StateMeansIdle /\ HandlesOutliveThread /\ SignalInv
  BY DEF BoundInv, StateMeansIdle, HandlesOutliveThread, SignalInv, InRelease, Releasing
<1>5. ExitInv /\ AbandonInv
  BY DEF ExitInv, Exiting, AbandonInv, InRelease, Releasing
<1>6. OwnInv /\ CleanInv
  BY DEF OwnInv, Owned, Clean, CleanInv
<1> QED BY <1>1, <1>2, <1>3, <1>4, <1>5, <1>6 DEF WorkerInv, TypeOK

LEMMA WorkerStep == WorkerInv /\ [Next]_scriptVars => WorkerInv'
<1> SUFFICES ASSUME WorkerInv, [Next]_scriptVars PROVE WorkerInv'
  OBVIOUS
<1> USE DEF WorkerInv
<1>1. Labels' /\ Flags' /\ Values'
  BY LabelsKept, FlagsKept, ValuesKept
<1>2. BoundInv' /\ StateMeansIdle' /\ HandlesOutliveThread'
  BY BoundKept, IdleKept, HandlesKept
<1>3. SignalInv' /\ ExitInv' /\ AbandonInv'
  BY SignalKept, ExitKept, AbandonKept
<1>4. OwnInv' /\ CleanInv'
  BY OwnKept, CleanKept
<1> QED BY <1>1, <1>2, <1>3, <1>4 DEF TypeOK

LEMMA WorkerInvariant == Spec => []WorkerInv
BY InitWorkerInv, WorkerStep, PTL DEF Spec

-----------------------------------------------------------------------------
(* Both threads of the script worker stay at their labels and its fields   *)
(* keep their types (create, start, stop and exit_html_script_worker and   *)
(* the thread).                                                            *)
THEOREM ScriptTyping == Spec => []TypeOK
<1>1. WorkerInv => TypeOK
  BY DEF WorkerInv
<1> QED BY <1>1, WorkerInvariant, PTL

(* No script is being run while state_notifier is signalled, which is what *)
(* start, stop and exit wait for.                                          *)
THEOREM SignalMeansIdle == Spec => []StateMeansIdle
<1>1. WorkerInv => StateMeansIdle
  BY DEF WorkerInv
<1> QED BY <1>1, WorkerInvariant, PTL

(* exit_html_script_worker closes the events and deletes the lock of a     *)
(* thread that is over.                                                    *)
THEOREM HandlesSafe == Spec => []HandlesOutliveThread
<1>1. WorkerInv => HandlesOutliveThread
  BY DEF WorkerInv
<1> QED BY <1>1, WorkerInvariant, PTL

(* Until the window is destroyed close_server_named_pipe and               *)
(* uninit_pipe_point close and free what the record owns, once.            *)
THEOREM ReleaseOnce == Spec => []ReleasedOnce
<1>1. WorkerInv => ReleasedOnce
  BY DEF WorkerInv, TypeOK, Flags, OwnInv, Owned, ReleasedOnce
<1> QED BY <1>1, WorkerInvariant, PTL

(* release_all_web_browser_processes never runs while the window's thread  *)
(* is in disconnect_all_web_browser_processes.                             *)
THEOREM DeleteAlone == Spec => []DeletedAlone
<1>1. WorkerInv => DeletedAlone
  BY DEF WorkerInv, AbandonInv, DeletedAlone, InRelease, Releasing
<1> QED BY <1>1, WorkerInvariant, PTL

(* Every script finds the record of the browser released. *)
THEOREM StartsClean == Spec => []CleanStart
<1>1. WorkerInv => CleanStart
  BY DEF WorkerInv, CleanInv, Between, Clean, CleanStart
<1> QED BY <1>1, WorkerInvariant, PTL
=============================================================================
