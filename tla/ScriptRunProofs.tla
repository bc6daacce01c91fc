-------------------------- MODULE ScriptRunProofs --------------------------
(***************************************************************************)
(* Safety properties of a run, proved for every set of scripts and lists   *)
(* of links, every limit and any number of processes that die.             *)
(***************************************************************************)
EXTENDS ScriptRun, ActionNavigationProofs

USE DEF Goto, Step, walk

(* Where the thread has yet to send the action, has sent it, and has the   *)
(* outcome of sending it.                                                  *)
Before == {"enter", "enterSkip", "top", "open", "accept", "connected", "request", "write"}
Sent   == {"written", "answer", "analyse"}
After  == {"verdict", "after", "closing", "retry"}

(* There is an action wherever one is needed, and only a "script" action   *)
(* skips one.                                                              *)
ActionInv ==
  /\ pc \in {"open", "accept", "connected", "request", "write", "written", "answer",
             "analyse", "ask", "next", "walk", "skip", "enterSkip"} => action # NoAction
  /\ pc = "skip" => next # NoAction
  /\ pc \in {"skip", "enterSkip"} => HasLocal(root)

(* While the run goes on, an action is sent at most once more than         *)
(* retry_count says, and counted before it is sent again.                  *)
CountInv ==
  ~stop_work /\ action # NoAction =>
    /\ pc \in Before => sent <= retry_count /\ retry_count <= MaxRetry + 1
    /\ pc \in Sent => sent <= retry_count + 1 /\ retry_count <= MaxRetry + 1
    /\ pc \in {"ask", "next", "walk", "skip"} \cup After => sent <= retry_count + 1
    /\ pc \in After /\ ret = "ok" => sent <= retry_count /\ retry_count <= MaxRetry + 1

(* The parts of TypeOK. *)
ThreadOK ==
  /\ root \in Scripts
  /\ pc \in Label /\ ret \in {"ok", "error", "io"}
  /\ need_close \in BOOLEAN /\ stop_work \in BOOLEAN
  /\ action \in Actions(root) \cup {NoAction} /\ browser \in Pages(root)
  /\ next \in Actions(root) \cup {NoAction} /\ relation \in Relation
  /\ retry_count \in 0 .. MaxRetry + 2 /\ sent \in Nat /\ crashes \in 0 .. MaxCrashes

RecOK    == rec \in [Pages(root) -> Record]
ClientOK == client \in [Pages(root) -> Process]

HistoryOK ==
  /\ outputs \in [Actions(root) -> Seq(Link)] /\ found \in [Actions(root) -> Seq(Link)]
  /\ visited \in [Actions(root) -> Seq(Link)]
  /\ saved \in [Actions(root) -> SUBSET (Link \cup {NoUrl})]

Typed == ThreadOK /\ RecOK /\ ClientOK /\ HistoryOK

LEMMA TypeParts == TypeOK <=> Typed
BY DEF TypeOK, Typed, ThreadOK, RecOK, ClientOK, HistoryOK

(* What the assumptions say of the script that is run. *)
LEMMA ScriptFacts ==
  ASSUME root \in Scripts
  PROVE  /\ WellFormed(root)
         /\ Pages(root) \subseteq {Top} \cup Actions(root) /\ Top \in Pages(root)
         /\ Actions(root) \subseteq Nat /\ NoAction \notin Actions(root)
         /\ \A a \in Actions(root) : root.page[a] \in Pages(root)
<1>1. WellFormed(root)
  BY ScriptRunAssumption
<1> QED BY <1>1 DEF WellFormed, Pages, Top, NoAction

LEMMA LinkFacts ==
  /\ \A l \in Lists \cup {<<>>} : l \in Seq(Link)
  /\ Link \subseteq Url /\ {"located", "blank", "clicked", "home"} \subseteq Url
  /\ \A s \in Seq(Link) : s # <<>> => Head(s) \in Link /\ Tail(s) \in Seq(Link)
<1>1. ASSUME NEW l \in Lists \cup {<<>>} PROVE l \in Seq(Link)
  <2>1. CASE l \in Lists
    BY <2>1, ScriptRunAssumption
  <2>2. CASE l = <<>>
    BY <2>2
  <2> QED BY <2>1, <2>2
<1>2. \A s \in Seq(Link) : s # <<>> => Head(s) \in Link /\ Tail(s) \in Seq(Link)
  OBVIOUS
<1> QED BY <1>1, <1>2 DEF Url, Home

-----------------------------------------------------------------------------
(* Updates of a record and of a process. *)

LEMMA LocatedOK ==
  ASSUME NEW r \in Record, NEW c \in Process
  PROVE  Located(r, c) \in Record
BY DEF Located, Record, Process

LEMMA MoveClient ==
  ASSUME ClientOK, root' = root, NEW p \in Pages(root), NEW at \in At,
         client' = [client EXCEPT ![p].at = at]
  PROVE  ClientOK'
<1>1. [client[p] EXCEPT !.at = at] \in Process
  BY DEF ClientOK, Process
<1>2. Process' = Process /\ Pages(root)' = Pages(root)
  BY DEF Process
<1> QED BY <1>1, <1>2 DEF ClientOK

LEMMA SetClient ==
  ASSUME ClientOK, root' = root, NEW p \in Pages(root), NEW c \in Process,
         client' = [client EXCEPT ![p] = c]
  PROVE  ClientOK'
<1>1. Process' = Process /\ Pages(root)' = Pages(root)
  BY DEF Process
<1> QED BY <1>1 DEF ClientOK

LEMMA SetRec ==
  ASSUME RecOK, root' = root, NEW p, NEW r \in Record, rec' = [rec EXCEPT ![p] = r]
  PROVE  RecOK'
BY DEF RecOK, Record

LEMMA ReleaseOK ==
  ASSUME RecOK, NEW p \in Pages(root), NEW from, NEW to, Release(p, from, to)
  PROVE  RecOK'
<1>1. [rec[p] EXCEPT !.inited = FALSE, !.current_url = NoUrl] \in Record
  BY DEF RecOK, Record
<1>2. rec' = [rec EXCEPT ![p] = [rec[p] EXCEPT !.inited = FALSE, !.current_url = NoUrl]]
  BY DEF Release, RecOK
<1> QED BY <1>1, <1>2, SetRec DEF Release

LEMMA RelocatedOK ==
  ASSUME Typed, NEW a \in Actions(root)
  PROVE  Relocated(a, NextAction(root, outputs, a)) \in [Pages(root) -> Record]
<1> DEFINE n == NextAction(root, outputs, a)
<1>1. n.source # NoAction => Head(outputs[n.source]) \in Link
  <2>1. n.source # NoAction => n.source \in Actions(root) /\ outputs[n.source] # <<>>
    BY NextActionIn, ScriptFacts DEF Typed, ThreadOK
  <2> QED BY <2>1, LinkFacts DEF Typed, HistoryOK
<1> HIDE DEF n
<1>2. ASSUME NEW f \in [Pages(root) -> Record], NEW p, NEW u \in Url \cup {NoUrl}
      PROVE  [f EXCEPT ![p].locate_url = u] \in [Pages(root) -> Record]
  <2>1. \A r \in Record : [r EXCEPT !.locate_url = u] \in Record
    BY DEF Record
  <2> QED BY <2>1
<1>3. rec \in [Pages(root) -> Record]
  BY DEF Typed, RecOK
<1> DEFINE opened ==
      IF n.source # NoAction
        THEN [rec EXCEPT ![n.source].locate_url = Head(outputs[n.source])]
        ELSE IF n.relation = "none" /\ root.page[a] # Top
               THEN [rec EXCEPT ![root.page[a]].locate_url = NoUrl]
               ELSE rec
<1>4. opened \in [Pages(root) -> Record]
  <2>1. CASE n.source # NoAction
    BY <1>1, <1>2, <1>3, <2>1, LinkFacts
  <2>2. CASE n.source = NoAction
    BY <1>2, <1>3, <2>2
  <2> QED BY <2>1, <2>2
<1>5. Relocated(a, n) = IF n.next # NoAction /\ root.kind[n.next] = "locate"
                       THEN [opened EXCEPT ![root.page[n.next]].locate_url = "located"]
                       ELSE opened
  BY DEF Relocated
<1> HIDE DEF opened
<1>6. [opened EXCEPT ![root.page[n.next]].locate_url = "located"] \in [Pages(root) -> Record]
  BY <1>2, <1>4, LinkFacts
<1> QED BY <1>4, <1>5, <1>6 DEF n

LEMMA FollowedOK ==
  ASSUME Typed, NEW a \in Actions(root)
  PROVE  Followed(NextAction(root, outputs, a)) \in [Actions(root) -> Seq(Link)]
<1> DEFINE n == NextAction(root, outputs, a)
<1>1. n.source # NoAction => n.source \in Actions(root) /\ outputs[n.source] # <<>>
  BY NextActionIn, ScriptFacts DEF Typed, ThreadOK
<1> HIDE DEF n
<1>2. CASE n.source = NoAction
  BY <1>2 DEF Followed, Typed, HistoryOK, n
<1>3. CASE n.source # NoAction
  <2>1. Tail(outputs[n.source]) \in Seq(Link)
    BY <1>1, <1>3, LinkFacts DEF Typed, HistoryOK
  <2>2. Followed(n) = [outputs EXCEPT ![n.source] = Tail(@)]
    BY <1>3 DEF Followed
  <2> QED BY <1>1, <1>3, <2>1, <2>2 DEF Typed, HistoryOK, n
<1> QED BY <1>2, <1>3

(* What a call of get_next_html_element_action leaves behind.              *)
LEMMA TurnOK ==
  ASSUME Typed, root' = root, NEW a \in Actions(root),
         Turn(a, NextAction(root, outputs, a))
  PROVE  /\ RecOK' /\ outputs' \in [Actions(root) -> Seq(Link)]
         /\ ret' \in {"ok", "error"} /\ relation' \in Relation
         /\ NextAction(root, outputs, a).next \in Actions(root) \cup {NoAction}
<1> DEFINE n == NextAction(root, outputs, a)
<1>1. /\ n.ret \in {"ok", "error"} /\ n.relation \in Relation
      /\ n.next \in Actions(root) \cup {NoAction}
  BY NextActionIn, ScriptFacts DEF Typed, ThreadOK
<1>2. Relocated(a, n) \in [Pages(root) -> Record]
  BY RelocatedOK
<1>3. Followed(n) \in [Actions(root) -> Seq(Link)]
  BY FollowedOK
<1> HIDE DEF n
<1>4. Turn(a, n)
  BY DEF n
<1>5. Record' = Record /\ Pages(root)' = Pages(root)
  BY DEF Record
<1> QED BY <1>1, <1>2, <1>3, <1>4, <1>5 DEF Turn, RecOK, n

-----------------------------------------------------------------------------
(* The steps, in groups: the "script" actions at the beginning; a page is  *)
(* opened, an action exchanged, its answer analysed, the next action       *)
(* searched and found, the exchange and the run ended; and what happens    *)
(* elsewhere.                                                              *)
Beginning == EnterLocal \/ EnterSkip
Opening ==
  \/ Enter \/ Begin \/ StartBrowser \/ StartFails \/ UseBrowser \/ NoBrowser \/ Accept
Exchanging == Connected \/ ReadRequest \/ WriteAction \/ Written \/ ReadAnswer
Analysing  ==
  \/ AnalyseAnswer \/ AnalyseError \/ AnalyseStopped \/ AskContinue \/ AskGiveUp
Walking    == Select \/ Local \/ Skip
Selecting  == Land \/ SelectStopped
Ending     ==
  \/ WriteVerdict \/ ClosePipe \/ KeepPipe \/ AwaitEnd \/ Retry \/ Disconnect \/ Disconnected
  \/ Over

(* Every step is one of these, or changes nothing. *)
LEMMA StepCases ==
  ASSUME [Next]_runVars
  PROVE  \/ Beginning \/ Opening \/ Exchanging \/ Analysing \/ Walking \/ Selecting
         \/ Ending
         \/ \E p \in Pages(root) : Act(p) \/ Told(p) \/ Lost(p) \/ Crash(p)
         \/ Stop
         \/ UNCHANGED runVars
BY DEF Next, ScriptThread, Browser, Finished, Beginning, Opening, Exchanging, Analysing,
   Walking, Selecting, Ending

(* Nothing changes the script. *)
LEMMA RootKept ==
  ASSUME [Next]_runVars
  PROVE  root' = root
BY StepCases DEF Beginning, Opening, Exchanging, Analysing, Walking, Selecting, Ending,
   EnterLocal, EnterSkip, Begun, Enter, Begin, StartBrowser, StartFails, UseBrowser,
   NoBrowser, Accept, Connected, ReadRequest,
   WriteAction, Written, ReadAnswer, IoError, AnalyseAnswer, AnalyseError, AnalyseStopped,
   AskContinue, AskGiveUp, Select, Local, Skip, Land, SelectStopped, WriteVerdict, ClosePipe,
   KeepPipe, AwaitEnd, Retry, Disconnect, Disconnected, Over, Release, Released, Act, Told,
   Lost, Client, Crash, Stop, runVars

(* What a step of the search changes.                                      *)
From == IF pc = "next" THEN action ELSE next

LEMMA WalkStep ==
  ASSUME Typed, ActionInv, Walking
  PROVE  /\ pc \in {"next", "walk", "skip"} /\ pc' \in {"walk", "skip"}
         /\ pc' = "skip" => next' # NoAction /\ IsLocal(next) /\ pc = "walk"
         /\ From \in Actions(root) /\ (pc # "next" => HasLocal(root))
         /\ LET n == NextAction(root, outputs, From)
            IN  Turn(From, n) /\ next' = n.next
         /\ UNCHANGED <<root, action, browser, retry_count, need_close, client, stop_work,
                        crashes, sent, found, visited, saved>>
BY DEF Walking, Select, Local, Skip, Advance, history, From, IsLocal, HasLocal, ActionInv,
   Typed, ThreadOK

(* Every action before the first a browser executes. *)
LEMMA BeginStep ==
  ASSUME Typed, ActionInv, Beginning
  PROVE  /\ pc \in {"enter", "enterSkip"} /\ pc' \in {"enter", "enterSkip"}
         /\ action \in Actions(root) /\ HasLocal(root)
         /\ pc' = "enterSkip" => action' # NoAction
         /\ LET n == NextAction(root, outputs, action)
            IN  Turn(action, n) /\ action' = n.next
         /\ browser' = IF action' = NoAction THEN browser ELSE root.page[action']
         /\ UNCHANGED <<root, next, retry_count, need_close, client, stop_work, crashes,
                        sent, found, visited, saved>>
BY DEF Beginning, EnterLocal, EnterSkip, Begun, history, IsLocal, HasLocal, ActionInv,
   Typed, ThreadOK

(* What goes on elsewhere leaves the thread and the records as they are.   *)
LEMMA Elsewhere ==
  ASSUME NEW p, Act(p) \/ Told(p) \/ Lost(p) \/ Crash(p)
  PROVE  UNCHANGED <<root, walk, pc, action, browser, retry_count, ret, need_close, outputs,
                     rec, stop_work, sent, found, saved>>
<1> USE DEF thread, history
<1>1. CASE Act(p)
  BY <1>1 DEF Act
<1>2. CASE Told(p) \/ Lost(p)
  BY <1>2 DEF Told, Lost, Client
<1>3. CASE Crash(p)
  BY <1>3 DEF Crash
<1> QED BY <1>1, <1>2, <1>3

(* The thread's variables. *)
LEMMA ThreadKept ==
  ASSUME Typed, ActionInv, CountInv, [Next]_runVars
  PROVE  ThreadOK'
<1> USE ScriptFacts, ScriptRunAssumption DEF Typed, ThreadOK, Label, history, thread
<1>1. CASE Opening
  <2>1. CASE Enter \/ Begin \/ UseBrowser \/ Accept
    BY <2>1 DEF Relation, Enter, Begin, UseBrowser, Accept
  <2>2. CASE StartBrowser \/ StartFails \/ NoBrowser
    BY <2>2 DEF StartBrowser, StartFails, NoBrowser
  <2> QED BY <1>1, <2>1, <2>2 DEF Opening
<1>2. CASE Exchanging
  <2>1. CASE WriteAction
    <3>1. CASE IoError("write")
      BY <3>1 DEF IoError
    <3>2. CASE sent' = sent + 1
      BY <2>1, <3>2 DEF WriteAction, IoError
    <3> QED BY <2>1, <3>1, <3>2 DEF WriteAction
  <2>2. CASE Connected \/ ReadRequest \/ Written \/ ReadAnswer
    BY <2>2 DEF Connected, ReadRequest, Written, ReadAnswer, IoError
  <2> QED BY <1>2, <2>1, <2>2 DEF Exchanging
<1>3. CASE Analysing
  BY <1>3 DEF Analysing, AnalyseAnswer, AnalyseError, AnalyseStopped, AskContinue,
     AskGiveUp, ActionInv, CountInv, Sent
<1>4. CASE Selecting
  BY <1>4 DEF Selecting, Land, SelectStopped, Relation
<1>5. CASE Ending
  <2>1. CASE WriteVerdict
    BY <2>1 DEF WriteVerdict, IoError
  <2>2. CASE ClosePipe \/ KeepPipe \/ AwaitEnd \/ Disconnect \/ Disconnected \/ Over
    BY <2>2 DEF ClosePipe, KeepPipe, AwaitEnd, Disconnect, Disconnected, Over, Release,
       Released
  <2>3. CASE Retry
    BY <2>3 DEF Retry
  <2> QED BY <1>5, <2>1, <2>2, <2>3 DEF Ending
<1>6. ASSUME NEW p \in Pages(root), Act(p) \/ Told(p) \/ Lost(p) \/ Crash(p)
      PROVE  ThreadOK'
  <2>1. crashes' \in 0 .. MaxCrashes
    <3>1. \/ crashes' = crashes
          \/ crashes < MaxCrashes /\ crashes' = crashes + 1
      BY <1>6 DEF Act, Told, Lost, Client, Crash
    <3> QED BY <3>1
  <2> QED BY <1>6, <2>1, Elsewhere
<1>7. CASE Stop
  BY <1>7 DEF Stop
<1>8. CASE UNCHANGED runVars
  BY <1>8 DEF runVars
<1>9. CASE Beginning
  <2>1. action' \in Actions(root) \cup {NoAction} /\ ret' \in {"ok", "error"}
           /\ relation' \in Relation
    BY <1>9, BeginStep, TurnOK
  <2> QED BY <1>9, <2>1, BeginStep
<1>10. CASE Walking
  <2>1. next' \in Actions(root) \cup {NoAction} /\ ret' \in {"ok", "error"}
           /\ relation' \in Relation
    BY <1>10, WalkStep, TurnOK
  <2> QED BY <1>10, <2>1, WalkStep
<1> QED
  BY StepCases, <1>1, <1>2, <1>3, <1>4, <1>5, <1>6, <1>7, <1>8, <1>9, <1>10

(* The records of the pages. *)
LEMMA RecKept ==
  ASSUME Typed, ActionInv, [Next]_runVars
  PROVE  RecOK'
<1> USE DEF Typed
<1>1. root' = root
  BY RootKept
<1>2. CASE UNCHANGED rec
  BY <1>1, <1>2 DEF RecOK
<1>3. CASE StartBrowser \/ StartFails
  <2>1. PICK inited \in BOOLEAN :
          rec' = [rec EXCEPT ![browser].inited = inited, ![browser].current_url = NoUrl]
    BY <1>3 DEF StartBrowser, StartFails
  <2> DEFINE r == [rec[browser] EXCEPT !.inited = inited, !.current_url = NoUrl]
  <2>2. r \in Record
    BY DEF RecOK, ThreadOK, Record
  <2>3. rec' = [rec EXCEPT ![browser] = r]
    BY <2>1 DEF RecOK, ThreadOK
  <2> QED BY <1>1, <2>2, <2>3, SetRec
<1>4. CASE AnalyseAnswer
  <2>1. Located(rec[browser], client[browser]) \in Record
    BY LocatedOK DEF RecOK, ClientOK, ThreadOK
  <2>2. rec' = [rec EXCEPT ![browser] = Located(rec[browser], client[browser])]
    BY <1>4 DEF AnalyseAnswer, RecOK, ThreadOK
  <2> QED BY <1>1, <2>1, <2>2, SetRec
<1>5. CASE AnalyseError
  <2>1. PICK u \in Url \cup {NoUrl} : rec' = [rec EXCEPT ![browser].current_url = u]
    BY <1>5 DEF AnalyseError, RecOK, ThreadOK, Record
  <2>2. [rec[browser] EXCEPT !.current_url = u] \in Record
    BY DEF RecOK, ThreadOK, Record
  <2>3. rec' = [rec EXCEPT ![browser] = [rec[browser] EXCEPT !.current_url = u]]
    BY <2>1 DEF RecOK, ThreadOK
  <2> QED BY <1>1, <2>2, <2>3, SetRec
<1>6. CASE Beginning \/ Walking
  BY <1>1, <1>6, BeginStep, WalkStep, TurnOK
<1>7. CASE ClosePipe \/ Disconnect
  BY <1>7, ReleaseOK DEF ClosePipe, Disconnect, ThreadOK
<1> QED
  BY StepCases, <1>2, <1>3, <1>4, <1>5, <1>6, <1>7 DEF Opening, Exchanging, Analysing,
     Selecting, Ending, Enter, Begin, UseBrowser, NoBrowser, Accept, Connected, ReadRequest,
     WriteAction, Written, ReadAnswer, IoError, AnalyseStopped, AskContinue, AskGiveUp,
     Land, SelectStopped, WriteVerdict, KeepPipe, AwaitEnd, Retry, Disconnected, Over, Released,
     Act, Told, Lost, Client, Crash, Stop, runVars

(* The browser processes. *)
LEMMA ClientKept ==
  ASSUME Typed, ActionInv, [Next]_runVars, root' = root
  PROVE  ClientOK'
<1> USE DEF Typed
<1>1. CASE UNCHANGED client
  BY <1>1 DEF ClientOK, Process
<1>11. CASE Beginning \/ Walking
  BY <1>1, <1>11, BeginStep, WalkStep
<1>2. CASE client' = [client EXCEPT ![browser] = [Quiet EXCEPT !.at = "starting"]]
  <2>1. [Quiet EXCEPT !.at = "starting"] \in Process
    BY LinkFacts DEF Quiet, Process, At
  <2> QED BY <1>2, <2>1, SetClient DEF ThreadOK
<1>3. ASSUME NEW p \in Pages(root), NEW at \in At, client' = [client EXCEPT ![p].at = at]
      PROVE  ClientOK'
  BY <1>3, MoveClient
<1>4. CASE WriteAction /\ ~UNCHANGED client
  <2>1. PICK url \in Url \cup {NoUrl} :
          client' = [client EXCEPT ![browser].at = "acting", ![browser].action = action,
                                   ![browser].url = url]
    BY <1>4 DEF WriteAction, UrlSent, Step, IoError, RecOK, ThreadOK, Record
  <2> DEFINE c == [client[browser] EXCEPT !.at = "acting", !.action = action, !.url = url]
  <2>2. c \in Process
    <3>1. /\ client[browser] \in Process /\ "acting" \in At
          /\ action \in Actions(root) \cup {NoAction}
      BY DEF ClientOK, ThreadOK, At
    <3> QED BY <3>1 DEF Process
  <2>3. client' = [client EXCEPT ![browser] = c]
    BY <2>1 DEF ClientOK, ThreadOK
  <2> QED BY <2>2, <2>3, SetClient DEF ThreadOK
<1>5. CASE WriteVerdict /\ ~UNCHANGED client
  <2>1. PICK done \in BOOLEAN :
          client' = [client EXCEPT ![browser].at = "told", ![browser].work_done = done]
    BY <1>5 DEF WriteVerdict, IoError
  <2> DEFINE c == [client[browser] EXCEPT !.at = "told", !.work_done = done]
  <2>2. c \in Process
    BY DEF ClientOK, ThreadOK, Process, At
  <2>3. client' = [client EXCEPT ![browser] = c]
    BY <2>1 DEF ClientOK, ThreadOK
  <2> QED BY <2>2, <2>3, SetClient DEF ThreadOK
<1>6. ASSUME NEW p \in Pages(root), Act(p)
      PROVE  ClientOK'
  <2>1. PICK result \in {"ok", "empty", "none", "error"}, links \in Lists \cup {<<>>},
             page \in Url :
          client' = [client EXCEPT ![p].at = "answer", ![p].page = page,
                                   ![p].result = result, ![p].links = links]
    BY <1>6 DEF Act
  <2> DEFINE c == [client[p] EXCEPT !.at = "answer", !.page = page, !.result = result,
                                    !.links = links]
  <2>2. links \in Seq(Link)
    BY LinkFacts
  <2>3. c \in Process
    <3>1. client[p] \in Process /\ "answer" \in At
      BY DEF ClientOK, At
    <3> QED BY <2>2, <3>1 DEF Process
  <2>4. client' = [client EXCEPT ![p] = c]
    BY <2>1 DEF ClientOK
  <2> QED BY <2>3, <2>4, SetClient
<1>7. CASE StartBrowser \/ StartFails
  BY <1>1, <1>2, <1>7 DEF StartBrowser, StartFails
<1>8. CASE Accept
  BY <1>3, <1>8 DEF Accept, At, ThreadOK
<1>9. CASE AwaitEnd \/ Disconnected
  BY <1>1, <1>3, <1>9 DEF AwaitEnd, Disconnected, Released, Step, At, ThreadOK
<1>10. ASSUME NEW p \in Pages(root), Told(p) \/ Lost(p) \/ Crash(p)
       PROVE  ClientOK'
  <2>1. \E at \in At : client' = [client EXCEPT ![p].at = at]
    BY <1>10 DEF Told, Lost, Client, Crash, At
  <2> QED BY <1>3, <2>1
<1> QED
  BY StepCases, <1>1, <1>4, <1>5, <1>6, <1>7, <1>8, <1>9, <1>10, <1>11 DEF Opening, Exchanging,
     Analysing, Selecting, Ending, Enter, Begin, UseBrowser, NoBrowser, Connected,
     ReadRequest, Written, ReadAnswer, IoError, AnalyseAnswer, AnalyseError, AnalyseStopped,
     AskContinue, AskGiveUp, Land, SelectStopped, ClosePipe, KeepPipe, Retry, Disconnect,
     Over, Release, Stop, runVars

(* What the actions found, and what became of it. *)
LEMMA HistoryKept ==
  ASSUME Typed, ActionInv, [Next]_runVars, root' = root
  PROVE  HistoryOK'
<1> USE DEF Typed
<1>1. CASE UNCHANGED <<outputs, found, visited, saved>>
  BY <1>1 DEF HistoryOK
<1>2. CASE AnalyseAnswer /\ ~UNCHANGED <<outputs, found, visited, saved>>
  <2>1. /\ client[browser].links \in Seq(Link) /\ Listed(client[browser].links) \in Seq(Link)
        /\ outputs' = [outputs EXCEPT ![action] = Listed(client[browser].links)]
        /\ found'   = [found EXCEPT ![action] = client[browser].links]
        /\ visited' = [visited EXCEPT ![action] = <<>>]
        /\ saved'   = [saved EXCEPT ![action] = {}]
    BY <1>2, LinkFacts DEF AnalyseAnswer, ClientOK, ThreadOK, Process, Listed
  <2>2. <<>> \in Seq(Link)
    OBVIOUS
  <2> QED BY <2>1, <2>2 DEF HistoryOK
<1>3. CASE Land
  <2>1. action \in Actions(root)
    BY <1>3 DEF Land, ActionInv, ThreadOK
  <2>2. saved' = Saved /\ UNCHANGED <<outputs, found, visited>>
    BY <1>3 DEF Land
  <2>3. saved' \in [Actions(root) -> SUBSET (Link \cup {NoUrl})]
    <3>1. ASSUME NEW p \in Actions(root)
          PROVE  saved[p] \cup {LastOf(visited, p)} \in SUBSET (Link \cup {NoUrl})
      <4>1. LastOf(visited, p) \in Link \cup {NoUrl}
        <5>1. visited[p] \in Seq(Link)
          BY DEF HistoryOK
        <5> QED BY <5>1 DEF LastOf
      <4> QED BY <4>1 DEF HistoryOK
    <3>2. root.page[action] # Top => root.page[action] \in Actions(root)
      BY <2>1, ScriptFacts DEF ThreadOK, Top, NoAction
    <3> QED BY <2>2, <3>1, <3>2 DEF Saved, HistoryOK
  <2> QED BY <2>2, <2>3 DEF HistoryOK
<1>5. CASE Beginning \/ Walking
  <2>1. outputs' \in [Actions(root) -> Seq(Link)] /\ UNCHANGED <<found, visited, saved>>
    BY <1>5, BeginStep, WalkStep, TurnOK
  <2> QED BY <2>1 DEF HistoryOK
<1>4. ASSUME NEW p \in Pages(root), Act(p)
      PROVE  HistoryOK'
  <2>1. CASE UNCHANGED visited
    BY <1>4, <2>1 DEF Act, HistoryOK
  <2>2. CASE /\ p # Top /\ client[p].url \in Link
             /\ visited' = [visited EXCEPT ![p] = Append(@, client[p].url)]
    <3>1. p \in Actions(root)
      BY <2>2, ScriptFacts DEF ThreadOK
    <3>2. Append(visited[p], client[p].url) \in Seq(Link)
      BY <2>2, <3>1 DEF HistoryOK
    <3> QED BY <1>4, <2>2, <3>1, <3>2 DEF Act, HistoryOK
  <2> QED BY <1>4, <2>1, <2>2 DEF Act
<1> QED
  BY StepCases, <1>1, <1>2, <1>3, <1>4, <1>5 DEF Opening, Exchanging, Analysing, Selecting,
     Ending, Enter, Begin, StartBrowser, StartFails, UseBrowser, NoBrowser, Accept, Connected,
     ReadRequest, WriteAction, Written, ReadAnswer, IoError, AnalyseError, AnalyseStopped,
     AskContinue, AskGiveUp, SelectStopped, WriteVerdict, ClosePipe, KeepPipe, AwaitEnd,
     Retry, Disconnect, Disconnected, Over, Release, Released, Told, Lost, Client, Crash,
     Stop, history, runVars
-----------------------------------------------------------------------------
(* How often an action is sent. *)

LEMMA ActionKept ==
  ASSUME Typed, ActionInv, [Next]_runVars
  PROVE  ActionInv'
<1> USE RootKept DEF ActionInv, HasLocal, Actions, thread
<1>1. CASE Opening
  BY <1>1
    DEF Opening, Enter, Begin, StartBrowser, StartFails, UseBrowser, NoBrowser, Accept
<1>2. CASE Exchanging
  BY <1>2
    DEF Exchanging, Connected, ReadRequest, WriteAction, Written, ReadAnswer, IoError
<1>3. CASE Analysing
  BY <1>3
    DEF Analysing, AnalyseAnswer, AnalyseError, AnalyseStopped, AskContinue, AskGiveUp
<1>4. CASE Selecting
  BY <1>4 DEF Selecting, Land, SelectStopped
<1>5. CASE Ending
  BY <1>5 DEF Ending, WriteVerdict, ClosePipe, KeepPipe, AwaitEnd, Retry, Disconnect,
     Disconnected, Over, Release, Released, IoError
<1>6. ASSUME NEW p \in Pages(root), Act(p) \/ Told(p) \/ Lost(p) \/ Crash(p)
      PROVE  ActionInv'
  BY <1>6, Elsewhere
<1>7. CASE Stop \/ UNCHANGED runVars
  BY <1>7 DEF Stop, runVars
<1>8. CASE Beginning \/ Walking
  <2>1. HasLocal(root)' = HasLocal(root)
    BY RootKept DEF HasLocal, Actions
  <2> QED BY <1>8, <2>1, BeginStep, WalkStep
<1> QED BY StepCases, <1>1, <1>2, <1>3, <1>4, <1>5, <1>6, <1>7, <1>8

LEMMA CountKept ==
  ASSUME Typed, ActionInv, CountInv, [Next]_runVars
  PROVE  CountInv'
<1> USE ScriptRunAssumption
    DEF ActionInv, CountInv, Before, Sent, After, Typed, ThreadOK, thread, history
<1>1. CASE Opening
  BY <1>1
    DEF Opening, Enter, Begin, StartBrowser, StartFails, UseBrowser, NoBrowser, Accept
<1>2. CASE Exchanging
  <2>1. CASE WriteAction
    BY <2>1 DEF WriteAction, IoError
  <2>2. CASE Connected \/ ReadRequest \/ Written \/ ReadAnswer
    BY <2>2 DEF Connected, ReadRequest, Written, ReadAnswer, IoError
  <2> QED BY <1>2, <2>1, <2>2 DEF Exchanging
<1>3. CASE Analysing
  BY <1>3
    DEF Analysing, AnalyseAnswer, AnalyseError, AnalyseStopped, AskContinue, AskGiveUp
<1>4. CASE Selecting
  BY <1>4 DEF Selecting, Land, SelectStopped
<1>5. CASE Ending
  <2>1. CASE Retry
    BY <2>1 DEF Retry
  <2>2. CASE WriteVerdict \/ ClosePipe \/ KeepPipe \/ AwaitEnd
    BY <2>2 DEF WriteVerdict, ClosePipe, KeepPipe, AwaitEnd, Release, Released, IoError
  <2>3. CASE Disconnect \/ Disconnected \/ Over
    BY <2>3 DEF Disconnect, Disconnected, Over, Release, Released
  <2> QED BY <1>5, <2>1, <2>2, <2>3 DEF Ending
<1>6. ASSUME NEW p \in Pages(root), Act(p) \/ Told(p) \/ Lost(p) \/ Crash(p)
      PROVE  CountInv'
  BY <1>6, Elsewhere
<1>7. CASE Stop \/ UNCHANGED runVars
  BY <1>7 DEF Stop, runVars
<1>8. CASE Beginning
  <2>1. action # NoAction
    BY <1>8, BeginStep, ScriptFacts
  <2> QED BY <1>8, <2>1, BeginStep
<1>9. CASE Walking
  BY <1>9, WalkStep
<1> QED BY StepCases, <1>1, <1>2, <1>3, <1>4, <1>5, <1>6, <1>7, <1>8, <1>9

LEMMA BoundKept ==
  ASSUME Typed, CountInv, ActionInv, AttemptsBounded, [Next]_runVars
  PROVE  AttemptsBounded'
<1> USE ScriptRunAssumption DEF AttemptsBounded, thread, history
<1>1. CASE WriteAction
  BY <1>1 DEF WriteAction, IoError, CountInv, ActionInv, Before, Typed, ThreadOK
<1>2. CASE Land
  BY <1>2 DEF Land
<1>3. CASE UNCHANGED sent
  BY <1>3
<1>4. CASE Beginning \/ Walking
  BY <1>3, <1>4, BeginStep, WalkStep
<1> QED
  BY StepCases, <1>1, <1>2, <1>3, <1>4 DEF Opening, Exchanging, Analysing, Selecting, Ending,
     Enter, Begin, StartBrowser, StartFails, UseBrowser, NoBrowser, Accept, Connected,
     ReadRequest, Written, ReadAnswer, IoError, AnalyseAnswer, AnalyseError,
     AnalyseStopped, AskContinue, AskGiveUp, SelectStopped, WriteVerdict, ClosePipe,
     KeepPipe, AwaitEnd, Retry, Disconnect, Disconnected, Over, Release, Released, Act,
     Told, Lost, Client, Crash, Stop, runVars

-----------------------------------------------------------------------------
(* One browser at a time.  A script goes on to the pages behind the one it *)
(* is on and never back, so whatever page it may turn to has no browser.   *)

(* No browser process is ahead of the thread, and at first there is none.  *)
AheadInv ==
  pc \notin {"end", "leaving", "over"} =>
    \A p \in Pages(root) : p > browser \/ pc \in {"enter", "enterSkip"} => Gone(p)

(* The next action is on the page in use, or, once found, ahead of it.     *)
PageInv ==
  /\ action # NoAction =>
       /\ pc \in Before \cup Sent \cup {"ask", "next", "walk", "skip"} =>
            browser = root.page[action]
       /\ pc \in After => browser <= root.page[action]
  /\ pc \in {"walk", "skip"} /\ next # NoAction =>
       /\ ret = "ok" => browser <= root.page[next]
       /\ HasLocal(root) => ret = "ok"

(* A page that is to be opened anew has lost its browser when the thread   *)
(* gets round to it.                                                       *)
ReadyInv ==
  ~stop_work /\ action # NoAction /\ InNewPage(browser) =>
    /\ pc \in {"top", "retry"} => Gone(browser)
    /\ pc = "after" => need_close \/ Gone(browser)

(* Only the thread makes a browser process, and only for the page in use.  *)
LEMMA GoneKept ==
  ASSUME Typed, ActionInv, [Next]_runVars, NEW p \in Pages(root), Gone(p),
         p = browser => ~(StartBrowser \/ StartFails)
  PROVE  Gone(p)'
<1> USE DEF Typed, ClientOK, Gone
<1>1. CASE UNCHANGED client
  BY <1>1
<1>8. CASE Beginning \/ Walking
  BY <1>1, <1>8, BeginStep, WalkStep
<1>2. CASE StartBrowser \/ StartFails
  <2>1. p # browser
    BY <1>2
  <2> QED BY <1>2, <2>1 DEF StartBrowser, StartFails
<1>3. CASE Accept
  BY <1>3 DEF Accept
<1>4. CASE WriteAction
  BY <1>4 DEF WriteAction, Step, IoError
<1>5. CASE WriteVerdict
  BY <1>5 DEF WriteVerdict, IoError
<1>6. CASE AwaitEnd \/ Disconnected
  BY <1>6 DEF AwaitEnd, Disconnected, Released, PipeConnected, Step
<1>7. ASSUME NEW q \in Pages(root), Act(q) \/ Told(q) \/ Lost(q) \/ Crash(q)
      PROVE  Gone(p)'
  <2>1. CASE q = p
    <3>1. CASE Act(q)
      BY <2>1, <3>1 DEF Act
    <3>2. CASE Told(q)
      BY <2>1, <3>2 DEF Told
    <3>3. CASE Lost(q)
      BY <2>1, <3>3 DEF Lost
    <3>4. CASE Crash(q)
      BY <2>1, <3>4 DEF Crash
    <3> QED BY <1>7, <3>1, <3>2, <3>3, <3>4
  <2>2. CASE q # p
    <3>1. client'[p] = client[p]
      BY <1>7, <2>2 DEF Act, Told, Lost, Client, Crash
    <3> QED BY <3>1
  <2> QED BY <2>1, <2>2
<1> QED
  BY StepCases, <1>1, <1>2, <1>3, <1>4, <1>5, <1>6, <1>7, <1>8 DEF Opening, Exchanging,
     Analysing, Selecting, Ending, Enter, Begin, UseBrowser, NoBrowser, Connected,
     ReadRequest, Written, ReadAnswer, IoError, AnalyseAnswer, AnalyseError,
     AnalyseStopped, AskContinue, AskGiveUp, Land, SelectStopped, ClosePipe, KeepPipe,
     Retry, Disconnect, Over, Release, Stop, runVars

(* The page in use. *)
LEMMA BrowserMoves ==
  ASSUME Typed, ActionInv, PageInv, [Next]_runVars
  PROVE  \/ browser' = browser
         \/ pc' = "leaving"
         \/ Beginning
         \/ /\ Retry
            /\ action' # NoAction /\ browser' = root.page[action'] /\ browser' >= browser
<1>1. CASE UNCHANGED browser
  BY <1>1
<1>4. CASE Walking
  BY <1>1, <1>4, WalkStep
<1>2. CASE ClosePipe \/ Disconnect
  BY <1>2 DEF ClosePipe, Disconnect, Release
<1>3. CASE Retry
  BY <1>3 DEF Retry, PageInv, After
<1> QED
  BY StepCases, <1>1, <1>2, <1>3, <1>4 DEF Opening, Exchanging, Analysing, Selecting, Ending,
     Enter, Begin, StartBrowser, StartFails, UseBrowser, NoBrowser, Accept, Connected,
     ReadRequest, WriteAction, Written, ReadAnswer, IoError, AnalyseAnswer, AnalyseError,
     AnalyseStopped, AskContinue, AskGiveUp, Land, SelectStopped, WriteVerdict, KeepPipe,
     AwaitEnd, Disconnected, Over, Released, Act, Told, Lost, Client, Crash, Stop, thread,
     runVars

LEMMA PageNumbers ==
  ASSUME root \in Scripts
  PROVE  Pages(root) \subseteq Nat
BY ScriptFacts DEF Top

(* A process that has yet to connect is waited for, or the run is over. *)
StartInv ==
  action # NoAction /\ pc \notin {"end", "leaving", "over"}
    /\ client[browser].at = "starting" => pc = "accept"

(* A run neither begins again nor goes on once it has ended.               *)
LEMMA Onward ==
  ASSUME Typed, ActionInv, [Next]_runVars
  PROVE  /\ pc \in {"end", "leaving", "over"} => pc' \in {"end", "leaving", "over"}
         /\ pc' \in {"enter", "enterSkip"} => pc \in {"enter", "enterSkip"}
<1>1. CASE Beginning \/ Walking
  BY <1>1, BeginStep, WalkStep
<1>2. CASE Opening
  BY <1>2 DEF Opening, Enter, Begin, StartBrowser, StartFails, UseBrowser, NoBrowser, Accept
<1>3. CASE Exchanging
  BY <1>3
    DEF Exchanging, Connected, ReadRequest, WriteAction, Written, ReadAnswer, IoError
<1>4. CASE Analysing \/ Selecting
  BY <1>4 DEF Analysing, AnalyseAnswer, AnalyseError, AnalyseStopped, AskContinue,
     AskGiveUp, Selecting, Land, SelectStopped
<1>5. CASE Ending
  BY <1>5 DEF Ending, WriteVerdict, ClosePipe, KeepPipe, AwaitEnd, Retry, Disconnect,
     Disconnected, Over, Release, Released, IoError
<1>6. ASSUME NEW p \in Pages(root), Act(p) \/ Told(p) \/ Lost(p) \/ Crash(p)
      PROVE  pc' = pc
  BY <1>6, Elsewhere
<1>7. CASE Stop \/ UNCHANGED runVars
  BY <1>7 DEF Stop, thread, runVars
<1> QED BY StepCases, <1>1, <1>2, <1>3, <1>4, <1>5, <1>6, <1>7

LEMMA AheadKept ==
  ASSUME Typed, ActionInv, PageInv, AheadInv, [Next]_runVars
  PROVE  AheadInv'
<1> SUFFICES ASSUME pc' \notin {"end", "leaving", "over"}, NEW p \in Pages(root),
                    p > browser' \/ pc' \in {"enter", "enterSkip"}
             PROVE  Gone(p)'
  BY RootKept DEF AheadInv
<1>1. CASE pc \in {"enter", "enterSkip"}
  <2>1. Gone(p)
    BY <1>1 DEF AheadInv
  <2>2. ~(StartBrowser \/ StartFails)
    BY <1>1 DEF StartBrowser, StartFails
  <2> QED BY <2>1, <2>2, GoneKept
<1>2. CASE pc \notin {"enter", "enterSkip"}
  <2>1. pc \notin {"end", "leaving", "over"} /\ pc' \notin {"enter", "enterSkip"}
    BY <1>2, Onward
  <2>2. browser' >= browser /\ browser \in Nat /\ browser' \in Nat /\ p \in Nat
    <3>1. browser' \in Pages(root)
      <4>1. CASE Retry
        BY <4>1, ScriptFacts DEF Retry, Typed, ThreadOK
      <4>2. CASE browser' = browser
        BY <4>2 DEF Typed, ThreadOK
      <4> QED BY <1>2, <4>1, <4>2, BrowserMoves, BeginStep
    <3>2. browser \in Nat /\ browser' \in Nat /\ p \in Nat
      BY <3>1, PageNumbers DEF Typed, ThreadOK
    <3> QED BY <1>2, <3>2, BrowserMoves, BeginStep
  <2>3. p > browser
    BY <2>1, <2>2
  <2>4. Gone(p) /\ p # browser
    BY <1>2, <2>1, <2>2, <2>3 DEF AheadInv
  <2> QED BY <2>4, GoneKept
<1> QED BY <1>1, <1>2

LEMMA PageKept ==
  ASSUME Typed, ActionInv, PageInv, [Next]_runVars
  PROVE  PageInv'
<1> USE RootKept DEF PageInv, Before, Sent, After, thread
<1>0. browser <= browser
  <2>1. browser \in Nat
    BY PageNumbers DEF Typed, ThreadOK
  <2> QED BY <2>1
<1>1. CASE Opening
  BY <1>0, <1>1
    DEF Opening, Enter, Begin, StartBrowser, StartFails, UseBrowser, NoBrowser, Accept
<1>2. CASE Exchanging
  BY <1>0, <1>2
    DEF Exchanging, Connected, ReadRequest, WriteAction, Written, ReadAnswer, IoError
<1>3. CASE Analysing
  BY <1>0, <1>3 DEF Analysing, AnalyseAnswer, AnalyseError, AnalyseStopped, AskContinue,
     AskGiveUp
<1>4. CASE Selecting
  <2>1. action # NoAction => browser = root.page[action]
    BY <1>4 DEF Selecting, Land, SelectStopped
  <2>2. CASE Land
    BY <1>0, <2>1, <2>2 DEF Land
  <2>3. CASE SelectStopped
    BY <1>0, <2>1, <2>3 DEF SelectStopped
  <2> QED BY <1>4, <2>2, <2>3 DEF Selecting
<1>5. CASE Ending
  <2>1. CASE Retry
    BY <2>1 DEF Retry
  <2>2. CASE WriteVerdict \/ ClosePipe \/ KeepPipe \/ AwaitEnd
    BY <2>2 DEF WriteVerdict, ClosePipe, KeepPipe, AwaitEnd, Release, Released, IoError
  <2>3. CASE Disconnect \/ Disconnected \/ Over
    BY <2>3 DEF Disconnect, Disconnected, Over, Release, Released
  <2> QED BY <1>5, <2>1, <2>2, <2>3 DEF Ending
<1>6. ASSUME NEW p \in Pages(root), Act(p) \/ Told(p) \/ Lost(p) \/ Crash(p)
      PROVE  PageInv'
  BY <1>6, Elsewhere
<1>7. CASE Stop \/ UNCHANGED runVars
  BY <1>7 DEF Stop, runVars
<1>8. CASE Beginning
  <2>1. browser' = root.page[action'] \/ action' = NoAction
    BY <1>8, BeginStep
  <2> QED BY <1>8, <2>1, BeginStep
<1>9. CASE Walking
  <2> DEFINE n == NextAction(root, outputs, From)
  <2>1. /\ From \in Actions(root) /\ next' = n.next /\ ret' = n.ret
        /\ UNCHANGED <<action, browser>>
    BY <1>9, WalkStep DEF Turn
  <2>2. browser <= root.page[From]
    <3>1. CASE pc = "next"
      BY <1>0, <3>1 DEF From, ActionInv
    <3>2. CASE pc # "next"
      <4>1. pc \in {"walk", "skip"} /\ next # NoAction /\ HasLocal(root) /\ From = next
        BY <1>9, <2>1, <3>2, WalkStep, ScriptFacts DEF From, Typed, ThreadOK
      <4> QED BY <4>1
    <3> QED BY <3>1, <3>2
  <2>3. n.next # NoAction => /\ n.ret = "ok" => root.page[n.next] >= root.page[From]
                             /\ HasLocal(root) => n.ret = "ok"
                             /\ n.next \in Actions(root)
    BY <2>1, NextActionIn, ScriptFacts DEF Typed, ThreadOK
  <2> HIDE DEF n
  <2>4. n.next # NoAction /\ n.ret = "ok" => browser <= root.page[n.next]
    <3> SUFFICES ASSUME n.next # NoAction, n.ret = "ok"
                 PROVE  browser <= root.page[n.next]
      OBVIOUS
    <3>1. /\ browser \in Nat /\ root.page[From] \in Nat /\ root.page[n.next] \in Nat
      BY <2>1, <2>3, PageNumbers, ScriptFacts DEF Typed, ThreadOK
    <3> QED BY <2>2, <2>3, <3>1
  <2>5. action # NoAction => browser = root.page[action]
    BY <1>9, WalkStep
  <2>6. HasLocal(root)' = HasLocal(root)
    BY DEF HasLocal, Actions
  <2> QED BY <1>9, <2>1, <2>3, <2>4, <2>5, <2>6, WalkStep
<1> QED BY StepCases, <1>1, <1>2, <1>3, <1>4, <1>5, <1>6, <1>7, <1>8, <1>9

(* What goes on elsewhere brings no browser of the page in use to life. *)
LEMMA ElsewhereKept ==
  ASSUME Typed, ActionInv, [Next]_runVars, NEW q \in Pages(root),
         Act(q) \/ Told(q) \/ Lost(q) \/ Crash(q)
  PROVE  /\ UNCHANGED <<pc, action, browser, need_close, rec, stop_work>>
         /\ InNewPage(browser)' = InNewPage(browser)
         /\ Gone(browser) => Gone(browser)'
<1>1. UNCHANGED <<pc, action, browser, need_close, rec, stop_work>>
  BY Elsewhere
<1>2. InNewPage(browser)' = InNewPage(browser)
  BY <1>1 DEF InNewPage
<1>3. ASSUME Gone(browser) PROVE Gone(browser)'
  <2>1. ~(StartBrowser \/ StartFails)
    BY <1>1 DEF StartBrowser, StartFails
  <2> QED BY <1>1, <1>3, <2>1, GoneKept DEF Typed, ThreadOK, Gone
<1> QED BY <1>1, <1>2, <1>3

LEMMA StartKept ==
  ASSUME Typed, ActionInv, AheadInv, PageInv, StartInv, [Next]_runVars
  PROVE  StartInv'
<1> USE DEF StartInv, thread
<1>1. CASE Opening
  <2>1. CASE Accept
    <3>1. client'[browser].at = "request"
      BY <2>1 DEF Accept, Typed, ClientOK, ThreadOK, Process
    <3> QED BY <2>1, <3>1 DEF Accept
  <2>2. CASE Enter \/ Begin \/ StartBrowser \/ StartFails \/ UseBrowser \/ NoBrowser
    BY <2>2 DEF Enter, Begin, StartBrowser, StartFails, UseBrowser, NoBrowser
  <2> QED BY <1>1, <2>1, <2>2 DEF Opening
<1>2. CASE Exchanging
  <2>1. CASE WriteAction
    <3>1. CASE UNCHANGED client
      BY <2>1, <3>1 DEF WriteAction, IoError
    <3>2. CASE client'[browser].at = "acting"
      BY <2>1, <3>2 DEF WriteAction, IoError
    <3> QED BY <2>1, <3>1, <3>2 DEF WriteAction, IoError, Typed, ClientOK, ThreadOK, Process
  <2>2. CASE Connected \/ ReadRequest \/ Written \/ ReadAnswer
    BY <2>2 DEF Connected, ReadRequest, Written, ReadAnswer, IoError
  <2> QED BY <1>2, <2>1, <2>2 DEF Exchanging
<1>3. CASE Analysing
  BY <1>3 DEF Analysing, AnalyseAnswer, AnalyseError, AnalyseStopped, AskContinue,
     AskGiveUp
<1>4. CASE Selecting
  BY <1>4 DEF Selecting, Land, SelectStopped, ActionInv
<1>5. CASE Ending
  <2>1. CASE WriteVerdict
    <3>1. CASE UNCHANGED client
      BY <2>1, <3>1 DEF WriteVerdict, IoError
    <3>2. CASE client'[browser].at = "told"
      BY <2>1, <3>2 DEF WriteVerdict, IoError
    <3> QED BY <2>1, <3>1, <3>2 DEF WriteVerdict, IoError, Typed, ClientOK, ThreadOK, Process
  <2>2. CASE ClosePipe \/ KeepPipe
    BY <2>2 DEF ClosePipe, KeepPipe, Release
  <2>3. CASE AwaitEnd
    <3>1. client'[browser].at # "starting" \/ UNCHANGED client
      BY <2>3 DEF AwaitEnd, Released, Typed, ClientOK, ThreadOK, Process
    <3> QED BY <2>3, <3>1 DEF AwaitEnd, Released
  <2>4. CASE Retry
    <3> SUFFICES ASSUME action' # NoAction
                 PROVE  client'[browser'].at # "starting"
      OBVIOUS
    <3>1. /\ pc = "retry" /\ action # NoAction /\ client' = client
          /\ browser' = browser \/ (browser' = root.page[action] /\ browser' # browser)
      BY <2>4 DEF Retry
    <3>2. CASE browser' = browser
      BY <3>1, <3>2
    <3>3. CASE browser' = root.page[action] /\ browser' # browser
      <4>1. browser \in Nat /\ browser' \in Nat /\ browser' \in Pages(root)
        BY <3>1, <3>3, ScriptFacts, PageNumbers DEF Typed, ThreadOK
      <4>2. browser' > browser
        BY <3>1, <3>3, <4>1 DEF PageInv, After
      <4>3. Gone(browser')
        BY <3>1, <4>1, <4>2 DEF AheadInv
      <4> QED BY <3>1, <4>3 DEF Gone
    <3> QED BY <3>1, <3>2, <3>3
  <2>5. CASE Disconnect \/ Disconnected \/ Over
    BY <2>5 DEF Disconnect, Disconnected, Over, Release, Released
  <2> QED BY <1>5, <2>1, <2>2, <2>3, <2>4, <2>5 DEF Ending
<1>6. ASSUME NEW p \in Pages(root), Act(p) \/ Told(p) \/ Lost(p) \/ Crash(p)
      PROVE  StartInv'
  <2>1. UNCHANGED <<pc, action, browser>>
    BY <1>6, Elsewhere
  <2>2. client'[browser].at = "starting" => client[browser].at = "starting"
    <3>1. CASE p = browser
      <4> USE <3>1 DEF Typed, ClientOK, ThreadOK, Process
      <4>1. CASE Act(p)
        BY <4>1 DEF Act
      <4>2. CASE Told(p)
        BY <4>2 DEF Told, Client
      <4>3. CASE Lost(p)
        BY <4>3 DEF Lost, Client
      <4>4. CASE Crash(p)
        BY <4>4 DEF Crash
      <4> QED BY <1>6, <4>1, <4>2, <4>3, <4>4
    <3>2. CASE p # browser
      BY <1>6, <3>2 DEF Act, Told, Lost, Client, Crash, Typed, ClientOK, ThreadOK
    <3> QED BY <3>1, <3>2
  <2> QED BY <2>1, <2>2
<1>7. CASE Stop \/ UNCHANGED runVars
  BY <1>7 DEF Stop, runVars
<1>8. CASE Beginning
  <2>1. /\ pc \in {"enter", "enterSkip"} /\ client' = client
        /\ action' # NoAction => action' \in Actions(root) /\ browser' = root.page[action']
    BY <1>8, BeginStep, TurnOK, RootKept
  <2>2. action' # NoAction => browser' \in Pages(root)
    BY <2>1, ScriptFacts DEF Typed, ThreadOK
  <2>3. action' # NoAction => Gone(browser')
    BY <2>1, <2>2 DEF AheadInv
  <2> QED BY <2>1, <2>3 DEF Gone
<1>9. CASE Walking
  BY <1>9, WalkStep DEF ActionInv
<1> QED BY StepCases, <1>1, <1>2, <1>3, <1>4, <1>5, <1>6, <1>7, <1>8, <1>9

LEMMA ReadyKept ==
  ASSUME Typed, ActionInv, AheadInv, PageInv, StartInv, ReadyInv, [Next]_runVars
  PROVE  ReadyInv'
<1> USE DEF ReadyInv, thread, InNewPage, Gone
<1>1. CASE Opening
  <2>1. CASE Enter
    BY <2>1 DEF Enter, AheadInv, Typed, ThreadOK
  <2>2. CASE Begin \/ StartBrowser \/ StartFails \/ UseBrowser \/ NoBrowser \/ Accept
    BY <2>2 DEF Begin, StartBrowser, StartFails, UseBrowser, NoBrowser, Accept
  <2> QED BY <1>1, <2>1, <2>2 DEF Opening
<1>2. CASE Exchanging
  BY <1>2
    DEF Exchanging, Connected, ReadRequest, WriteAction, Written, ReadAnswer, IoError
<1>3. CASE Analysing
  BY <1>3 DEF Analysing, AnalyseAnswer, AnalyseError, AnalyseStopped, AskContinue,
     AskGiveUp
<1>4. CASE Selecting
  BY <1>4 DEF Selecting, Land, SelectStopped
<1>5. CASE Ending
  <2>1. CASE WriteVerdict
    BY <2>1 DEF WriteVerdict, IoError
  <2>2. CASE ClosePipe \/ KeepPipe
    BY <2>2 DEF ClosePipe, KeepPipe, Release
  <2>3. CASE AwaitEnd
    <3>1. Gone(browser)' \/ client[browser].at = "starting"
      BY <2>3 DEF AwaitEnd, Released, PipeConnected, Typed, ClientOK, ThreadOK, Process
    <3> QED BY <2>3, <3>1 DEF AwaitEnd, Released, StartInv
  <2>4. CASE Retry
    <3> SUFFICES ASSUME ~stop_work, action' # NoAction, InNewPage(browser)'
                 PROVE  Gone(browser)'
      BY <2>4 DEF Retry
    <3>1. /\ pc = "retry" /\ action' = action /\ action # NoAction
          /\ UNCHANGED <<rec, client, root>> /\ browser' = root.page[action]
      BY <2>4 DEF Retry
    <3>2. CASE browser' = browser
      BY <3>1, <3>2
    <3>3. CASE browser' # browser
      <4>1. browser \in Nat /\ browser' \in Nat /\ browser' \in Pages(root)
        BY <3>1, ScriptFacts, PageNumbers DEF Typed, ThreadOK
      <4>2. browser' > browser
        BY <3>1, <3>3, <4>1 DEF PageInv, After
      <4>3. Gone(browser')
        BY <3>1, <4>1, <4>2 DEF AheadInv
      <4> QED BY <3>1, <4>3
    <3> QED BY <3>2, <3>3
  <2>5. CASE Disconnect \/ Disconnected \/ Over
    BY <2>5 DEF Disconnect, Disconnected, Over, Release, Released
  <2> QED BY <1>5, <2>1, <2>2, <2>3, <2>4, <2>5 DEF Ending
<1>6. ASSUME NEW p \in Pages(root), Act(p) \/ Told(p) \/ Lost(p) \/ Crash(p)
      PROVE  ReadyInv'
  <2> HIDE DEF InNewPage, Gone
  <2> QED BY <1>6, ElsewhereKept
<1>7. CASE Stop
  BY <1>7 DEF Stop
<1>8. CASE UNCHANGED runVars
  BY <1>8 DEF runVars
<1>9. CASE Beginning \/ Walking
  BY <1>9, BeginStep, WalkStep
<1> QED BY StepCases, <1>1, <1>2, <1>3, <1>4, <1>5, <1>6, <1>7, <1>8, <1>9

LEMMA OneKept ==
  ASSUME Typed, ActionInv, ReadyInv, OneBrowser, [Next]_runVars
  PROVE  OneBrowser'
<1> USE DEF OneBrowser, thread, InNewPage, Gone
<1>1. CASE Opening
  <2>1. CASE Begin
    BY <2>1 DEF Begin, ReadyInv
  <2>2. CASE Enter \/ StartBrowser \/ StartFails \/ UseBrowser \/ NoBrowser \/ Accept
    BY <2>2 DEF Enter, StartBrowser, StartFails, UseBrowser, NoBrowser, Accept
  <2> QED BY <1>1, <2>1, <2>2 DEF Opening
<1>2. CASE Exchanging
  BY <1>2
    DEF Exchanging, Connected, ReadRequest, WriteAction, Written, ReadAnswer, IoError
<1>3. CASE Analysing
  BY <1>3 DEF Analysing, AnalyseAnswer, AnalyseError, AnalyseStopped, AskContinue,
     AskGiveUp
<1>4. CASE Selecting
  BY <1>4 DEF Selecting, Land, SelectStopped
<1>5. CASE Ending
  BY <1>5 DEF Ending, WriteVerdict, ClosePipe, KeepPipe, AwaitEnd, Retry, Disconnect,
     Disconnected, Over, Release, Released, IoError
<1>6. ASSUME NEW p \in Pages(root), Act(p) \/ Told(p) \/ Lost(p) \/ Crash(p)
      PROVE  OneBrowser'
  <2> HIDE DEF InNewPage, Gone
  <2> QED BY <1>6, ElsewhereKept
<1>7. CASE Stop \/ UNCHANGED runVars
  BY <1>7 DEF Stop, runVars
<1>8. CASE Beginning \/ Walking
  BY <1>8, BeginStep, WalkStep
<1> QED BY StepCases, <1>1, <1>2, <1>3, <1>4, <1>5, <1>6, <1>7, <1>8

-----------------------------------------------------------------------------
(* The inductive invariant. *)
RunInv ==
  /\ TypeOK
  /\ ActionInv /\ CountInv /\ AttemptsBounded
  /\ AheadInv /\ PageInv /\ StartInv /\ ReadyInv /\ OneBrowser

LEMMA RunInvInit == Init => RunInv
<1> SUFFICES ASSUME Init PROVE RunInv
  OBVIOUS
<1>1. ThreadOK
  <2>1. root \in Scripts
    BY DEF Init
  <2>2. 1 \in Actions(root) /\ Top \in Pages(root)
    BY <2>1, ScriptFacts DEF WellFormed
  <2>3. need_close \in BOOLEAN /\ stop_work \in BOOLEAN
    BY Zenon DEF Init
  <2>4. retry_count \in 0 .. MaxRetry + 2 /\ sent \in Nat /\ crashes \in 0 .. MaxCrashes
    BY ScriptRunAssumption DEF Init
  <2>5. /\ pc \in Label /\ ret \in {"ok", "error", "io"}
        /\ next \in Actions(root) \cup {NoAction} /\ relation \in Relation
    BY DEF Init, Label, Relation
  <2>6. action \in Actions(root) /\ browser \in Pages(root)
    BY <2>2 DEF Init
  <2> QED BY <2>1, <2>3, <2>4, <2>5, <2>6 DEF ThreadOK
<1>2. RecOK
  <2>1. PICK url \in {Home, NoUrl} :
          rec = [p \in Pages(root) |->
            [inited |-> FALSE, current_url |-> NoUrl,
             locate_url |-> IF p # Top THEN NoUrl
                            ELSE IF root.kind[1] = "locate" THEN "located" ELSE url]]
    BY DEF Init
  <2> QED BY <2>1, LinkFacts DEF RecOK, Record, Home
<1>3. ClientOK
  <2>1. Quiet \in Process
    BY LinkFacts DEF Quiet, Process, At
  <2> QED BY <2>1 DEF Init, ClientOK
<1>4. HistoryOK
  <2>1. <<>> \in Seq(Link)
    OBVIOUS
  <2> QED BY <2>1 DEF Init, HistoryOK
<1>5. ActionInv /\ CountInv /\ AttemptsBounded
  BY ScriptRunAssumption DEF Init, ActionInv, CountInv, AttemptsBounded, NoAction, Before,
     Sent, After
<1>6. AheadInv /\ StartInv /\ ReadyInv /\ OneBrowser
  <2>1. \A p \in Pages(root) : Gone(p)
    BY DEF Init, Gone, Quiet
  <2>2. browser \in Pages(root) /\ pc = "enter"
    BY ScriptFacts DEF Init
  <2> QED BY <2>1, <2>2 DEF AheadInv, StartInv, ReadyInv, OneBrowser, Gone
<1>7. PageInv
  <2>1. root.page[1] = Top
    <3>1. root.page[1] \in Nat /\ root.page[1] < 1
      BY ScriptFacts, PageNumbers DEF Init, WellFormed
    <3> QED BY <3>1 DEF Top
  <2> QED BY <2>1 DEF Init, PageInv, After
<1> QED BY <1>1, <1>2, <1>3, <1>4, <1>5, <1>6, <1>7, TypeParts DEF RunInv, Typed

LEMMA RunInvNext == RunInv /\ [Next]_runVars => RunInv'
<1> SUFFICES ASSUME RunInv, [Next]_runVars PROVE RunInv'
  OBVIOUS
<1>1. /\ Typed /\ ActionInv /\ CountInv /\ AttemptsBounded
      /\ AheadInv /\ PageInv /\ StartInv /\ ReadyInv /\ OneBrowser
  BY TypeParts DEF RunInv
<1>2. ThreadOK' /\ RecOK' /\ ClientOK' /\ HistoryOK'
  BY <1>1, RootKept, ThreadKept, RecKept, ClientKept, HistoryKept
<1>3. TypeOK'
  BY <1>2 DEF TypeOK, ThreadOK, RecOK, ClientOK, HistoryOK
<1>4. ActionInv' /\ CountInv' /\ AttemptsBounded'
  BY <1>1, ActionKept, CountKept, BoundKept
<1>5. AheadInv' /\ PageInv' /\ StartInv' /\ ReadyInv' /\ OneBrowser'
  BY <1>1, AheadKept, PageKept, StartKept, ReadyKept, OneKept
<1> QED BY <1>3, <1>4, <1>5 DEF RunInv

LEMMA RunInvHolds == Spec => []RunInv
BY RunInvInit, RunInvNext, PTL DEF Spec

(* A run keeps the types of its variables; the retry counter stays below   *)
(* its limit, although it is advanced in two places.                       *)
THEOREM RunTyping == Spec => []TypeOK
BY RunInvHolds, PTL DEF RunInv

(* An action is sent at most MaxRetry + 2 times before another one becomes *)
(* the next one, whatever the browsers answer and whenever they die.       *)
THEOREM SendsBounded == Spec => []AttemptsBounded
BY RunInvHolds, PTL DEF RunInv

(* Whenever a browser process is about to be started for a page, the one   *)
(* before it has ended: neither a retry nor a jump leaves one behind.      *)
THEOREM NoSecondBrowser == Spec => []OneBrowser
BY RunInvHolds, PTL DEF RunInv

-----------------------------------------------------------------------------
(* Where a step leads the thread, what it does to the browsers, the         *)
(* records and the lists.                                                  *)

(* What a call of get_next_html_element_action changes. *)
LEMMA TurnEffect ==
  ASSUME Typed, root' = root, NEW a \in Actions(root),
         Turn(a, NextAction(root, outputs, a))
  PROVE  LET n == NextAction(root, outputs, a) IN
    /\ \A p \in Pages(root) :
         /\ rec'[p].inited = rec[p].inited /\ rec'[p].current_url = rec[p].current_url
         /\ \/ rec'[p].locate_url = rec[p].locate_url /\ (p = n.source => p = NoAction)
            \/ /\ rec'[p].locate_url = "located"
               /\ n.next # NoAction /\ root.kind[n.next] = "locate" /\ root.page[n.next] = p
            \/ /\ p # Top /\ p = n.source /\ rec'[p].locate_url = Head(outputs[p])
               /\ ~(n.next # NoAction /\ root.kind[n.next] = "locate" /\ root.page[n.next] = p)
            \/ /\ p # Top /\ p = root.page[a] /\ n.relation = "none"
               /\ rec'[p].locate_url = NoUrl
    /\ \A l \in Actions(root) :
         outputs'[l] = IF l = n.source THEN Tail(outputs[l]) ELSE outputs[l]
    /\ outputs' \in [Actions(root) -> Seq(Link)]
<1> DEFINE n == NextAction(root, outputs, a)
<1>1. /\ n.source # NoAction => n.source \in Actions(root)
      /\ NoAction \notin Actions(root)
      /\ n.relation = "none" => n.source = NoAction
  BY NextActionIn, NextActionCases, ScriptFacts DEF Typed, ThreadOK
<1>2. outputs' \in [Actions(root) -> Seq(Link)]
  BY TurnOK
<1> HIDE DEF n
<1>3. rec' = Relocated(a, n) /\ outputs' = Followed(n)
  BY DEF Turn, n
<1>4. \A l \in Actions(root) :
         outputs'[l] = IF l = n.source THEN Tail(outputs[l]) ELSE outputs[l]
  BY <1>1, <1>3 DEF Followed, Typed, HistoryOK
<1>5. ASSUME NEW p \in Pages(root)
      PROVE  /\ rec'[p].inited = rec[p].inited /\ rec'[p].current_url = rec[p].current_url
             /\ \/ rec'[p].locate_url = rec[p].locate_url /\ (p = n.source => p = NoAction)
                \/ /\ rec'[p].locate_url = "located"
                   /\ n.next # NoAction /\ root.kind[n.next] = "locate" /\ root.page[n.next] = p
                \/ /\ p # Top /\ p = n.source /\ rec'[p].locate_url = Head(outputs[p])
                   /\ ~(n.next # NoAction /\ root.kind[n.next] = "locate" /\ root.page[n.next] = p)
                \/ /\ p # Top /\ p = root.page[a] /\ n.relation = "none"
                   /\ rec'[p].locate_url = NoUrl
  <2> DEFINE opened ==
        IF n.source # NoAction
          THEN [rec EXCEPT ![n.source].locate_url = Head(outputs[n.source])]
          ELSE IF n.relation = "none" /\ root.page[a] # Top
                 THEN [rec EXCEPT ![root.page[a]].locate_url = NoUrl]
                 ELSE rec
  <2>1. rec[p] \in Record /\ rec \in [Pages(root) -> Record]
    BY DEF Typed, RecOK
  <2>2. /\ opened[p].inited = rec[p].inited /\ opened[p].current_url = rec[p].current_url
        /\ DOMAIN opened = Pages(root)
        /\ \A f : f \in DOMAIN opened[p] <=> f \in {"inited", "current_url", "locate_url"}
        /\ \/ opened[p].locate_url = rec[p].locate_url /\ (p = n.source => p = NoAction)
           \/ p # Top /\ p = n.source /\ opened[p].locate_url = Head(outputs[p])
           \/ /\ p # Top /\ p = root.page[a] /\ n.relation = "none"
              /\ opened[p].locate_url = NoUrl
    BY <1>1, <2>1 DEF Record, Top, NoAction
  <2> HIDE DEF opened
  <2>3. rec' = IF n.next # NoAction /\ root.kind[n.next] = "locate"
                 THEN [opened EXCEPT ![root.page[n.next]].locate_url = "located"]
                 ELSE opened
    BY <1>3 DEF Relocated, opened
  <2>4. CASE n.next # NoAction /\ root.kind[n.next] = "locate" /\ root.page[n.next] = p
    BY <2>2, <2>3, <2>4
  <2>5. CASE ~(n.next # NoAction /\ root.kind[n.next] = "locate" /\ root.page[n.next] = p)
    <3>1. rec'[p] = opened[p]
      BY <2>2, <2>3, <2>5
    <3> QED BY <2>2, <2>5, <3>1
  <2> QED BY <2>4, <2>5
<1> QED BY <1>2, <1>4, <1>5 DEF n

(* What a step makes of a browser process: it is started, sent an action,  *)
(* or carries one out; or it only goes on, or ends.                        *)
GoesOn(p) ==
  /\ client[p].at \notin {"none", "dead"} /\ client'[p].at \in {"request", "told", "dead"}
  /\ client[p].at = "acting" => client'[p].at = "dead"
  /\ client'[p].page = client[p].page /\ client'[p].url = client[p].url
  /\ client'[p].action = client[p].action /\ client'[p].result = client[p].result
  /\ client'[p].links = client[p].links

ActionSent ==
  /\ pc = "write" /\ pc' = "written" /\ ~stop_work /\ client[browser].at = "request"
  /\ UNCHANGED <<action, browser, rec, visited, saved, found, outputs>>
  /\ client'[browser].at = "acting" /\ client'[browser].action = action
  /\ client'[browser].page = client[browser].page
  /\ client'[browser].url = IF InNewPage(browser) THEN rec[browser].locate_url ELSE NoUrl

LEMMA ClientEffect ==
  ASSUME Typed, ActionInv, [Next]_runVars, NEW p \in Pages(root)
  PROVE  \/ client'[p] = client[p]
         \/ Act(p)
         \/ GoesOn(p)
         \/ /\ p = browser /\ (StartBrowser \/ StartFails)
            /\ client'[p] = [Quiet EXCEPT !.at = "starting"]
         \/ p = browser /\ WriteAction /\ ActionSent
<1>0. client \in [Pages(root) -> Process] /\ browser \in Pages(root)
  BY DEF Typed, ClientOK, ThreadOK
<1>1. CASE UNCHANGED client
  BY <1>1
<1>2. CASE Beginning \/ Walking
  BY <1>1, <1>2, BeginStep, WalkStep
<1>3. CASE StartBrowser \/ StartFails
  BY <1>0, <1>3 DEF StartBrowser, StartFails
<1>4. CASE Accept
  BY <1>0, <1>4 DEF Accept, GoesOn, Process
<1>5. CASE WriteAction
  <2>1. CASE UNCHANGED client
    BY <2>1
  <2>2. CASE ~UNCHANGED client
    <3>1. /\ ~stop_work /\ pc = "write" /\ pc' = "written" /\ client[browser].at = "request"
          /\ client' = [client EXCEPT
               ![browser].at = "acting", ![browser].action = action,
               ![browser].url = IF InNewPage(browser) THEN rec[browser].locate_url ELSE NoUrl]
          /\ UNCHANGED <<action, browser, rec, outputs, found, visited, saved>>
      BY <1>5, <2>2 DEF WriteAction, UrlSent, IoError
    <3>2. CASE p = browser
      BY <1>0, <1>5, <3>1, <3>2 DEF ActionSent, Process
    <3>3. CASE p # browser
      BY <1>0, <3>1, <3>3
    <3> QED BY <3>2, <3>3
  <2> QED BY <2>1, <2>2
<1>6. CASE WriteVerdict
  BY <1>0, <1>6 DEF WriteVerdict, IoError, GoesOn, Process
<1>7. CASE AwaitEnd \/ Disconnected
  <2>1. \/ client' = client
        \/ PipeConnected(browser) /\ client' = [client EXCEPT ![browser].at = "dead"]
    BY <1>7 DEF AwaitEnd, Disconnected, Released
  <2>2. CASE PipeConnected(browser) /\ client' = [client EXCEPT ![browser].at = "dead"]
    BY <1>0, <2>2 DEF PipeConnected, GoesOn, Process
  <2> QED BY <1>1, <2>1, <2>2
<1>8. ASSUME NEW q \in Pages(root), Act(q) \/ Told(q) \/ Lost(q) \/ Crash(q)
      PROVE  client'[p] = client[p] \/ Act(p) \/ GoesOn(p)
  <2>1. CASE q # p
    BY <1>0, <1>8, <2>1 DEF Act, Told, Lost, Client, Crash
  <2>2. CASE q = p
    <3>1. CASE Told(q)
      BY <1>0, <2>2, <3>1 DEF Process, Told, Client, GoesOn
    <3>2. CASE Lost(q)
      BY <1>0, <2>2, <3>2 DEF Process, Lost, Client, GoesOn
    <3>3. CASE Crash(q)
      BY <1>0, <2>2, <3>3 DEF Process, Crash, GoesOn, Gone
    <3> QED BY <1>8, <2>2, <3>1, <3>2, <3>3
  <2> QED BY <2>1, <2>2
<1> QED
  BY StepCases, <1>1, <1>2, <1>3, <1>4, <1>5, <1>6, <1>7, <1>8 DEF Opening, Exchanging,
     Analysing, Selecting, Ending, Enter, Begin, UseBrowser, NoBrowser, Connected,
     ReadRequest, Written, ReadAnswer, IoError, AnalyseAnswer, AnalyseError,
     AnalyseStopped, AskContinue, AskGiveUp, Land, SelectStopped, ClosePipe, KeepPipe,
     Retry, Disconnect, Over, Release, Stop, runVars

(* What a step makes of the record of a page. *)
LEMMA RecEffect ==
  ASSUME Typed, ActionInv, [Next]_runVars, NEW p \in Pages(root)
  PROVE  \/ rec'[p] = rec[p]
         \/ Beginning \/ Walking
         \/ /\ pc \in {"open", "after", "end"} /\ rec'[p].current_url = NoUrl
            /\ rec'[p].locate_url = rec[p].locate_url
            /\ pc = "open" => p = browser /\ InNewPage(browser)
            /\ pc # "open" => ~rec'[p].inited
         \/ p = browser /\ AnalyseAnswer /\ rec'[p] = Located(rec[p], client[p])
         \/ /\ p = browser /\ AnalyseError
            /\ rec'[p].inited = rec[p].inited /\ rec'[p].locate_url = rec[p].locate_url
            /\ rec'[p].current_url =
                 IF rec[p].current_url = rec[p].locate_url THEN NoUrl ELSE rec[p].current_url
<1>0. rec \in [Pages(root) -> Record] /\ rec[p] \in Record /\ browser \in Pages(root)
  BY DEF Typed, RecOK, ThreadOK
<1>1. CASE UNCHANGED rec
  BY <1>1
<1>2. CASE StartBrowser \/ StartFails
  <2>1. PICK inited \in BOOLEAN :
          rec' = [rec EXCEPT ![browser].inited = inited, ![browser].current_url = NoUrl]
    BY <1>2 DEF StartBrowser, StartFails
  <2>2. pc = "open" /\ InNewPage(browser)
    BY <1>2 DEF StartBrowser, StartFails
  <2>3. CASE p = browser
    BY <1>0, <2>1, <2>2, <2>3 DEF Record
  <2>4. CASE p # browser
    BY <1>0, <2>1, <2>4 DEF Record
  <2> QED BY <2>3, <2>4
<1>3. CASE AnalyseAnswer
  BY <1>0, <1>3 DEF AnalyseAnswer
<1>4. CASE AnalyseError
  BY <1>0, <1>4 DEF AnalyseError, Record
<1>5. CASE ClosePipe \/ Disconnect
  <2>1. PICK q \in Pages(root) :
          /\ pc \in {"after", "end"}
          /\ rec' = [rec EXCEPT ![q].inited = FALSE, ![q].current_url = NoUrl]
    BY <1>0, <1>5 DEF ClosePipe, Disconnect, Release
  <2>2. CASE p = q
    BY <1>0, <2>1, <2>2 DEF Record
  <2>3. CASE p # q
    BY <1>0, <2>1, <2>3 DEF Record
  <2> QED BY <2>2, <2>3
<1> QED
  BY StepCases, <1>1, <1>2, <1>3, <1>4, <1>5 DEF Opening, Exchanging, Analysing,
     Selecting, Ending, Enter, Begin, UseBrowser, NoBrowser, Accept, Connected, ReadRequest,
     WriteAction, Written, ReadAnswer, IoError, AnalyseStopped, AskContinue, AskGiveUp,
     Land, SelectStopped, WriteVerdict, KeepPipe, AwaitEnd, Retry, Disconnected, Over, Released,
     Act, Told, Lost, Client, Crash, Stop, runVars

(* What a step makes of the links of an action. *)
LEMMA HistoryEffect ==
  ASSUME Typed, ActionInv, [Next]_runVars, NEW l \in Actions(root)
  PROVE  /\ \/ visited'[l] = visited[l] /\ found'[l] = found[l]
            \/ /\ Act(l) /\ client[l].url \in Link /\ LastOf(visited, l) # client[l].url
               /\ l # Top /\ l \in Pages(root)
               /\ visited'[l] = Append(visited[l], client[l].url) /\ found'[l] = found[l]
            \/ /\ AnalyseAnswer /\ action = l /\ root.kind[l] = "links"
               /\ visited'[l] = <<>> /\ found'[l] = client[browser].links
               /\ outputs'[l] = Listed(found'[l]) /\ saved'[l] = {}
         /\ \/ outputs'[l] = outputs[l]
            \/ AnalyseAnswer /\ action = l /\ root.kind[l] = "links"
            \/ Beginning \/ Walking
         /\ \/ saved[l] \subseteq saved'[l]
            \/ AnalyseAnswer /\ action = l /\ root.kind[l] = "links"
<1>0. /\ outputs \in [Actions(root) -> Seq(Link)] /\ found \in [Actions(root) -> Seq(Link)]
      /\ visited \in [Actions(root) -> Seq(Link)]
      /\ saved \in [Actions(root) -> SUBSET (Link \cup {NoUrl})]
  BY DEF Typed, HistoryOK
<1>1. CASE UNCHANGED <<outputs, found, visited, saved>>
  BY <1>1
<1>2. CASE AnalyseAnswer
  BY <1>0, <1>2 DEF AnalyseAnswer
<1>3. CASE Land
  BY <1>0, <1>3 DEF Land, Saved
<1>4. CASE Beginning \/ Walking
  BY <1>4, BeginStep, WalkStep
<1>5. ASSUME NEW q \in Pages(root), Act(q)
      PROVE  /\ found' = found /\ outputs' = outputs /\ saved' = saved
             /\ \/ visited'[l] = visited[l]
                \/ /\ Act(l) /\ client[l].url \in Link /\ LastOf(visited, l) # client[l].url
                   /\ l # Top /\ l \in Pages(root)
                   /\ visited'[l] = Append(visited[l], client[l].url)
  <2>1. \/ visited' = visited
        \/ /\ q # Top /\ client[q].url \in Link /\ LastOf(visited, q) # client[q].url
           /\ visited' = [visited EXCEPT ![q] = Append(@, client[q].url)]
    BY <1>5 DEF Act
  <2>2. /\ found' = found /\ outputs' = outputs /\ saved' = saved
    BY <1>5 DEF Act
  <2> QED BY <1>0, <1>5, <2>1, <2>2
<1>7. CASE Exchanging \/ Opening \/ Ending \/ SelectStopped
  BY <1>1, <1>7 DEF Opening, Ending, Exchanging, Enter, Begin, StartBrowser, StartFails, UseBrowser,
     NoBrowser, Accept, Connected, ReadRequest, WriteAction, Written, ReadAnswer, IoError,
     SelectStopped, WriteVerdict, ClosePipe, KeepPipe, AwaitEnd, Retry, Disconnect,
     Disconnected, Over, Release, Released, history
<1>8. CASE AnalyseError \/ AnalyseStopped \/ AskContinue \/ AskGiveUp
  BY <1>1, <1>8 DEF AnalyseError, AnalyseStopped, AskContinue, AskGiveUp, history
<1>9. ASSUME NEW q \in Pages(root), Told(q) \/ Lost(q) \/ Crash(q)
      PROVE  UNCHANGED <<outputs, found, visited, saved>>
  BY <1>9 DEF Told, Lost, Client, Crash, history
<1>10. CASE Stop \/ UNCHANGED runVars
  BY <1>1, <1>10 DEF Stop, history, runVars
<1> QED
  BY StepCases, <1>1, <1>2, <1>3, <1>4, <1>5, <1>7, <1>8, <1>9, <1>10 DEF Analysing, Selecting

-----------------------------------------------------------------------------
(* The pages ahead of the thread are as they were at the beginning.        *)

Live     == pc \notin {"end", "leaving", "over"}
Entering == pc \in {"enter", "enterSkip"}

FreshInv ==
  /\ Live => \A p \in Pages(root) : p > browser \/ Entering =>
       client[p] = Quiet /\ ~rec[p].inited /\ (p # Top => visited[p] = <<>>)
  /\ \A p \in Pages(root) : rec[p].current_url # NoUrl => rec[p].inited
  /\ Entering => \A a \in Actions(root) : outputs[a] = <<>> /\ found[a] = <<>>

(* Where the thread is in the exchange of a message, and the browser with  *)
(* it; a page that is being opened has no current_url.                     *)
StageInv ==
  /\ pc \in {"accept", "connected", "request", "write", "written", "answer", "analyse", "ask",
             "next", "walk", "skip", "verdict"} => rec[browser].inited
  /\ pc \in {"written", "answer"} => client[browser].at \in {"acting", "answer", "dead"}
  /\ pc \in {"analyse", "ask", "next", "walk", "skip", "verdict"} =>
       client[browser].at \in {"answer", "dead"}
  /\ pc \in {"accept", "connected", "request", "write"} \cup Sent /\ InNewPage(browser) =>
       rec[browser].current_url = NoUrl
  /\ pc \in Sent /\ client[browser].at \in {"acting", "answer"} =>
       client[browser].action = action

(* A page ahead of the thread after a step was ahead of it before.         *)
LEMMA StillAhead ==
  ASSUME Typed, ActionInv, PageInv, [Next]_runVars, Live',
         NEW p \in Pages(root), p > browser' \/ Entering'
  PROVE  Live /\ (p > browser \/ Entering)
<1>1. Live
  BY Onward DEF Live
<1>2. CASE Entering'
  BY <1>1, <1>2, Onward DEF Entering
<1>3. CASE ~Entering' /\ ~Entering
  <2>1. browser' >= browser
    <3>1. browser \in Nat
      BY PageNumbers DEF Typed, ThreadOK
    <3> QED BY <1>3, <3>1, BrowserMoves, BeginStep DEF Live, Entering
  <2>2. browser' \in Nat /\ browser \in Nat /\ p \in Nat
    <3>1. browser' \in Pages(root)
      <4>1. CASE Retry
        BY <4>1, ScriptFacts DEF Retry, Typed, ThreadOK
      <4>2. CASE browser' = browser
        BY <4>2 DEF Typed, ThreadOK
      <4> QED BY <1>3, <4>1, <4>2, BrowserMoves, BeginStep DEF Live, Entering
    <3> QED BY <3>1, PageNumbers DEF Typed, ThreadOK
  <2> QED BY <1>1, <1>3, <2>1, <2>2
<1> QED BY <1>1, <1>2, <1>3

LEMMA FreshKept ==
  ASSUME Typed, ActionInv, PageInv, StageInv, FreshInv, [Next]_runVars
  PROVE  FreshInv'
<1>0. root' = root /\ NoAction \notin Actions(root)
  BY RootKept, ScriptFacts DEF Typed, ThreadOK
<1>1. ASSUME Live', NEW p \in Pages(root), p > browser' \/ Entering'
      PROVE  client'[p] = Quiet /\ ~rec'[p].inited /\ (p # Top => visited'[p] = <<>>)
  <2>1. Live /\ (p > browser \/ Entering)
    BY <1>1, StillAhead
  <2>2. /\ client[p] = Quiet /\ ~rec[p].inited /\ (p # Top => visited[p] = <<>>)
        /\ p = browser => Entering
    <3>1. browser \in Nat
      BY PageNumbers DEF Typed, ThreadOK
    <3> QED BY <2>1, <3>1 DEF FreshInv
  <2>3. client[p].at = "none"
    BY <2>2 DEF Quiet
  <2>4. client'[p] = client[p]
    <3>1. ~Act(p) /\ ~GoesOn(p)
      BY <2>3 DEF Act, GoesOn
    <3>2. StartBrowser \/ StartFails \/ WriteAction => ~Entering
      BY DEF StartBrowser, StartFails, WriteAction, IoError, Entering
    <3> QED BY <2>2, <3>1, <3>2, ClientEffect
  <2>5. ~rec'[p].inited
    <3>1. CASE Beginning
      BY <1>0, <2>2, <3>1, BeginStep, TurnEffect
    <3>2. CASE Walking
      BY <1>0, <2>2, <3>2, WalkStep, TurnEffect
    <3>3. AnalyseAnswer \/ AnalyseError \/ pc = "open" => ~Entering
      BY DEF AnalyseAnswer, AnalyseError, Entering
    <3> QED BY <2>2, <3>1, <3>2, <3>3, RecEffect DEF Entering
  <2>6. p # Top => visited'[p] = <<>>
    <3>1. p # Top => p \in Actions(root)
      BY ScriptFacts DEF Typed, ThreadOK
    <3>2. ~Act(p)
      BY <2>3 DEF Act
    <3> QED BY <2>2, <3>1, <3>2, HistoryEffect
  <2> QED BY <2>2, <2>4, <2>5, <2>6
<1>2. ASSUME NEW p \in Pages(root), rec'[p].current_url # NoUrl
      PROVE  rec'[p].inited
  <2> USE DEF FreshInv
  <2>1. CASE Beginning
    BY <1>0, <1>2, <2>1, BeginStep, TurnEffect
  <2>2. CASE Walking
    BY <1>0, <1>2, <2>2, WalkStep, TurnEffect
  <2>3. CASE p = browser /\ AnalyseAnswer /\ rec'[p] = Located(rec[p], client[p])
    <3>1. rec[p].inited /\ rec[p] \in Record
      BY <2>3 DEF StageInv, AnalyseAnswer, Typed, RecOK
    <3> QED BY <2>3, <3>1 DEF Located, Record
  <2> QED BY <1>2, <2>1, <2>2, <2>3, RecEffect
<1>3. ASSUME Entering', NEW a \in Actions(root)
      PROVE  outputs'[a] = <<>> /\ found'[a] = <<>>
  <2>1. Entering /\ ~AnalyseAnswer /\ ~Walking
    BY <1>3, Onward, WalkStep DEF Entering, AnalyseAnswer
  <2>2. outputs[a] = <<>> /\ found[a] = <<>>
    BY <2>1 DEF FreshInv
  <2>3. CASE Beginning
    <3> DEFINE n == NextAction(root, outputs, action)
    <3>1. action \in Actions(root) /\ Turn(action, n)
      BY <2>3, BeginStep
    <3>2. n.source = NoAction
      <4>1. n.source # NoAction => n.source \in Actions(root) /\ outputs[n.source] # <<>>
        BY <3>1, NextActionIn, ScriptFacts DEF Typed, ThreadOK
      <4> QED BY <2>1, <4>1 DEF FreshInv
    <3> HIDE DEF n
    <3>3. outputs'[a] = outputs[a]
      BY <1>0, <3>1, <3>2, TurnEffect DEF n
    <3> QED BY <2>1, <2>2, <3>3, HistoryEffect
  <2> QED BY <2>1, <2>2, <2>3, HistoryEffect
<1>4. /\ Live' => \A p \in Pages(root) : p > browser' \/ Entering' =>
           client'[p] = Quiet /\ ~rec'[p].inited /\ (p # Top => visited'[p] = <<>>)
      /\ \A p \in Pages(root) : rec'[p].current_url # NoUrl => rec'[p].inited
      /\ Entering' => \A a \in Actions(root) : outputs'[a] = <<>> /\ found'[a] = <<>>
  BY <1>1, <1>2, <1>3
<1> QED BY <1>0, <1>4 DEF FreshInv, Quiet

LEMMA StageKept ==
  ASSUME Typed, ActionInv, StageInv, [Next]_runVars
  PROVE  StageInv'
<1> USE DEF StageInv, Sent
<1>0. /\ root' = root /\ browser \in Pages(root)
      /\ rec \in [Pages(root) -> Record] /\ rec[browser] \in Record
      /\ client \in [Pages(root) -> Process] /\ client[browser] \in Process
  BY RootKept DEF Typed, ThreadOK, RecOK, ClientOK
<1>1. CASE Opening
  <2>1. CASE StartBrowser
    BY <1>0, <2>1 DEF StartBrowser, Record
  <2>2. CASE UseBrowser
    BY <2>2 DEF UseBrowser, InNewPage
  <2>3. CASE Accept
    <3>1. pc' = "connected" /\ UNCHANGED <<rec, browser>> /\ pc = "accept"
      BY <2>3 DEF Accept
    <3> QED BY <3>1 DEF InNewPage
  <2>4. CASE Enter \/ Begin \/ StartFails \/ NoBrowser
    BY <2>4 DEF Enter, Begin, StartFails, NoBrowser
  <2> QED BY <1>1, <2>1, <2>2, <2>3, <2>4 DEF Opening
<1>2. CASE Exchanging
  <2>1. CASE WriteAction
    <3>1. CASE pc' = "after"
      BY <3>1
    <3>2. CASE pc' # "after"
      <4>1. /\ pc = "write" /\ pc' = "written" /\ UNCHANGED <<action, browser, rec>>
            /\ client' = [client EXCEPT
                 ![browser].at = "acting", ![browser].action = action,
                 ![browser].url = IF InNewPage(browser) THEN rec[browser].locate_url ELSE NoUrl]
        BY <2>1, <3>2 DEF WriteAction, UrlSent, IoError
      <4>2. client'[browser].at = "acting" /\ client'[browser].action = action
        BY <1>0, <4>1 DEF Process
      <4> QED BY <4>1, <4>2 DEF InNewPage
    <3> QED BY <3>1, <3>2
  <2>2. CASE Connected \/ ReadRequest \/ Written \/ ReadAnswer
    BY <2>2 DEF Connected, ReadRequest, Written, ReadAnswer, IoError, InNewPage
  <2> QED BY <1>2, <2>1, <2>2 DEF Exchanging
<1>3. CASE Analysing
  <2>1. CASE AnalyseAnswer
    <3>1. rec'[browser].inited = rec[browser].inited
      BY <1>0, <2>1 DEF AnalyseAnswer, Located, Record
    <3> QED BY <2>1, <3>1 DEF AnalyseAnswer
  <2>2. CASE AnalyseError
    BY <1>0, <2>2 DEF AnalyseError, Record
  <2>3. CASE AnalyseStopped \/ AskContinue \/ AskGiveUp
    BY <2>3 DEF AnalyseStopped, AskContinue, AskGiveUp
  <2> QED BY <1>3, <2>1, <2>2, <2>3 DEF Analysing
<1>4. CASE Walking
  <2>1. /\ From \in Actions(root) /\ Turn(From, NextAction(root, outputs, From))
        /\ pc \in {"next", "walk", "skip"} /\ pc' \in {"walk", "skip"}
        /\ UNCHANGED <<browser, client, action>>
    BY <1>4, WalkStep
  <2>2. rec'[browser].inited = rec[browser].inited
    BY <1>0, <2>1, TurnEffect
  <2> QED BY <2>1, <2>2
<1>5. CASE Selecting
  BY <1>5 DEF Selecting, Land, SelectStopped
<1>6. CASE Ending
  BY <1>6 DEF Ending, WriteVerdict, ClosePipe, KeepPipe, AwaitEnd, Retry, Disconnect,
     Disconnected, Over, Release, Released, IoError
<1>7. ASSUME NEW p \in Pages(root), Act(p) \/ Told(p) \/ Lost(p) \/ Crash(p)
      PROVE  StageInv'
  <2>1. UNCHANGED <<pc, action, browser, rec>>
    BY <1>7, Elsewhere
  <2>2. \/ client'[browser] = client[browser]
        \/ client'[browser].at = "dead"
        \/ client[browser].at = "acting" /\ client'[browser].at = "answer"
             /\ client'[browser].action = client[browser].action
        \/ client[browser].at = "told"
        \/ ~rec[browser].inited /\ client'[browser].at = "dead"
    <3>1. CASE p # browser
      BY <1>0, <1>7, <3>1 DEF Act, Told, Lost, Client, Crash
    <3>2. CASE p = browser
      <4>1. CASE Act(p)
        BY <1>0, <3>2, <4>1 DEF Act, Process
      <4>2. CASE Told(p) \/ Lost(p)
        BY <1>0, <3>2, <4>2 DEF Told, Lost, Client, Process
      <4>3. CASE Crash(p)
        BY <1>0, <3>2, <4>3 DEF Crash, Process
      <4> QED BY <1>7, <4>1, <4>2, <4>3
    <3> QED BY <3>1, <3>2
  <2> QED BY <2>1, <2>2 DEF InNewPage
<1>8. CASE Stop \/ UNCHANGED runVars
  BY <1>8 DEF Stop, runVars, thread, InNewPage
<1>9. CASE Beginning
  BY <1>9, BeginStep
<1> QED BY StepCases, <1>1, <1>2, <1>3, <1>4, <1>5, <1>6, <1>7, <1>8, <1>9

-----------------------------------------------------------------------------
(* The page that is shown is the one that was located.                     *)

(* After the last link of a page nothing is located any more, and the last *)
(* action of the page is tried over and over.                              *)
SpentInv ==
  Live /\ rec[browser].inited /\ rec[browser].locate_url = NoUrl =>
    /\ browser # Top /\ outputs[browser] = <<>>
    /\ \/ HasLocal(root) \/ action = NoAction \/ root.page[action] # browser
       \/ NextItem(root, action) = NoAction

(* Actions that may lead to another page. *)
Moves(a) == root.kind[a] \in {"click", "load"}

SpentWalk ==
  pc = "walk" /\ ~HasLocal(root) /\ rec[browser].locate_url = NoUrl =>
    next = NoAction \/ ret # "ok" \/ (root.page[next] # browser /\ ~Moves(action))

(* A page the thread turns to has no browser yet. *)
LEMMA NewPage ==
  ASSUME Typed, ActionInv, PageInv, StageInv, FreshInv, [Next]_runVars, Live',
         browser' # browser
  PROVE  /\ ~rec'[browser'].inited /\ rec'[browser'].current_url = NoUrl
         /\ client'[browser'] = Quiet /\ pc' \in {"enter", "enterSkip", "top"}
         /\ browser' \in Pages(root)
<1>0. FreshInv' /\ root' = root
  BY FreshKept, RootKept
<1>1. CASE Beginning
  <2>1. Entering'
    BY <1>1, BeginStep DEF Entering
  <2>2. browser' \in Pages(root)
    BY <1>0, <1>1, BeginStep, TurnOK, ScriptFacts DEF Typed, ThreadOK
  <2> QED BY <1>0, <2>1, <2>2 DEF FreshInv, Entering, Quiet
<1>2. CASE Retry /\ browser' >= browser /\ action' # NoAction /\ browser' = root.page[action']
  <2>1. /\ pc = "retry" /\ pc' = "top" /\ UNCHANGED <<rec, client>>
        /\ action' \in Actions(root)
    BY <1>2 DEF Retry, Typed, ThreadOK
  <2>2. browser' \in Pages(root)
    BY <1>2, <2>1, ScriptFacts DEF Typed, ThreadOK
  <2>3. browser' > browser
    <3>1. browser' \in Nat /\ browser \in Nat
      BY <2>2, PageNumbers DEF Typed, ThreadOK
    <3> QED BY <1>2, <3>1
  <2> QED BY <2>1, <2>2, <2>3 DEF FreshInv, Live
<1> QED BY <1>0, <1>1, <1>2, BrowserMoves DEF Live

LEMMA UrlFacts ==
  /\ NoUrl \notin Url /\ "located" # NoUrl /\ "blank" # NoUrl
  /\ Link \subseteq Url /\ {"located", "blank", "clicked"} \subseteq Url \ Link
BY LinkAssumption DEF Url, NoUrl, Home

(* How the search leaves the page in use. *)
LEMMA SpentTurn ==
  ASSUME Typed, ActionInv, PageInv, StageInv, SpentInv, Walking, [Next]_runVars,
         rec'[browser].locate_url = NoUrl
  PROVE  /\ browser # Top /\ outputs'[browser] = <<>>
         /\ ~HasLocal(root) =>
              /\ NextItem(root, action) = NoAction
              /\ next' = NoAction \/ ret' # "ok" \/ (root.page[next'] # browser /\ ~Moves(action))
<1> DEFINE n == NextAction(root, outputs, From)
<1>1. /\ From \in Actions(root) /\ Turn(From, n) /\ next' = n.next /\ ret' = n.ret
      /\ root' = root /\ (~HasLocal(root) => From = action)
      /\ pc \in {"next", "walk", "skip"}
  BY WalkStep DEF From, Turn
<1>2. /\ browser \in Pages(root) /\ browser = root.page[action] /\ action \in Actions(root)
      /\ rec[browser].inited
  BY <1>1 DEF Typed, ThreadOK, ActionInv, PageInv, StageInv
<1>3. /\ n.source # NoAction => n.source \in Actions(root) /\ outputs[n.source] # <<>>
      /\ NoAction \notin Actions(root)
      /\ browser # Top => browser \in Actions(root)
  BY <1>1, <1>2, NextActionIn, ScriptFacts DEF Typed, ThreadOK
<1>4. /\ browser # Top /\ outputs[browser] = <<>>
      /\ ~HasLocal(root) => NextItem(root, action) = NoAction
  <2>1. CASE rec[browser].locate_url = NoUrl
    BY <1>1, <1>2, <2>1, ScriptFacts DEF SpentInv, Live, Typed, ThreadOK
  <2>2. CASE rec[browser].locate_url # NoUrl
    <3>1. ~(/\ browser # Top /\ browser = n.source
            /\ rec'[browser].locate_url = Head(outputs[browser]))
      <4>1. browser # Top /\ browser = n.source => Head(outputs[browser]) \in Link
        BY <1>3, LinkFacts DEF Typed, HistoryOK, Top, NoAction
      <4> QED BY <4>1, UrlFacts
    <3>2. browser # Top /\ browser = root.page[From] /\ n.relation = "none"
      BY <1>1, <1>2, <2>2, <3>1, TurnEffect, UrlFacts
    <3>3. NextItem(root, From) = NoAction /\ outputs[browser] = <<>>
      BY <1>1, <3>2, NextActionCases, ScriptFacts DEF Typed, ThreadOK
    <3> QED BY <1>1, <3>2, <3>3
  <2> QED BY <2>1, <2>2
<1>5. outputs'[browser] = <<>>
  <2>1. outputs'[browser] = IF browser = n.source THEN Tail(outputs[browser]) ELSE outputs[browser]
    BY <1>1, <1>3, <1>4, TurnEffect
  <2> QED BY <1>3, <1>4, <2>1 DEF Top, NoAction
<1>6. ASSUME ~HasLocal(root)
      PROVE  next' = NoAction \/ ret' # "ok" \/ (root.page[next'] # browser /\ ~Moves(action))
  <2>1. From = action /\ NextItem(root, action) = NoAction
    BY <1>1, <1>4, <1>6
  <2>2. CASE n.source = NoAction
    BY <1>1, <2>1, <2>2, NextActionCases, ScriptFacts DEF Typed, ThreadOK
  <2>3. CASE n.source # NoAction
    <3>1. n.source = action /\ root.kind[action] = "links"
      <4>1. n.source \in {action, browser}
        BY <1>1, <1>2, <2>1, <2>3, NextActionCases, ScriptFacts DEF Typed, ThreadOK
      <4>2. n.source # browser
        BY <1>3, <1>4, <2>3
      <4> QED BY <1>1, <1>2, <2>1, <2>3, <4>1, <4>2, NextActionCases, ScriptFacts
              DEF Typed, ThreadOK
    <3>2. CASE root.kind[FirstItem(root, action)] # "jump"
      <4>1. n.next = FirstItem(root, action) /\ Items(root, action) # {}
        BY <1>1, <2>1, <3>1, <3>2, <2>3, NextActionCases, ScriptFacts DEF Typed, ThreadOK
      <4>2. root.page[n.next] = action
        BY <4>1, FirstItemIn, ScriptFacts DEF Typed, ThreadOK, Items
      <4>3. action # browser
        <5>1. action \in Nat /\ browser < action /\ browser \in Nat
          BY <1>2, ScriptFacts, PageNumbers DEF WellFormed, Typed, ThreadOK
        <5> QED BY <5>1
      <4> QED BY <1>1, <3>1, <4>2, <4>3 DEF Moves
    <3>3. CASE root.kind[FirstItem(root, action)] = "jump"
      <4>1. n.next # NoAction => n.ret # "ok"
        BY <1>1, <1>2, <1>4, <2>1, <3>1, <2>3, <3>3, NextActionCases, ScriptFacts
          DEF Typed, ThreadOK
      <4> QED BY <1>1, <4>1
    <3> QED BY <3>2, <3>3
  <2> QED BY <2>2, <2>3
<1> QED BY <1>4, <1>5, <1>6

(* What a step makes of the action to be executed, and of the search.      *)
LEMMA ActionEffect ==
  ASSUME Typed, ActionInv, [Next]_runVars
  PROVE  /\ \/ action' = action \/ action' = NoAction
            \/ Beginning
            \/ Land /\ ret = "ok" /\ action' = next
         /\ pc' = "walk" => Walking \/ UNCHANGED <<pc, walk, ret, action, browser, rec>>
<1>1. CASE Beginning \/ Walking
  BY <1>1, BeginStep, WalkStep
<1>2. CASE Opening
  BY <1>2 DEF Opening, Enter, Begin, StartBrowser, StartFails, UseBrowser, NoBrowser, Accept
<1>3. CASE Exchanging
  BY <1>3
    DEF Exchanging, Connected, ReadRequest, WriteAction, Written, ReadAnswer, IoError
<1>4. CASE Analysing \/ Selecting
  BY <1>4 DEF Analysing, AnalyseAnswer, AnalyseError, AnalyseStopped, AskContinue,
     AskGiveUp, Selecting, Land, SelectStopped
<1>5. CASE Ending
  BY <1>5 DEF Ending, WriteVerdict, ClosePipe, KeepPipe, AwaitEnd, Retry, Disconnect,
     Disconnected, Over, Release, Released, IoError
<1>6. ASSUME NEW p \in Pages(root), Act(p) \/ Told(p) \/ Lost(p) \/ Crash(p)
      PROVE  UNCHANGED <<pc, walk, ret, action, browser, rec>>
  BY <1>6, Elsewhere
<1>7. CASE Stop \/ UNCHANGED runVars
  BY <1>7 DEF Stop, runVars, thread
<1> QED BY StepCases, <1>1, <1>2, <1>3, <1>4, <1>5, <1>6, <1>7

LEMMA SpentKept ==
  ASSUME Typed, ActionInv, PageInv, StageInv, FreshInv, SpentInv, SpentWalk, [Next]_runVars
  PROVE  SpentInv' /\ SpentWalk'
<1>0. root' = root /\ HasLocal(root)' = HasLocal(root)
  BY RootKept DEF HasLocal, Actions
<1>1. SpentWalk'
  <2> SUFFICES ASSUME pc' = "walk", ~HasLocal(root), rec'[browser'].locate_url = NoUrl
               PROVE  next' = NoAction \/ ret' # "ok"
                        \/ (root.page[next'] # browser' /\ ~Moves(action'))
    BY <1>0 DEF SpentWalk, Moves
  <2>1. CASE Walking
    <3>1. browser' = browser /\ action' = action
      BY <2>1, WalkStep
    <3> QED BY <2>1, <3>1, SpentTurn
  <2>2. CASE UNCHANGED <<pc, walk, ret, action, browser, rec>>
    BY <2>2 DEF SpentWalk
  <2> QED BY <2>1, <2>2, ActionEffect
<1>2. ASSUME Live', rec'[browser'].inited, rec'[browser'].locate_url = NoUrl
      PROVE  /\ browser' # Top /\ outputs'[browser'] = <<>>
             /\ \/ HasLocal(root) \/ action' = NoAction \/ root.page[action'] # browser'
                \/ NextItem(root, action') = NoAction
  <2>1. browser' = browser /\ Live /\ ~Beginning
    <3>1. ~Entering'
      <4>1. Entering' => browser' \in Pages(root)
        BY <1>2, NewPage DEF Typed, ThreadOK
      <4> QED BY <1>0, <1>2, <4>1, FreshKept DEF FreshInv
    <3> QED BY <1>2, <3>1, NewPage, Onward, BeginStep DEF Live, Entering
  <2>2. browser \in Pages(root) /\ (browser # Top => browser \in Actions(root))
    BY ScriptFacts DEF Typed, ThreadOK
  <2>3. CASE Walking
    <3>1. action' = action
      BY <2>3, WalkStep
    <3> QED BY <1>2, <2>1, <2>3, <3>1, SpentTurn
  <2>4. CASE ~Walking
    <3>1. rec[browser].inited /\ rec[browser].locate_url = NoUrl
      <4>1. rec[browser] \in Record /\ client[browser] \in Process
        BY <2>2 DEF Typed, RecOK, ClientOK
      <4>2. AnalyseAnswer /\ rec'[browser] = Located(rec[browser], client[browser])
              => rec[browser].inited /\ rec[browser].locate_url = NoUrl
        BY <1>2, <2>1, <4>1, UrlFacts DEF Located, Record, Process
      <4> QED BY <1>2, <2>1, <2>2, <2>4, <4>2, RecEffect DEF InNewPage, Live
    <3>2. /\ browser # Top /\ outputs[browser] = <<>>
          /\ \/ HasLocal(root) \/ action = NoAction \/ root.page[action] # browser
             \/ NextItem(root, action) = NoAction
      BY <2>1, <3>1 DEF SpentInv
    <3>3. outputs'[browser] = outputs[browser]
      <4>1. ~(AnalyseAnswer /\ action = browser)
        <5>1. AnalyseAnswer => browser = root.page[action] /\ action \in Actions(root)
          BY DEF AnalyseAnswer, ActionInv, PageInv, Typed, ThreadOK, Sent
        <5>2. AnalyseAnswer => browser < action /\ browser \in Nat /\ action \in Nat
          BY <2>2, <5>1, ScriptFacts, PageNumbers DEF WellFormed, Typed, ThreadOK
        <5> QED BY <5>2
      <4> QED BY <2>1, <2>2, <2>4, <3>2, <4>1, HistoryEffect
    <3>4. Land /\ ret = "ok" /\ action' = next =>
            HasLocal(root) \/ action' = NoAction \/ root.page[action'] # browser
      BY <3>1 DEF SpentWalk, Land
    <3> QED BY <2>1, <3>2, <3>3, <3>4, ActionEffect
  <2> QED BY <2>3, <2>4
<1> QED BY <1>0, <1>1, <1>2 DEF SpentInv

(* The ways into and out of the exchange of an action and its answer.      *)
LEMMA SentEffect ==
  ASSUME Typed, ActionInv, [Next]_runVars
  PROVE  /\ pc \notin Sent /\ pc' \in Sent => WriteAction /\ ActionSent
         /\ pc \in Sent /\ pc' \notin Sent =>
              \/ AnalyseAnswer \/ AnalyseError
              \/ UNCHANGED <<client, browser, stop_work>> /\ (stop_work \/ Gone(browser))
         /\ pc \in Sent /\ pc' \in Sent => UNCHANGED <<action, browser, rec>>
         /\ pc' = "analyse" => pc = "analyse" \/ client[browser].at = "answer"
         /\ stop_work => stop_work'
         /\ StartBrowser \/ StartFails => rec'[browser].current_url = NoUrl /\ browser' = browser
<1> USE DEF Sent
<1>0. browser \in Pages(root) /\ rec \in [Pages(root) -> Record]
  BY DEF Typed, RecOK, ThreadOK
<1>1. CASE Beginning \/ Walking
  <2>1. ~(StartBrowser \/ StartFails)
    BY <1>1, BeginStep, WalkStep DEF StartBrowser, StartFails
  <2> QED BY <1>1, <2>1, BeginStep, WalkStep
<1>2. StartBrowser \/ StartFails => rec'[browser].current_url = NoUrl /\ browser' = browser
  BY <1>0 DEF StartBrowser, StartFails, Record
<1>3. CASE Opening
  <2>1. pc \notin Sent /\ pc' \notin Sent
    BY <1>3 DEF Opening, Enter, Begin, StartBrowser, StartFails, UseBrowser, NoBrowser, Accept
  <2>2. stop_work' = stop_work
    BY <1>3 DEF Opening, Enter, Begin, StartBrowser, StartFails, UseBrowser, NoBrowser, Accept
  <2> QED BY <1>2, <2>1, <2>2
<1>4. CASE WriteAction
  <2>1. CASE pc' = "after"
    BY <1>2, <1>4, <2>1 DEF WriteAction, IoError
  <2>2. CASE pc' # "after"
    <3>1. /\ ~stop_work /\ pc = "write" /\ pc' = "written" /\ client[browser].at = "request"
          /\ client' = [client EXCEPT
               ![browser].at = "acting", ![browser].action = action,
               ![browser].url = IF InNewPage(browser) THEN rec[browser].locate_url ELSE NoUrl]
          /\ UNCHANGED <<action, browser, rec, outputs, found, visited, saved, stop_work>>
      BY <1>4, <2>2 DEF WriteAction, UrlSent, IoError
    <3>2. ActionSent
      BY <1>0, <3>1 DEF ActionSent, Typed, ClientOK, Process
    <3> QED BY <1>2, <1>4, <3>1, <3>2
  <2> QED BY <2>1, <2>2
<1>5. CASE Connected \/ ReadRequest \/ Written \/ ReadAnswer
  BY <1>2, <1>5 DEF Connected, ReadRequest, Written, ReadAnswer, IoError, Gone
<1>6. CASE Analysing \/ Selecting
  BY <1>2, <1>6 DEF Analysing, AnalyseAnswer, AnalyseError, AnalyseStopped, AskContinue,
     AskGiveUp, Selecting, Land, SelectStopped
<1>7. CASE Ending
  <2>1. pc \notin Sent /\ pc' \notin Sent
    BY <1>7 DEF Ending, WriteVerdict, ClosePipe, KeepPipe, AwaitEnd, Retry, Disconnect,
       Disconnected, Over, Release, Released, IoError
  <2>2. stop_work' = stop_work
    BY <1>7 DEF Ending, WriteVerdict, ClosePipe, KeepPipe, AwaitEnd, Retry, Disconnect,
       Disconnected, Over, Release, Released, IoError
  <2> QED BY <1>2, <2>1, <2>2
<1>8. ASSUME NEW p \in Pages(root), Act(p) \/ Told(p) \/ Lost(p) \/ Crash(p)
      PROVE  UNCHANGED <<pc, action, browser, rec, stop_work>>
  BY <1>8, Elsewhere
<1>9. CASE Stop \/ UNCHANGED runVars
  BY <1>2, <1>9 DEF Stop, runVars, thread
<1> QED BY StepCases, <1>1, <1>2, <1>3, <1>4, <1>5, <1>6, <1>7, <1>8, <1>9 DEF Exchanging

(* A browser carries an action out only while the thread awaits its answer *)
(* (or has given up, because the script was stopped).                      *)
BusyInv ==
  Live /\ ~stop_work /\ client[browser].at = "acting" => pc \in {"written", "answer"}

LEMMA BusyKept ==
  ASSUME Typed, ActionInv, PageInv, StageInv, FreshInv, BusyInv, [Next]_runVars
  PROVE  BusyInv'
<1> SUFFICES ASSUME Live', ~stop_work', client'[browser'].at = "acting"
             PROVE  pc' \in {"written", "answer"}
  BY DEF BusyInv
<1>1. browser' = browser /\ Live /\ ~stop_work
  BY NewPage, Onward, SentEffect DEF Live, Quiet
<1>2. browser \in Pages(root)
  BY DEF Typed, ThreadOK
<1>3. CASE client[browser].at = "acting"
  <2>1. pc \in Sent /\ pc \in {"written", "answer"}
    BY <1>1, <1>3 DEF BusyInv, Sent
  <2>2. pc' \in Sent
    <3>1. ~AnalyseAnswer /\ ~AnalyseError
      BY <2>1 DEF AnalyseAnswer, AnalyseError
    <3> QED BY <1>1, <1>3, <2>1, <3>1, SentEffect DEF Gone
  <2>3. StageInv'
    BY StageKept
  <2> QED BY <1>1, <2>2, <2>3 DEF StageInv, Sent
<1>4. CASE client[browser].at # "acting"
  <2>1. ~Act(browser) /\ ~GoesOn(browser)
    BY <1>1, <1>4 DEF Act, GoesOn
  <2>2. ActionSent
    BY <1>1, <1>2, <1>4, <2>1, ClientEffect DEF Quiet
  <2> QED BY <2>2 DEF ActionSent
<1> QED BY <1>3, <1>4

-----------------------------------------------------------------------------
(* An action is carried out where the script is.                           *)

(* The browser shows the page of current_url, or none; after the last link *)
(* of a page nothing is located, and the last action may have led on.      *)
Shown ==
  \/ client[browser].page \in {rec[browser].current_url, "blank"}
  \/ /\ rec[browser].locate_url = NoUrl
     /\ HasLocal(root) \/ action = NoAction \/ (root.page[action] = browser /\ Moves(action))

ShownInv ==
  LET r == rec[browser]
      c == client[browser]
  IN  Live /\ ~LocatedAgain(browser) =>
        /\ ~stop_work /\ pc \notin Sent /\ ~Gone(browser) /\ r.current_url # NoUrl => Shown
        /\ pc \in Sent /\ c.at = "acting" =>
             \/ c.url # NoUrl /\ c.url = r.locate_url /\ r.current_url = NoUrl
             \/ /\ c.url = NoUrl /\ r.locate_url \in {NoUrl, r.current_url}
                /\ r.current_url # NoUrl => Shown
        /\ pc \in Sent /\ c.at = "answer" =>
             \/ c.page = "clicked" /\ Moves(action)
             \/ r.current_url = NoUrl /\ c.page \in {r.locate_url, "blank"}
             \/ r.current_url = NoUrl /\ r.locate_url = NoUrl
             \/ r.locate_url \in {NoUrl, r.current_url} /\ Shown

(* A page that is shown stays so while the next action is searched.        *)
LEMMA ShownTurn ==
  ASSUME Typed, ActionInv, PageInv, StageInv, SpentInv, Shown, ~LocatedAgain(browser), Walking
  PROVE  Shown'
<1> DEFINE n == NextAction(root, outputs, From)
<1>1. /\ From \in Actions(root) /\ Turn(From, n) /\ action \in Actions(root)
      /\ UNCHANGED <<root, action, browser, client>> /\ (~HasLocal(root) => From = action)
      /\ rec[browser].inited /\ browser \in Pages(root) /\ NoAction \notin Actions(root)
      /\ pc \in {"next", "walk", "skip"}
  BY WalkStep, ScriptFacts DEF From, Typed, ThreadOK, ActionInv, StageInv
<1>2. rec'[browser].current_url = rec[browser].current_url
  BY <1>1, TurnEffect
<1>3. CASE client[browser].page \in {rec[browser].current_url, "blank"}
  BY <1>1, <1>2, <1>3 DEF Shown
<1>4. CASE /\ rec[browser].locate_url = NoUrl
           /\ HasLocal(root) \/ (root.page[action] = browser /\ Moves(action))
  <2>1. /\ browser # Top /\ outputs[browser] = <<>> /\ browser \in Actions(root)
        /\ HasLocal(root) \/ NextItem(root, action) = NoAction
    BY <1>1, <1>4, ScriptFacts DEF SpentInv, Live, Typed, ThreadOK
  <2>2. ~(n.next # NoAction /\ root.kind[n.next] = "locate" /\ root.page[n.next] = browser)
    <3>1. CASE HasLocal(root)
      <4>1. n.next # NoAction => n.next \in Actions(root)
        BY <1>1, NextActionIn, ScriptFacts DEF Typed, ThreadOK
      <4> QED BY <2>1, <3>1, <4>1 DEF LocatedAgain, Items
    <3>2. CASE ~HasLocal(root)
      <4>1. From = action /\ NextItem(root, action) = NoAction
        BY <1>1, <2>1, <3>2
      <4>2. n.source = NoAction
        <5>1. n.source # NoAction =>
                /\ outputs[n.source] # <<>>
                /\ (n.source = action /\ root.kind[action] = "links") \/ n.source = browser
          BY <1>1, <1>4, <3>2, <4>1, NextActionCases, ScriptFacts DEF Typed, ThreadOK
        <5> QED BY <1>4, <2>1, <3>2, <5>1 DEF Moves
      <4> QED BY <1>1, <4>1, <4>2, NextActionCases, ScriptFacts DEF Typed, ThreadOK
    <3> QED BY <3>1, <3>2
  <2>3. ~(browser = n.source)
    <3>1. n.source # NoAction => outputs[n.source] # <<>>
      BY <1>1, NextActionCases, ScriptFacts DEF Typed, ThreadOK
    <3> QED BY <2>1, <3>1 DEF Top, NoAction
  <2>4. rec'[browser].locate_url = NoUrl
    BY <1>1, <1>4, <2>2, <2>3, TurnEffect
  <2>5. HasLocal(root)' = HasLocal(root) /\ Moves(action)' = Moves(action)
    BY <1>1 DEF HasLocal, Actions, Moves
  <2> QED BY <1>1, <1>4, <2>4, <2>5 DEF Shown
<1> QED BY <1>1, <1>3, <1>4 DEF Shown

(* Before the action is sent, and after its answer was analysed. *)
LEMMA ShownQuiet ==
  ASSUME Typed, ActionInv, PageInv, StageInv, FreshInv, SpentInv, SpentWalk, BusyInv,
         ShownInv, [Next]_runVars, pc \notin Sent, Live', ~LocatedAgain(browser),
         browser' = browser, ~Beginning, ~stop_work', pc' \notin Sent, ~Gone(browser)',
         rec'[browser].current_url # NoUrl
  PROVE  Shown'
<1>0. root' = root /\ HasLocal(root)' = HasLocal(root) /\ browser \in Pages(root)
  BY RootKept DEF HasLocal, Actions, Typed, ThreadOK
<1>1. CASE Walking
  <2>1. ~Gone(browser) /\ ~stop_work /\ Live /\ rec[browser].current_url # NoUrl
    BY <1>0, <1>1, WalkStep, TurnEffect, Onward DEF Gone, Live
  <2>2. Shown
    BY <2>1 DEF ShownInv
  <2> QED BY <1>1, <2>2, ShownTurn
<1>2. CASE ~Walking
  <2>1. ~StartBrowser /\ ~StartFails
    BY SentEffect
  <2>2. ~stop_work /\ Live /\ ~ActionSent
    BY SentEffect, Onward DEF Live, ActionSent, Sent
  <2>3. ~Act(browser)
    BY <2>2 DEF Act, BusyInv, Sent
  <2>4. client'[browser].page = client[browser].page /\ ~Gone(browser)
    BY <1>0, <2>1, <2>2, <2>3, ClientEffect DEF GoesOn, Gone
  <2>5. rec'[browser] = rec[browser]
    <3>1. ~AnalyseAnswer /\ ~AnalyseError
      BY DEF AnalyseAnswer, AnalyseError, Sent
    <3> QED BY <1>0, <1>2, <3>1, RecEffect
  <2>6. Shown
    BY <2>2, <2>4, <2>5 DEF ShownInv
  <2>7. CASE action' = action \/ action' = NoAction
    BY <1>0, <2>4, <2>5, <2>6, <2>7 DEF Shown, Moves
  <2>8. CASE Land /\ ret = "ok" /\ action' = next
    <3>1. pc = "walk" /\ action # NoAction
      BY <2>8 DEF Land, ActionInv
    <3> QED BY <1>0, <2>4, <2>5, <2>6, <2>8, <3>1 DEF Shown, SpentWalk
  <2> QED BY <2>7, <2>8, ActionEffect
<1> QED BY <1>1, <1>2

(* An answer was analysed. *)
LEMMA ShownAnswered ==
  ASSUME Typed, ActionInv, PageInv, StageInv, ShownInv, [Next]_runVars,
         AnalyseAnswer \/ AnalyseError,
         ~LocatedAgain(browser), ~Gone(browser)', rec'[browser].current_url # NoUrl
  PROVE  Shown'
<1>0. /\ root' = root /\ HasLocal(root)' = HasLocal(root) /\ Moves(action)' = Moves(action)
      /\ pc = "analyse" /\ UNCHANGED <<action, browser, client>>
  BY RootKept DEF HasLocal, Actions, Moves, AnalyseAnswer, AnalyseError
<1>1. /\ rec[browser] \in Record /\ rec \in [Pages(root) -> Record] /\ browser \in Pages(root)
      /\ client[browser] \in Process
  BY DEF Typed, RecOK, ClientOK, ThreadOK
<1>2. /\ client[browser].at = "answer" /\ browser = root.page[action]
      /\ InNewPage(browser) => rec[browser].current_url = NoUrl
  BY <1>0 DEF StageInv, Sent, Gone, PageInv, ActionInv
<1>3. \/ client[browser].page = "clicked" /\ Moves(action)
      \/ /\ rec[browser].current_url = NoUrl
         /\ client[browser].page \in {rec[browser].locate_url, "blank"}
      \/ rec[browser].current_url = NoUrl /\ rec[browser].locate_url = NoUrl
      \/ rec[browser].locate_url \in {NoUrl, rec[browser].current_url} /\ Shown
  BY <1>0, <1>2 DEF ShownInv, Live, Sent
<1>4. CASE AnalyseAnswer
  <2>1. rec'[browser] = Located(rec[browser], client[browser])
    BY <1>1, <1>4 DEF AnalyseAnswer
  <2>2. CASE rec'[browser] = rec[browser] /\ ~Moves(action)
    BY <1>0, <1>3, <2>2 DEF Shown
  <2>3. CASE /\ rec'[browser].current_url = rec[browser].locate_url
             /\ rec'[browser].locate_url = rec[browser].locate_url /\ ~Moves(action)
    BY <1>0, <1>3, <2>3 DEF Shown
  <2>4. CASE rec'[browser].current_url = client[browser].page
    BY <1>0, <2>4 DEF Shown
  <2>5. \/ rec'[browser] = rec[browser] /\ ~Moves(action)
        \/ /\ rec'[browser].current_url = rec[browser].locate_url
           /\ rec'[browser].locate_url = rec[browser].locate_url /\ ~Moves(action)
        \/ rec'[browser].current_url = client[browser].page
    BY <1>1, <2>1 DEF Located, Record, Moves
  <2> QED BY <2>2, <2>3, <2>4, <2>5
<1>5. CASE AnalyseError
  <2>1. /\ rec'[browser].locate_url = rec[browser].locate_url
        /\ rec'[browser].current_url = rec[browser].current_url
        /\ rec[browser].current_url # rec[browser].locate_url
    BY <1>1, <1>5 DEF AnalyseError, Record
  <2>2. rec[browser].locate_url = NoUrl
    BY <1>2, <2>1 DEF InNewPage
  <2> QED BY <1>0, <1>2, <1>3, <2>1, <2>2 DEF Shown
<1> QED BY <1>4, <1>5

(* While the action is carried out, and until its answer is analysed. *)
LEMMA ShownSent ==
  ASSUME Typed, ActionInv, PageInv, StageInv, ShownInv, [Next]_runVars, pc' \in Sent,
         ~LocatedAgain(browser)
  PROVE  LET r == rec'[browser]
             c == client'[browser]
         IN  /\ c.at = "acting" =>
                  \/ c.url # NoUrl /\ c.url = r.locate_url /\ r.current_url = NoUrl
                  \/ /\ c.url = NoUrl /\ r.locate_url \in {NoUrl, r.current_url}
                     /\ r.current_url # NoUrl => Shown'
             /\ c.at = "answer" =>
                  \/ c.page = "clicked" /\ Moves(action)
                  \/ r.current_url = NoUrl /\ c.page \in {r.locate_url, "blank"}
                  \/ r.current_url = NoUrl /\ r.locate_url = NoUrl
                  \/ r.locate_url \in {NoUrl, r.current_url} /\ Shown'
<1>0. /\ root' = root /\ HasLocal(root)' = HasLocal(root) /\ Moves(action)' = Moves(action')
      /\ browser \in Pages(root) /\ client[browser] \in Process
  BY RootKept DEF HasLocal, Actions, Moves, Typed, ThreadOK, ClientOK
<1>1. CASE pc \notin Sent
  <2>1. ActionSent
    BY <1>1, SentEffect
  <2>2. Shown' <=> Shown
    BY <1>0, <2>1 DEF ActionSent, Shown, Moves
  <2>3. InNewPage(browser) => rec[browser].current_url = NoUrl
    BY <2>1 DEF ActionSent, StageInv
  <2>4. rec[browser].current_url # NoUrl => Shown
    BY <1>1, <2>1 DEF ActionSent, ShownInv, Live, Gone
  <2> QED BY <2>1, <2>2, <2>3, <2>4 DEF ActionSent, InNewPage
<1>2. CASE pc \in Sent
  <2>1. UNCHANGED <<action, browser, rec>>
    BY <1>2, SentEffect
  <2>2. CASE client'[browser] = client[browser]
    <3>1. Shown' <=> Shown
      BY <1>0, <2>1, <2>2 DEF Shown, Moves
    <3> QED BY <1>2, <2>1, <2>2, <3>1 DEF ShownInv, Live, Sent
  <2>3. CASE Act(browser)
    <3>1. PICK result \in {"ok", "empty", "none", "error"}, page \in Url :
            /\ client[browser].at = "acting"
            /\ \/ page = ActsOn(browser)
               \/ page = "blank" /\ client[browser].url # NoUrl
               \/ page = "clicked" /\ Moves(client[browser].action)
            /\ client'[browser].at = "answer" /\ client'[browser].page = page
      BY <1>0, <2>3 DEF Act, Moves, Typed, ClientOK, Process
    <3>2. /\ \/ /\ client[browser].url # NoUrl /\ client[browser].url = rec[browser].locate_url
                /\ rec[browser].current_url = NoUrl
             \/ /\ client[browser].url = NoUrl
                /\ rec[browser].locate_url \in {NoUrl, rec[browser].current_url}
                /\ rec[browser].current_url # NoUrl => Shown
          /\ client[browser].action = action
      BY <1>2, <3>1 DEF ShownInv, StageInv, Live, Sent
    <3>3. CASE page = "clicked" /\ Moves(client[browser].action)
      BY <3>1, <3>2, <3>3
    <3>4. CASE page = "blank" /\ client[browser].url # NoUrl
      BY <2>1, <3>1, <3>2, <3>4
    <3>5. CASE page = ActsOn(browser) /\ client[browser].url # NoUrl
      BY <2>1, <3>1, <3>2, <3>5 DEF ActsOn
    <3>6. CASE page = ActsOn(browser) /\ client[browser].url = NoUrl
      <4>1. client'[browser].page = client[browser].page
        BY <3>1, <3>6 DEF ActsOn
      <4>2. Shown' <=> Shown
        BY <1>0, <2>1, <4>1 DEF Shown, Moves
      <4> QED BY <2>1, <3>1, <3>2, <3>6, <4>2
    <3> QED BY <3>1, <3>3, <3>4, <3>5, <3>6
  <2>4. CASE GoesOn(browser)
    BY <2>4 DEF GoesOn
  <2>5. ~StartBrowser /\ ~StartFails /\ ~ActionSent
    BY <1>2 DEF StartBrowser, StartFails, ActionSent, Sent
  <2> QED BY <1>0, <2>2, <2>3, <2>4, <2>5, ClientEffect
<1> QED BY <1>1, <1>2

LEMMA ShownKept ==
  ASSUME Typed, ActionInv, PageInv, StageInv, FreshInv, SpentInv, SpentWalk, BusyInv,
         ShownInv, [Next]_runVars
  PROVE  ShownInv'
<1>0. root' = root /\ Moves(action)' = Moves(action')
  BY RootKept DEF Moves
<1>2. ASSUME Live', ~LocatedAgain(browser'), pc' \in Sent
      PROVE  LET r == rec'[browser']
                 c == client'[browser']
             IN  /\ c.at = "acting" =>
                      \/ c.url # NoUrl /\ c.url = r.locate_url /\ r.current_url = NoUrl
                      \/ /\ c.url = NoUrl /\ r.locate_url \in {NoUrl, r.current_url}
                         /\ r.current_url # NoUrl => Shown'
                 /\ c.at = "answer" =>
                      \/ c.page = "clicked" /\ Moves(action')
                      \/ r.current_url = NoUrl /\ c.page \in {r.locate_url, "blank"}
                      \/ r.current_url = NoUrl /\ r.locate_url = NoUrl
                      \/ r.locate_url \in {NoUrl, r.current_url} /\ Shown'
  <2>1. action' = action /\ browser' = browser
    BY <1>2, SentEffect DEF ActionSent
  <2> QED BY <1>2, <2>1, ShownSent
<1>3. ASSUME Live', ~LocatedAgain(browser'), ~stop_work', pc' \notin Sent, ~Gone(browser)',
             rec'[browser'].current_url # NoUrl
      PROVE  Shown'
  <2>1. browser' = browser
    BY <1>3, NewPage
  <2>2. ~Beginning
    <3>1. Beginning => Entering' /\ browser' \in Pages(root)
      BY <2>1, BeginStep DEF Entering, Typed, ThreadOK
    <3>2. Beginning => rec'[browser'].current_url = NoUrl
      BY <1>0, <1>3, <3>1, FreshKept DEF FreshInv
    <3> QED BY <1>3, <3>2
  <2>3. CASE pc \notin Sent
    BY <1>3, <2>1, <2>2, <2>3, ShownQuiet
  <2>4. CASE pc \in Sent
    <3>1. AnalyseAnswer \/ AnalyseError
      BY <1>3, <2>4, SentEffect DEF Gone
    <3> QED BY <1>3, <2>1, <2>4, <3>1, ShownAnswered
  <2> QED BY <2>3, <2>4
<1>4. (LocatedAgain(browser)') <=> LocatedAgain(browser')
  BY <1>0 DEF LocatedAgain, HasLocal, Items, Actions
<1>5. (Moves(action)') <=> Moves(action')
  BY <1>0
<1>6. (Gone(browser)') <=> client'[browser'].at \in {"none", "dead"}
  BY DEF Gone
<1> QED
  <2> SUFFICES ASSUME Live', ~LocatedAgain(browser')
               PROVE  ShownInv'
    BY <1>4 DEF ShownInv
  <2> QED BY <1>2, <1>3, <1>5, <1>6 DEF ShownInv, Sent

LEMMA ShownGives == ShownInv => ActsOnLocated
BY DEF ShownInv, ActsOnLocated, Shown, ActsOn, Live, Sent

-----------------------------------------------------------------------------
(* The inductive invariant. *)
PlaceInv ==
  /\ RunInv
  /\ FreshInv /\ StageInv /\ SpentInv /\ SpentWalk /\ BusyInv /\ ShownInv

LEMMA PlaceInvInit == Init => PlaceInv
<1> SUFFICES ASSUME Init PROVE PlaceInv
  OBVIOUS
<1>1. RunInv /\ Typed
  BY RunInvInit, TypeParts DEF RunInv
<1>2. /\ pc = "enter" /\ stop_work = FALSE /\ Live /\ Entering /\ browser = Top
      /\ \A a \in Actions(root) : outputs[a] = <<>> /\ found[a] = <<>> /\ visited[a] = <<>>
      /\ \A p \in Pages(root) : client[p] = Quiet /\ ~rec[p].inited /\ rec[p].current_url = NoUrl
  BY DEF Init, Live, Entering
<1>3. browser \in Pages(root) /\ \A p \in Pages(root) \ {Top} : p \in Actions(root)
  BY <1>1, ScriptFacts DEF Typed, ThreadOK
<1>4. FreshInv /\ StageInv
  BY <1>2, <1>3 DEF FreshInv, StageInv, Quiet, Sent
<1>5. SpentInv /\ SpentWalk /\ BusyInv
  BY <1>2, <1>3 DEF SpentInv, SpentWalk, BusyInv, Quiet
<1>6. ShownInv
  <2>1. Gone(browser) /\ pc \notin Sent
    BY <1>2, <1>3 DEF Gone, Quiet, Sent
  <2> QED BY <2>1 DEF ShownInv
<1> QED BY <1>1, <1>4, <1>5, <1>6 DEF PlaceInv

LEMMA PlaceParts ==
  ASSUME PlaceInv
  PROVE  /\ RunInv /\ Typed /\ ActionInv /\ PageInv
         /\ FreshInv /\ StageInv /\ SpentInv /\ SpentWalk /\ BusyInv /\ ShownInv
BY TypeParts DEF PlaceInv, RunInv

LEMMA PlaceInvNext == PlaceInv /\ [Next]_runVars => PlaceInv'
<1> SUFFICES ASSUME PlaceInv, [Next]_runVars PROVE PlaceInv'
  OBVIOUS
<1>1. /\ RunInv /\ Typed /\ ActionInv /\ PageInv
      /\ FreshInv /\ StageInv /\ SpentInv /\ SpentWalk /\ BusyInv /\ ShownInv
  BY PlaceParts
<1>2. RunInv'
  BY <1>1, RunInvNext
<1>3. FreshInv' /\ StageInv' /\ SpentInv' /\ SpentWalk' /\ BusyInv' /\ ShownInv'
  BY <1>1, FreshKept, StageKept, SpentKept, BusyKept, ShownKept
<1> QED BY <1>2, <1>3 DEF PlaceInv

LEMMA PlaceInvHolds == Spec => []PlaceInv
BY PlaceInvInit, PlaceInvNext, PTL DEF Spec

(* An action is carried out on the page the script has located, however    *)
(* often it is sent again and whichever process has died before.           *)
THEOREM ActsWhereLocated == Spec => []ActsOnLocated
<1>1. PlaceInv => ActsOnLocated
  BY ShownGives DEF PlaceInv
<1> QED BY <1>1, PlaceInvHolds, PTL

-----------------------------------------------------------------------------
(* A URL goes with the first action of a process only: the manager makes   *)
(* the test of a page that is to be opened three times, when it starts a   *)
(* browser, when it sends an action and when it tells the browser to end,  *)
(* and the URLs it compares change in between.                             *)

Joining == {"accept", "connected", "request", "write"}

(* A browser that has no action yet is one the thread has just started, or *)
(* is about to close again.                                                *)
NewInv ==
  /\ pc \in Joining => (InNewPage(browser) <=> client[browser].action = NoAction)
  /\ \A p \in Pages(root) : rec[p].inited /\ client[p].action = NoAction /\ ~stop_work =>
       p = browser /\ (pc \in Joining \/ (pc = "after" /\ need_close))

(* Where browsers without an action come from. *)
LEMMA NewFrom ==
  ASSUME Typed, ActionInv, [Next]_runVars, NEW p \in Pages(root),
         ~(p = browser /\ (StartBrowser \/ StartFails))
  PROVE  /\ rec'[p].inited => rec[p].inited
         /\ client'[p].action = NoAction => client[p].action = NoAction
<1>1. rec'[p].inited => rec[p].inited
  <2>1. CASE StartBrowser \/ StartFails
    <3>1. p # browser
      BY <2>1
    <3>2. PICK inited \in BOOLEAN :
            rec' = [rec EXCEPT ![browser].inited = inited, ![browser].current_url = NoUrl]
      BY <2>1 DEF StartBrowser, StartFails
    <3> QED BY <3>1, <3>2 DEF Typed, RecOK
  <2>2. CASE Beginning \/ Walking
    BY <2>2, BeginStep, WalkStep, TurnEffect
  <2>3. CASE UNCHANGED rec
    BY <2>3
  <2>4. CASE AnalyseAnswer \/ AnalyseError
    <3>1. rec[p] \in Record /\ pc = "analyse"
      BY <2>4 DEF Typed, RecOK, AnalyseAnswer, AnalyseError
    <3>2. Located(rec[p], client[p]).inited = rec[p].inited
      BY <3>1 DEF Located, Record
    <3> QED BY <2>2, <3>1, <3>2, RecEffect
  <2>5. CASE ClosePipe \/ Disconnect
    <3>1. PICK q : rec' = [rec EXCEPT ![q].inited = FALSE, ![q].current_url = NoUrl]
      BY <2>5 DEF ClosePipe, Disconnect, Release
    <3>2. rec \in [Pages(root) -> Record]
      BY DEF Typed, RecOK
    <3> QED BY <3>1, <3>2 DEF Record
  <2> QED
    BY StepCases, <2>1, <2>2, <2>3, <2>4, <2>5 DEF Opening, Exchanging, Analysing, Selecting,
       Ending, Enter, Begin, UseBrowser, NoBrowser, Accept, Connected, ReadRequest,
       WriteAction, Written, ReadAnswer, IoError, AnalyseStopped, AskContinue, AskGiveUp,
       Land, SelectStopped, WriteVerdict, KeepPipe, AwaitEnd, Retry, Disconnected, Over,
       Released, Act, Told, Lost, Client, Crash, Stop, runVars
<1>2. client'[p].action = NoAction => client[p].action = NoAction
  <2>1. CASE Act(p)
    BY <2>1 DEF Act, Typed, ClientOK, Process
  <2>2. CASE p = browser /\ WriteAction /\ ActionSent
    BY <2>2 DEF ActionSent, ActionInv
  <2> QED BY <2>1, <2>2, ClientEffect DEF GoesOn
<1> QED BY <1>1, <1>2

(* Where the thread turns with a browser that has no action yet. *)
LEMMA NewMoves ==
  ASSUME Typed, ActionInv, [Next]_runVars, ~stop_work,
         pc \in Joining \/ (pc = "after" /\ need_close)
  PROVE  \/ WriteAction /\ ActionSent
         \/ ClosePipe
         \/ browser' = browser /\ (pc' \in Joining \/ (pc' = "after" /\ need_close'))
<1> USE DEF Joining
<1>1. CASE WriteAction
  <2>1. CASE IoError("write")
    BY <2>1 DEF IoError
  <2>2. CASE ~IoError("write")
    <3>1. pc' \in Sent /\ pc \notin Sent
      BY <1>1, <2>2 DEF WriteAction, Sent
    <3> QED BY <3>1, SentEffect
  <2> QED BY <2>1, <2>2
<1>2. CASE Accept \/ Connected \/ ReadRequest
  BY <1>2 DEF Accept, Connected, ReadRequest, IoError
<1>3. CASE ClosePipe
  BY <1>3
<1>4. ASSUME NEW p \in Pages(root), Act(p) \/ Told(p) \/ Lost(p) \/ Crash(p)
      PROVE  UNCHANGED <<pc, browser, need_close>>
  BY <1>4, Elsewhere
<1>5. CASE Stop \/ UNCHANGED runVars
  BY <1>5 DEF Stop, runVars, thread
<1>6. ~Beginning /\ ~Walking
  BY BeginStep, WalkStep
<1> QED
  BY StepCases, <1>1, <1>2, <1>3, <1>4, <1>5, <1>6 DEF Opening, Exchanging, Analysing,
     Selecting, Ending, Enter, Begin, StartBrowser, StartFails, UseBrowser, NoBrowser,
     Written, ReadAnswer, IoError, AnalyseAnswer, AnalyseError, AnalyseStopped, AskContinue,
     AskGiveUp, Land, SelectStopped, WriteVerdict, KeepPipe, AwaitEnd, Retry, Disconnect,
     Disconnected, Over, Release, Released

(* The invariant is kept. *)
LEMMA NewKept ==
  ASSUME Typed, ActionInv, NewInv, [Next]_runVars
  PROVE  NewInv'
<1>0. /\ root' = root /\ browser \in Pages(root)
      /\ rec \in [Pages(root) -> Record] /\ client \in [Pages(root) -> Process]
  BY RootKept DEF Typed, ThreadOK, RecOK, ClientOK
<1>1. pc' \in Joining => (InNewPage(browser)' <=> client'[browser'].action = NoAction)
  <2> USE DEF Joining
  <2>1. CASE StartBrowser
    <3>1. /\ browser' = browser /\ rec'[browser].current_url = NoUrl
          /\ rec'[browser].locate_url = rec[browser].locate_url
          /\ client'[browser].action = NoAction /\ InNewPage(browser)
      BY <1>0, <2>1 DEF StartBrowser, Record, Quiet
    <3> QED BY <3>1 DEF InNewPage
  <2>2. CASE UseBrowser
    <3>1. UNCHANGED <<browser, rec, client>> /\ pc = "open"
      BY <2>2 DEF UseBrowser
    <3>2. pc' \in Joining => ~InNewPage(browser) /\ client[browser].action # NoAction
      BY <1>0, <2>2 DEF UseBrowser, NewInv
    <3> QED BY <3>1, <3>2 DEF InNewPage
  <2>3. ASSUME pc \in Joining, pc' \in Joining
        PROVE  InNewPage(browser)' <=> client'[browser'].action = NoAction
    <3>1. UNCHANGED <<browser, rec>>
      <4>1. ASSUME NEW p \in Pages(root), Act(p) \/ Told(p) \/ Lost(p) \/ Crash(p)
            PROVE  UNCHANGED <<browser, rec>>
        BY <4>1, Elsewhere
      <4>2. ~Beginning /\ ~Walking
        BY <2>3, BeginStep, WalkStep
      <4> QED
        BY <2>3, StepCases, <4>1, <4>2 DEF Opening, Exchanging, Analysing, Selecting, Ending,
           Enter, Begin, StartBrowser, StartFails, UseBrowser, NoBrowser, Accept, Connected,
           ReadRequest, WriteAction, Written, ReadAnswer, IoError, AnalyseAnswer,
           AnalyseError, AnalyseStopped, AskContinue, AskGiveUp, Land, SelectStopped,
           WriteVerdict, ClosePipe, KeepPipe, AwaitEnd, Retry, Disconnect, Disconnected,
           Over, Release, Released, Stop, runVars, thread
    <3>2. client'[browser].action = client[browser].action
      <4>1. CASE Act(browser)
        BY <1>0, <4>1 DEF Act, Process
      <4>2. ~StartBrowser /\ ~StartFails
        BY <2>3 DEF StartBrowser, StartFails
      <4>3. ~ActionSent
        BY <2>3 DEF ActionSent
      <4> QED BY <1>0, <4>1, <4>2, <4>3, ClientEffect DEF GoesOn
    <3> QED BY <2>3, <3>1, <3>2 DEF NewInv, InNewPage
  <2>4. pc' \in Joining => pc \in Joining \/ StartBrowser \/ UseBrowser
    <3>1. ASSUME NEW p \in Pages(root), Act(p) \/ Told(p) \/ Lost(p) \/ Crash(p)
          PROVE  pc' = pc
      BY <3>1, Elsewhere
    <3>2. CASE Beginning \/ Walking
      BY <3>2, BeginStep, WalkStep
    <3> QED
      BY StepCases, <3>1, <3>2 DEF Opening, Exchanging, Analysing, Selecting, Ending, Enter,
         Begin, StartFails, NoBrowser, Accept, Connected, ReadRequest, WriteAction, Written,
         ReadAnswer, IoError, AnalyseAnswer, AnalyseError, AnalyseStopped, AskContinue,
         AskGiveUp, Land, SelectStopped, WriteVerdict, ClosePipe, KeepPipe, AwaitEnd, Retry,
         Disconnect, Disconnected, Over, Release, Released, Stop, runVars, thread
  <2> QED BY <2>1, <2>2, <2>3, <2>4
<1>2. ASSUME NEW p \in Pages(root), rec'[p].inited, client'[p].action = NoAction, ~stop_work'
      PROVE  p = browser' /\ (pc' \in Joining \/ (pc' = "after" /\ need_close'))
  <2>1. ~stop_work
    BY <1>2, SentEffect
  <2>2. CASE p = browser /\ (StartBrowser \/ StartFails)
    BY <2>2 DEF StartBrowser, StartFails, Joining
  <2>3. CASE ~(p = browser /\ (StartBrowser \/ StartFails))
    <3>1. rec[p].inited /\ client[p].action = NoAction
      BY <1>2, <2>3, NewFrom
    <3>2. p = browser /\ (pc \in Joining \/ (pc = "after" /\ need_close))
      BY <2>1, <3>1 DEF NewInv
    <3>3. ~ActionSent
      <4>1. ASSUME ActionSent PROVE client'[p].action # NoAction
        BY <3>2, <4>1 DEF ActionSent, ActionInv
      <4> QED BY <1>2, <4>1
    <3>4. ~ClosePipe
      <4>1. ASSUME ClosePipe PROVE ~rec'[p].inited
        BY <1>0, <3>2, <4>1 DEF ClosePipe, Release, Record
      <4> QED BY <1>2, <4>1
    <3> QED BY <2>1, <3>2, <3>3, <3>4, NewMoves
  <2> QED BY <2>2, <2>3
<1> QED BY <1>0, <1>1, <1>2 DEF NewInv, Pages

(* UrlWithFirst for every script, every limit and any number of processes  *)
(* that die: it is what BrowserClient takes the manager to do.             *)
THEOREM UrlOnlyFirst == Spec => UrlWithFirst
<1>1. Init => NewInv
  BY DEF Init, NewInv, Joining
<1>2. RunInv /\ NewInv /\ [Next]_runVars => NewInv'
  BY NewKept, TypeParts DEF RunInv
<1>3. ASSUME RunInv, NewInv, [Next]_runVars, NEW p \in Pages(root),
             client[p].at = "request", client'[p].at = "acting"
      PROVE  client'[p].url # NoUrl <=> client[p].action = NoAction
  <2>1. Typed /\ ActionInv
    BY <1>3, TypeParts DEF RunInv
  <2>2. p = browser /\ ActionSent
    <3>1. ~Act(p)
      BY <1>3 DEF Act
    <3>2. ~GoesOn(p) /\ client'[p] # client[p]
      BY <1>3 DEF GoesOn
    <3>3. client'[p] # [Quiet EXCEPT !.at = "starting"]
      BY <1>3 DEF Quiet
    <3> QED BY <1>3, <2>1, <3>1, <3>2, <3>3, ClientEffect
  <2>3. InNewPage(browser) <=> client[browser].action = NoAction
    BY <1>3, <2>2 DEF ActionSent, NewInv, Joining
  <2> QED BY <2>2, <2>3 DEF ActionSent, InNewPage
<1>4. RunInv /\ NewInv /\ [Next]_runVars =>
        [\A p \in Pages(root) :
           client[p].at = "request" /\ client'[p].at = "acting" =>
             (client'[p].url # NoUrl <=> client[p].action = NoAction)]_runVars
  BY <1>3
<1> QED BY <1>1, <1>2, <1>4, RunInvHolds, PTL DEF Spec, UrlWithFirst
=============================================================================
