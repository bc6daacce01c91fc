----------------------------- MODULE ScriptRun -----------------------------
(***************************************************************************)
(* One run of a script: the script thread of the manager, the record it    *)
(* keeps for each page of the script, and the browser process of each page *)
(* at the other end of its pipe.                                           *)
(*                                                                         *)
(* A browser process asks for an action, carries it out, answers, and is   *)
(* told to go on or to end; the pipe holds one message at a time, so where *)
(* the process is (client[p].at) says what is in it.  How an action is     *)
(* carried out is BrowserClient's; here it takes one step and may fail.    *)
(***************************************************************************)
EXTENDS ActionNavigation, Sequences

CONSTANTS
  Scripts,     (* the scripts a run may be of                               *)
  Lists,       (* the lists of links a page may show                        *)
  MaxRetry,    (* MAX_RETRY_HTML_ACTION_COUNT                               *)
  MaxCrashes   (* bound: how many browser processes die by themselves       *)

Link  == UNION {{l[i] : i \in DOMAIN l} : l \in Lists}

NoUrl == ""
Home  == "home"     (* where the script begins                              *)
Url   == Link \cup {Home, "clicked", "located", "blank"}

ASSUME ScriptRunAssumption ==
  /\ \A s \in Scripts : WellFormed(s)
  /\ Lists \subseteq Seq(Link)
  /\ MaxRetry \in Nat /\ MaxCrashes \in Nat

(* The history tells the links from the other pages by their URLs.         *)
ASSUME LinkAssumption == Link \cap {NoUrl, "clicked", "located", "blank"} = {}

VARIABLES
  root,         (* the script                                               *)
  pc,           (* where the script thread is                               *)
  action,       (* the action to be executed next                           *)
  browser,      (* web_browser_info: the page whose record is in use        *)
  retry_count,
  ret,          (* "ok", "error", or "io": io_ret                           *)
  need_close,   (* need_close_pipe                                          *)
  next,         (* action_next: how far the search for the next action is   *)
  relation,     (* locate_mode: how next was reached                        *)
  outputs,      (* HTML_ELEMENT_ACTION.outputs: the links not yet followed  *)
  rec,          (* WEB_BROWSER_PROCESS, by page                             *)
  client,       (* the browser process of a page                            *)
  stop_work,
  crashes,
  sent,         (* how often action was sent since it became the next one   *)
  found,        (* the links of an action, as last found                    *)
  visited,      (* the links opened since                                   *)
  saved         (* the links whose texts were put out since                 *)

walk    == <<next, relation>>
thread  == <<pc, action, browser, retry_count, ret, need_close, walk>>
history == <<sent, found, visited, saved>>
runVars == <<root, thread, outputs, rec, client, stop_work, crashes, history>>

LastOf(urls, p) == IF urls[p] = <<>> THEN NoUrl ELSE urls[p][Len(urls[p])]

Gone(p) == client[p].at \in {"none", "dead"}
Quiet   == [at |-> "none", page |-> "blank", action |-> NoAction, url |-> NoUrl,
            result |-> "ok", links |-> <<>>, work_done |-> FALSE]

(* _html_element_action_in_new_page *)
InNewPage(p) ==
  rec[p].locate_url # NoUrl /\ rec[p].current_url # rec[p].locate_url

-----------------------------------------------------------------------------
(* The script thread.  EXIT_WORK_IF_NEEDED leaves the block it stands in.  *)

Goto(from, to) == pc = from /\ pc' = to

(* A step that changes only where the thread is. *)
Step(from, to) ==
  /\ Goto(from, to)
  /\ UNCHANGED <<root, walk, action, browser, retry_count, ret, need_close, outputs, rec,
                 client, stop_work, crashes, history>>

(* A read or a write fails when the other end is gone. *)
IoError(from) ==
  /\ Gone(browser) /\ Goto(from, "after")
  /\ ret' = "io" /\ need_close' = TRUE
  /\ UNCHANGED <<root, walk, action, browser, retry_count, outputs, rec, client, stop_work,
                 crashes, history>>

(* get_next_html_element_action changes where a page is to be located: the *)
(* next link, the URL of a locate action (post_process_action), or nowhere *)
(* when the links are exhausted.                                           *)
Relocated(a, n) ==
  LET p == root.page[a]
      opened ==
        IF n.source # NoAction
          THEN [rec EXCEPT ![n.source].locate_url = Head(outputs[n.source])]
          ELSE IF n.relation = "none" /\ p # Top
                 THEN [rec EXCEPT ![p].locate_url = NoUrl]
                 ELSE rec
  IN  IF n.next # NoAction /\ root.kind[n.next] = "locate"
        THEN [opened EXCEPT ![root.page[n.next]].locate_url = "located"]
        ELSE opened

(* Mutant: a link is followed and not removed from the list. *)
Followed_Kept(n) == outputs

(* The link that is followed is removed from the list. *)
Followed(n) ==
  IF n.source = NoAction THEN outputs ELSE [outputs EXCEPT ![n.source] = Tail(@)]

(* The call of get_next_html_element_action that returned n for action a.  *)
Turn(a, n) ==
  /\ ret' = n.ret /\ relation' = n.relation
  /\ rec' = Relocated(a, n) /\ outputs' = Followed(n)

Advance(a) == LET n == NextAction(root, outputs, a) IN next' = n.next /\ Turn(a, n)

(* check_local_action *)
IsLocal(a) == a # NoAction /\ root.kind[a] = "script"

(* The "script" actions a script begins with, and the ones they skip.      *)
Begun(a) ==
  /\ LET n == NextAction(root, outputs, a) IN action' = n.next /\ Turn(a, n)
  /\ browser' = IF action' = NoAction THEN browser ELSE root.page[action']
  /\ UNCHANGED <<root, next, retry_count, need_close, client, stop_work, crashes, history>>

EnterLocal ==
  /\ pc = "enter" /\ IsLocal(action)
  /\ Begun(action)
  /\ pc' \in {"enter"} \cup (IF action' = NoAction THEN {} ELSE {"enterSkip"})

EnterSkip == Goto("enterSkip", "enter") /\ Begun(action)

(* Without a page to be opened the run is over before it begins.           *)
Enter ==
  /\ ~IsLocal(action)
  /\ Goto("enter", IF stop_work \/ ~InNewPage(browser) THEN "end" ELSE "top")
  /\ relation' = "none"
  /\ UNCHANGED <<root, action, browser, retry_count, ret, need_close, next, outputs, rec,
                 client, stop_work, crashes, history>>

(* Mutant: only the checks within an action look at the flag. *)
Begin_NoStop ==
  /\ Goto("top", IF action = NoAction THEN "end" ELSE "open")
  /\ ret' = "ok" /\ need_close' = FALSE
  /\ UNCHANGED <<root, walk, action, browser, retry_count, outputs, rec, client, stop_work,
                 crashes, history>>

Begin ==
  /\ Goto("top", IF stop_work \/ action = NoAction THEN "end" ELSE "open")
  /\ ret' = "ok" /\ need_close' = FALSE
  /\ UNCHANGED <<root, walk, action, browser, retry_count, outputs, rec, client, stop_work,
                 crashes, history>>

(* start_web_browser up to the connection. *)
StartBrowser ==
  /\ ~stop_work /\ InNewPage(browser)
  /\ Goto("open", "accept")
  /\ rec' = [rec EXCEPT ![browser].inited = TRUE, ![browser].current_url = NoUrl]
  /\ client' = [client EXCEPT ![browser] = [Quiet EXCEPT !.at = "starting"]]
  /\ UNCHANGED <<root, walk, action, browser, retry_count, ret, need_close, outputs,
                 stop_work, crashes, history>>

(* The process, or after it its end of the pipe (pipe_inited), or the pipe *)
(* itself cannot be created: the run ends.                                 *)
StartFails ==
  /\ ~stop_work /\ InNewPage(browser)
  /\ Goto("open", "after")
  /\ action' = NoAction /\ need_close' = TRUE /\ ret' = "error"
  /\ \E inited, started \in BOOLEAN :
       /\ inited => started
       /\ rec' = [rec EXCEPT ![browser].inited = inited, ![browser].current_url = NoUrl]
       /\ client' = IF started
                      THEN [client EXCEPT ![browser] = [Quiet EXCEPT !.at = "starting"]]
                      ELSE client
  /\ UNCHANGED <<root, walk, browser, retry_count, outputs, stop_work, crashes, history>>

(* The page is already open in a browser ... *)
UseBrowser ==
  \/ stop_work /\ Step("open", "after")
  \/ ~stop_work /\ ~InNewPage(browser) /\ rec[browser].inited /\ Step("open", "connected")

(* ... or there is neither a browser nor a page to be opened.              *)
NoBrowser ==
  /\ ~stop_work /\ ~InNewPage(browser) /\ ~rec[browser].inited
  /\ Goto("open", "after")
  /\ action' = NoAction /\ need_close' = TRUE
  /\ UNCHANGED <<root, walk, browser, retry_count, ret, outputs, rec, client, stop_work,
                 crashes, history>>

(* ConnectNamedPipe has no timeout. *)
Accept ==
  /\ client[browser].at = "starting"
  /\ Goto("accept", "connected")
  /\ client' = [client EXCEPT ![browser].at = "request"]
  /\ UNCHANGED <<root, walk, action, browser, retry_count, ret, need_close, outputs, rec,
                 stop_work, crashes, history>>

Connected == Step("connected", IF stop_work THEN "after" ELSE "request")

ReadRequest ==
  \/ client[browser].at = "request" /\ Step("request", "write")
  \/ IoError("request")

(* Mutants: the URL goes with the first attempt only, or with any action.  *)
UrlSent_Once(p) ==
  IF InNewPage(p) /\ sent = 0 THEN rec[p].locate_url ELSE NoUrl

UrlSent_Always(p) == rec[p].locate_url

(* get_html_element_action: the URL of a page that is to be opened.        *)
UrlSent(p) == IF InNewPage(p) THEN rec[p].locate_url ELSE NoUrl

WriteAction ==
  \/ stop_work /\ Step("write", "after")
  \/ ~stop_work /\ IoError("write")
  \/ /\ ~stop_work /\ client[browser].at = "request"
     /\ Goto("write", "written")
     /\ client' = [client EXCEPT ![browser].at = "acting", ![browser].action = action,
                                 ![browser].url = UrlSent(browser)]
     /\ sent' = sent + 1
     /\ UNCHANGED <<root, walk, action, browser, retry_count, ret, need_close, outputs, rec,
                    stop_work, crashes, found, visited, saved>>

Written == Step("written", IF stop_work THEN "after" ELSE "answer")

ReadAnswer ==
  \/ client[browser].at = "answer" /\ Step("answer", "analyse")
  \/ IoError("answer")

(* An answer without a text is an error, one that says what went wrong is  *)
(* a text like any other.                                                  *)
Failed(a, result) ==
  \/ result = "none"
  \/ result = "error" /\ root.kind[a] \notin {"text", "links"}

(* Mutant: a click is taken to stay on the page. *)
Located_Stay(r, c) ==
  IF root.kind[action] = "load"
    THEN [r EXCEPT !.current_url = c.page, !.locate_url = c.page]
    ELSE [r EXCEPT !.current_url = r.locate_url]

(* analyze_html_element_action_response: the URLs after an answer without  *)
(* an error.  The text of an exception is an output that is not empty; the *)
(* answer to a locate action, "0;" and a URL, is taken for a number.       *)
Located(r, c) ==
  CASE root.kind[action] \in {"text", "links"} ->
         IF c.result = "empty" THEN r ELSE [r EXCEPT !.current_url = r.locate_url]
    [] root.kind[action] = "locate" -> r
    [] root.kind[action] = "click" -> [r EXCEPT !.current_url = c.page]
    [] root.kind[action] = "load"  ->
         [r EXCEPT !.current_url = c.page, !.locate_url = c.page]
    [] OTHER -> [r EXCEPT !.current_url = r.locate_url]

(* The text of the page comes first in an answer, but not in that of the   *)
(* links, and is left out: so is the first link.                           *)
Listed(links) == IF links = <<>> THEN <<>> ELSE Tail(links)

AnalyseAnswer ==
  /\ Goto("analyse", "next")
  /\ ~stop_work /\ ~Failed(action, client[browser].result)
  /\ rec' = [rec EXCEPT ![browser] = Located(@, client[browser])]
  /\ IF root.kind[action] = "links"
       THEN /\ outputs' = [outputs EXCEPT ![action] = Listed(client[browser].links)]
            /\ found'   = [found EXCEPT ![action] = client[browser].links]
            /\ visited' = [visited EXCEPT ![action] = <<>>]
            /\ saved'   = [saved EXCEPT ![action] = {}]
       ELSE UNCHANGED <<outputs, found, visited, saved>>
  /\ UNCHANGED <<root, walk, action, browser, retry_count, ret, need_close, client, stop_work,
                 crashes, sent>>

(* After an error the page is opened again by whatever action comes next.  *)
AnalyseError ==
  /\ Goto("analyse", "ask")
  /\ ~stop_work /\ Failed(action, client[browser].result)
  /\ ret' = "error"
  /\ retry_count' = retry_count + 1
  /\ rec' = [rec EXCEPT ![browser].current_url =
               IF @ = rec[browser].locate_url THEN NoUrl ELSE @]
  /\ UNCHANGED <<root, walk, action, browser, need_close, outputs, client, stop_work, crashes,
                 history>>

AnalyseStopped == stop_work /\ Step("analyse", "after")

(* ignore_script_action *)
Ignored(a) == root.kind[a] \in {"text", "click"}

(* on_action_execution_error: the user goes on, or gives up.               *)
AskContinue == Step("ask", "next")

AskGiveUp ==
  \/ Step("ask", "next") /\ Ignored(action)
  \/ /\ Goto("ask", "verdict")
     /\ ~Ignored(action)
     /\ action' = NoAction
     /\ UNCHANGED <<root, walk, browser, retry_count, ret, need_close, outputs, rec, client,
                    stop_work, crashes, history>>

(* Mutant: only the texts of the last page are put out. *)
Saved_Last ==
  LET p == root.page[action]
  IN  IF p # Top /\ relation = "none"
        THEN [saved EXCEPT ![p] = @ \cup {LastOf(visited, p)}]
        ELSE saved

(* The texts of a page are put out after its last action (OUTPUT_TEXTS).   *)
Saved ==
  LET p == root.page[action]
  IN  IF p # Top /\ relation \in {"none", "first_sibling"}
        THEN [saved EXCEPT ![p] = @ \cup {LastOf(visited, p)}]
        ELSE saved

Select ==
  /\ ~stop_work /\ Goto("next", "walk") /\ Advance(action)
  /\ UNCHANGED <<root, action, browser, retry_count, need_close, client, stop_work,
                 crashes, history>>

(* A "script" action is executed; when its condition does not hold, the    *)
(* action after it is skipped (exec_local_action, if_return).              *)
Local ==
  /\ pc = "walk" /\ IsLocal(next)
  /\ Advance(next)
  /\ pc' \in {"walk"} \cup (IF next' = NoAction THEN {} ELSE {"skip"})
  /\ UNCHANGED <<root, action, browser, retry_count, need_close, client, stop_work,
                 crashes, history>>

Skip ==
  /\ Goto("skip", "walk") /\ Advance(next)
  /\ UNCHANGED <<root, action, browser, retry_count, need_close, client, stop_work,
                 crashes, history>>

(* The next action, for a browser or none, is found. *)
Land ==
  /\ ~IsLocal(next) /\ Goto("walk", "verdict")
  /\ saved' = Saved
  /\ IF ret = "ok"
       THEN action' = next /\ retry_count' = 0 /\ sent' = 0
       ELSE UNCHANGED <<action, retry_count, sent>>
  /\ next' = NoAction /\ relation' = "none"
  /\ UNCHANGED <<root, browser, ret, need_close, outputs, rec, client, stop_work, crashes,
                 found, visited>>

SelectStopped == stop_work /\ Step("next", "verdict")

(* The browser goes on, or it has done its work and its pipe is closed.    *)
WriteVerdict ==
  LET work_done == action = NoAction \/ InNewPage(browser)
  IN  \/ /\ client[browser].at = "answer" /\ Goto("verdict", "after")
         /\ need_close' = work_done
         /\ client' = [client EXCEPT ![browser].at = "told", ![browser].work_done = work_done]
         /\ UNCHANGED <<root, walk, action, browser, retry_count, ret, outputs, rec, stop_work,
                        crashes, history>>
      \/ /\ stop_work /\ client[browser].at = "answer" /\ Goto("verdict", "after")
         /\ need_close' = work_done
         /\ UNCHANGED <<root, walk, action, browser, retry_count, ret, outputs, rec, client,
                        stop_work, crashes, history>>
      \/ IoError("verdict")

(* _release_web_browser_process of page p.                                 *)
Release(p, from, to) ==
  /\ Goto(from, to)
  /\ browser' = p
  /\ rec' = [rec EXCEPT ![p].inited = FALSE, ![p].current_url = NoUrl]
  /\ UNCHANGED <<root, walk, action, retry_count, ret, need_close, outputs, client, stop_work,
                 crashes, history>>

(* Mutant: the process is not waited for. *)
Released_NoWait(from, to) == Step(from, to)

(* close_server_named_pipe gives a process that is connected 5 seconds to  *)
(* end; it knows of no other.                                              *)
PipeConnected(p) == client[p].at \notin {"none", "dead", "starting"}

Released(from, to) ==
  \/ ~PipeConnected(browser) /\ Step(from, to)
  \/ /\ PipeConnected(browser) /\ Goto(from, to)
     /\ client' = [client EXCEPT ![browser].at = "dead"]
     /\ UNCHANGED <<root, walk, action, browser, retry_count, ret, need_close, outputs, rec,
                    stop_work, crashes, history>>

ClosePipe == need_close /\ Release(browser, "after", "closing")
KeepPipe  == ~need_close /\ Step("after", "retry")
AwaitEnd  == Released("closing", "retry")

(* Mutant: there is no limit. *)
Retry_NoLimit ==
  /\ Goto("retry", "top")
  /\ IF ret = "ok" THEN UNCHANGED <<action, retry_count>>
     ELSE retry_count' = retry_count + 1 /\ UNCHANGED action
  /\ browser' = IF action' = NoAction THEN browser ELSE root.page[action']
  /\ UNCHANGED <<root, walk, ret, need_close, outputs, rec, client, stop_work, crashes, history>>

Retry ==
  /\ Goto("retry", "top")
  /\ IF ret = "ok" THEN UNCHANGED <<action, retry_count>>
     ELSE IF retry_count > MaxRetry
       THEN action' = NoAction /\ UNCHANGED retry_count
       ELSE retry_count' = retry_count + 1 /\ UNCHANGED action
  /\ browser' = IF action' = NoAction THEN browser ELSE root.page[action']
  /\ UNCHANGED <<root, walk, ret, need_close, outputs, rec, client, stop_work, crashes, history>>

(* disconnect_all_web_browser_processes, as far as anything is left to be  *)
(* released; locate_url, which it clears too, is read no more.             *)
Disconnect ==
  \E p \in Pages(root) : rec[p].inited /\ Release(p, "end", "leaving")

Disconnected == Released("leaving", "end")

(* Mutant: the browsers are left as they are. *)
Over_Early == Step("end", "over")

Over == (\A p \in Pages(root) : ~rec[p].inited) /\ Step("end", "over")

ScriptThread ==
  \/ EnterLocal \/ EnterSkip \/ Enter \/ Begin \/ StartBrowser \/ StartFails \/ UseBrowser
  \/ NoBrowser \/ Accept \/ Connected \/ ReadRequest \/ WriteAction \/ Written \/ ReadAnswer
  \/ AnalyseAnswer \/ AnalyseError \/ AnalyseStopped \/ AskContinue \/ AskGiveUp
  \/ Select \/ SelectStopped \/ Local \/ Skip \/ Land \/ WriteVerdict \/ ClosePipe \/ KeepPipe
  \/ AwaitEnd \/ Retry \/ Disconnect \/ Disconnected \/ Over

-----------------------------------------------------------------------------
(* The browser process of page p: data_scramble_work. *)

Client(p, at) ==
  /\ client' = [client EXCEPT ![p].at = at]
  /\ UNCHANGED <<root, thread, outputs, rec, stop_work, crashes, history>>

(* The page the action is carried out on. *)
ActsOn(p) == IF client[p].url = NoUrl THEN client[p].page ELSE client[p].url

(* The action is carried out: the page is loaded or not, a click may lead  *)
(* elsewhere, and the answer is a result, nothing or an exception.  An     *)
(* output is "empty" when its first text is, and "none" when there is no   *)
(* text: nothing was found on the page that is shown.                      *)
Act(p) ==
  /\ client[p].at = "acting"
  /\ \E result \in {"ok", "empty", "none", "error"}, links \in Lists \cup {<<>>}, page \in Url :
       /\ result \in {"empty", "none"} => root.kind[client[p].action] \in {"text", "links"}
       /\ links # <<>> <=> result \in {"ok", "empty"} /\ root.kind[client[p].action] = "links"
       /\ \/ page = ActsOn(p)
          \/ page = "blank" /\ client[p].url # NoUrl /\ result # "ok"
          \/ page = "clicked" /\ root.kind[client[p].action] \in {"click", "load"}
       /\ client' = [client EXCEPT ![p].at = "answer", ![p].page = page,
                                   ![p].result = result, ![p].links = links]
  /\ visited' = IF p # Top /\ client[p].url \in Link /\ LastOf(visited, p) # client[p].url
                  THEN [visited EXCEPT ![p] = Append(@, client[p].url)]
                  ELSE visited
  /\ UNCHANGED <<root, thread, outputs, rec, stop_work, crashes, sent, found, saved>>

(* execute_web_broswer_manage_command *)
Told(p) ==
  /\ client[p].at = "told"
  /\ Client(p, IF client[p].work_done THEN "dead" ELSE "request")

(* Its pipe was closed, or never made: the process ends. *)
Lost(p) ==
  /\ ~rec[p].inited /\ client[p].at \in {"starting", "request", "answer", "told"}
  /\ Client(p, "dead")

Browser(p) == Act(p) \/ Told(p) \/ Lost(p)

Crash(p) ==
  /\ ~Gone(p) /\ crashes < MaxCrashes
  /\ crashes' = crashes + 1
  /\ client' = [client EXCEPT ![p].at = "dead"]
  /\ UNCHANGED <<root, thread, outputs, rec, stop_work, history>>

(* The user stops the script. *)
Stop ==
  /\ ~stop_work /\ pc # "over"
  /\ stop_work' = TRUE
  /\ UNCHANGED <<root, thread, outputs, rec, client, crashes, history>>

(* The run is over, or the process the thread waits for never connects.    *)
Stuck == pc = "accept" /\ client[browser].at = "dead"

Finished == (pc = "over" \/ Stuck) /\ UNCHANGED runVars

Next ==
  \/ ScriptThread
  \/ \E p \in Pages(root) : Browser(p) \/ Crash(p)
  \/ Stop
  \/ Finished

(* The thread took the script; its first page is the URL the script was    *)
(* started with (none, when no location was configured), or that of the    *)
(* locate action it begins with.                                           *)
Init ==
  /\ root \in Scripts
  /\ pc = "enter" /\ action = 1 /\ browser = Top
  /\ retry_count = 0 /\ ret = "ok" /\ need_close = FALSE
  /\ next = NoAction /\ relation = "none"
  /\ outputs = [a \in Actions(root) |-> <<>>]
  /\ \E url \in {Home, NoUrl} :
       rec = [p \in Pages(root) |->
         [inited |-> FALSE, current_url |-> NoUrl,
          locate_url |-> IF p # Top THEN NoUrl
                         ELSE IF root.kind[1] = "locate" THEN "located" ELSE url]]
  /\ client = [p \in Pages(root) |-> Quiet]
  /\ stop_work = FALSE /\ crashes = 0
  /\ sent = 0
  /\ found = [a \in Actions(root) |-> <<>>]
  /\ visited = [a \in Actions(root) |-> <<>>]
  /\ saved = [a \in Actions(root) |-> {}]

Spec == Init /\ [][Next]_runVars

(* Fairness: the script thread and the browser processes go on; an action  *)
(* is carried out or given up (BrowserClient's ActionAnswered), the user   *)
(* answers the question.  Not assumed: that the user stops the script.     *)
FairSpec ==
  /\ Spec
  /\ WF_runVars(ScriptThread)
  /\ WF_runVars(\E p \in Pages(root) : Browser(p))

-----------------------------------------------------------------------------
Label == {"enter", "enterSkip", "top", "open", "accept", "connected", "request", "write",
          "written", "answer", "analyse", "ask", "next", "walk", "skip", "verdict", "after",
          "closing", "retry", "end", "leaving", "over"}

At == {"none", "starting", "request", "acting", "answer", "told", "dead"}

Record == [inited : BOOLEAN, current_url : Url \cup {NoUrl}, locate_url : Url \cup {NoUrl}]

Process ==
  [at : At, page : Url, action : Actions(root) \cup {NoAction}, url : Url \cup {NoUrl},
   result : {"ok", "empty", "none", "error"}, links : Seq(Link), work_done : BOOLEAN]

TypeOK ==
  /\ root \in Scripts
  /\ pc \in Label /\ ret \in {"ok", "error", "io"}
  /\ need_close \in BOOLEAN /\ stop_work \in BOOLEAN
  /\ action \in Actions(root) \cup {NoAction} /\ browser \in Pages(root)
  /\ next \in Actions(root) \cup {NoAction} /\ relation \in Relation
  /\ retry_count \in 0 .. MaxRetry + 2 /\ sent \in Nat /\ crashes \in 0 .. MaxCrashes
  /\ rec \in [Pages(root) -> Record] /\ client \in [Pages(root) -> Process]
  /\ outputs \in [Actions(root) -> Seq(Link)] /\ found \in [Actions(root) -> Seq(Link)]
  /\ visited \in [Actions(root) -> Seq(Link)]
  /\ saved \in [Actions(root) -> SUBSET (Link \cup {NoUrl})]

(* A browser process is started for a page only when the one before it has *)
(* ended: a retry leaves no process behind.                                *)
OneBrowser == pc = "open" /\ InNewPage(browser) => Gone(browser)

(* A page behind links that a "locate" action may turn to again after the  *)
(* last link: the click that failed before left current_url as it was.     *)
LocatedAgain(p) ==
  p # Top /\ HasLocal(root) /\ \E a \in Items(root, p) : root.kind[a] = "locate"

(* An action is never carried out on another page than the one the script  *)
(* has located (a page that was not loaded is blank; after the last link   *)
(* nothing is located).                                                    *)
ActsOnLocated ==
  \A p \in Pages(root) : pc = "answer" /\ p = browser /\ client[p].at = "acting" =>
    \/ LocatedAgain(p)
    \/ ActsOn(p) \in {rec[p].locate_url, "blank"} \/ rec[p].locate_url = NoUrl

(* The URL goes with the first action of a browser process and with no     *)
(* other, whatever failed, was sent again or moved the page meanwhile: a   *)
(* process that was told to go on is never asked to load a page            *)
(* (8209-8235, 12295, 12793).  BrowserClient and JobWorker rely on it.     *)
UrlWithFirst ==
  [][\A p \in Pages(root) :
       client[p].at = "request" /\ client'[p].at = "acting" =>
         (client'[p].url # NoUrl <=> client[p].action = NoAction)]_runVars

(* An action is sent at most MaxRetry + 2 times, whatever the browsers and *)
(* the user do.                                                            *)
AttemptsBounded == sent <= MaxRetry + 2

(* A page that begins with a "script" action or a jump, or ends with a     *)
(* "script" action: its condition may skip all of a page, the jump leads   *)
(* away from it, and the texts of the page before are then not put out.    *)
PassedOver(l) ==
  \E a \in Items(root, l) :
    \/ a = FirstItem(root, l) /\ root.kind[a] \in {"script", "jump"}
    \/ NextItem(root, a) = NoAction /\ root.kind[a] = "script"

(* A link that comes twice in a row: its page is open already.             *)
Repeats(l) == \E i \in 2 .. Len(found[l]) - 1 : found[l][i] = found[l][i + 1]

(* The links of a page but the first, which the manager loses, are opened  *)
(* in their order, none left out.                                          *)
LinksInOrder ==
  \A l \in Actions(root) :
    PassedOver(l) \/ Repeats(l) \/ visited[l] = SubSeq(found[l], 2, Len(visited[l]) + 1)

(* The texts of a page are put out before the next link is opened.         *)
PagesSaved ==
  \A l \in Actions(root) :
    PassedOver(l) \/ \A i \in 1 .. Len(visited[l]) - 1 : visited[l][i] \in saved[l]

(* A script that does not jump back comes to its end, unless a process     *)
(* dies before it connects.                                                *)
RunEnds == <>(Loops(root) \/ pc = "over" \/ Stuck)

(* A script that is stopped comes to its end: the thread never waits for a *)
(* browser that waits for the thread.  Except one that can go round in     *)
(* "script" actions: between two of them nothing looks at the flag.        *)
StopEnds ==
  stop_work ~> pc = "over" \/ Stuck \/ (Loops(root) /\ HasLocal(root))

(* No browser process outlives the run.                                    *)
BrowsersEnd == pc = "over" ~> \A p \in Pages(root) : Gone(p)

-----------------------------------------------------------------------------
(* The assertion in analyze_html_element_action_response: an answer is to  *)
(* an action on a page the script has located.                             *)
AnswerLocated == pc = "analyse" => rec[browser].locate_url # NoUrl

(* The comment on the "script" actions (12207): the action after a         *)
(* condition is fetched without a jump, and skipped when the condition     *)
(* does not hold.                                                          *)
JumpSkipped == pc \in {"skip", "enterSkip"} => relation # "jump"
=============================================================================
