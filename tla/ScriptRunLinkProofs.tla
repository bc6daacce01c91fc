------------------------ MODULE ScriptRunLinkProofs ------------------------
(***************************************************************************)
(* The links of a page are opened in order, and its texts are put out      *)
(* before the next one is opened: proved for every set of scripts and      *)
(* lists of links, every limit and any number of processes that die.       *)
(***************************************************************************)
EXTENDS ScriptRunProofs, SequenceTheorems

USE DEF Goto, Step, walk

-----------------------------------------------------------------------------
(* The links that were opened.                                             *)

LEMMA Behind ==
  ASSUME Typed, NEW l \in Pages(root) \ {Top}
  PROVE  /\ l \in Actions(root) /\ l # NoAction /\ l \in Nat
         /\ visited[l] \in Seq(Link) /\ outputs[l] \in Seq(Link) /\ found[l] \in Seq(Link)
         /\ saved[l] \subseteq Link \cup {NoUrl}
         /\ client[l] \in Process /\ rec[l] \in Record
BY ScriptFacts DEF Typed, ThreadOK, HistoryOK, ClientOK, RecOK

(* The page in use and the action on it. *)
LEMMA InUse ==
  ASSUME Typed, ActionInv, PageInv,
         pc \in Sent \cup {"open", "accept", "connected", "request", "write", "ask", "next",
                           "walk", "skip"}
  PROVE  /\ action \in Actions(root) /\ browser = root.page[action]
         /\ browser < action /\ browser \in Nat /\ action \in Nat /\ browser \in Pages(root)
<1>1. action \in Actions(root) /\ browser = root.page[action] /\ browser \in Pages(root)
  BY DEF Typed, ThreadOK, ActionInv, PageInv, Sent, Before
<1>2. browser < action /\ browser \in Nat /\ action \in Nat
  BY <1>1, ScriptFacts, PageNumbers DEF WellFormed, Typed, ThreadOK
<1> QED BY <1>1, <1>2

(* Links are found for a page that nobody has opened yet. *)
LEMMA NotYet ==
  ASSUME Typed, ActionInv, PageInv, FreshInv, AnalyseAnswer,
         NEW l \in Pages(root) \ {Top}, action = l
  PROVE  /\ browser < l /\ l # browser /\ client[l] = Quiet /\ visited[l] = <<>>
         /\ rec[l].current_url = NoUrl /\ ~rec[l].inited
<1>1. browser < l /\ browser \in Nat /\ l \in Nat /\ pc = "analyse"
  BY InUse DEF AnalyseAnswer, Sent
<1>2. client[l] = Quiet /\ visited[l] = <<>> /\ ~rec[l].inited
  BY <1>1 DEF FreshInv, Live
<1> QED BY <1>1, <1>2 DEF FreshInv

LEMMA AppendFacts ==
  ASSUME NEW s \in Seq(Link), NEW u \in Link
  PROVE  /\ Append(s, u) \in Seq(Link) /\ Append(s, u) # <<>> /\ Append(s, u) # s
         /\ Len(Append(s, u)) = Len(s) + 1 /\ Append(s, u)[Len(s) + 1] = u
         /\ \A i \in 1 .. Len(s) : Append(s, u)[i] = s[i]
<1>1. Append(s, u) \in Seq(Link) /\ Len(Append(s, u)) = Len(s) + 1 /\ Len(s) \in Nat
  OBVIOUS
<1>2. Append(s, u)[Len(s) + 1] = u /\ \A i \in 1 .. Len(s) : Append(s, u)[i] = s[i]
  OBVIOUS
<1> QED BY <1>1, <1>2

LEMMA ActAnswers ==
  ASSUME Typed, NEW p \in Pages(root), Act(p)
  PROVE  client[p].at = "acting" /\ client'[p].at = "answer"
BY DEF Act, Typed, ClientOK, Process

(* What the last link is after a step. *)
LEMMA LastEffect ==
  ASSUME Typed, ActionInv, PageInv, FreshInv, [Next]_runVars, NEW l \in Pages(root) \ {Top}
  PROVE  \/ visited'[l] = visited[l] /\ (LastOf(visited, l)' = LastOf(visited, l))
         \/ /\ Act(l) /\ client[l].url \in Link /\ LastOf(visited, l) # client[l].url
            /\ visited'[l] = Append(visited[l], client[l].url)
            /\ LastOf(visited, l)' = client[l].url
         \/ AnalyseAnswer /\ action = l /\ visited'[l] = <<>>
<1>1. l \in Actions(root) /\ visited[l] \in Seq(Link)
  BY Behind
<1>2. CASE visited'[l] = visited[l]
  BY <1>2 DEF LastOf
<1>3. CASE /\ Act(l) /\ client[l].url \in Link /\ LastOf(visited, l) # client[l].url
           /\ visited'[l] = Append(visited[l], client[l].url)
  <2>1. visited'[l] # <<>> /\ visited'[l][Len(visited'[l])] = client[l].url
    BY <1>1, <1>3, AppendFacts
  <2> QED BY <1>3, <2>1 DEF LastOf
<1> QED BY <1>1, <1>2, <1>3, HistoryEffect

(* The page a browser shows, and the one current_url tells, is the last    *)
(* link that was opened; an action brings a URL when there is no           *)
(* current_url, and it is the one that is located.                         *)
OpenedInv ==
  /\ \A l \in Pages(root) \ {Top} :
       /\ client[l].page \in Link => LastOf(visited, l) = client[l].page
       /\ rec[l].current_url \in Link => LastOf(visited, l) = rec[l].current_url
  /\ \A p \in Pages(root) :
       client[p].at = "acting" /\ client[p].url # NoUrl => rec[p].current_url = NoUrl
  /\ Live /\ client[browser].at = "acting" /\ client[browser].url # NoUrl =>
       client[browser].url = rec[browser].locate_url
  /\ pc \in Sent /\ client[browser].at = "acting" /\ client[browser].url = NoUrl =>
       rec[browser].locate_url \in {NoUrl, rec[browser].current_url}
  /\ browser # Top /\ (pc = "analyse" \/ (pc \in Sent /\ client[browser].at = "answer"))
       /\ rec[browser].locate_url \in Link =>
       LastOf(visited, browser) = rec[browser].locate_url

LEMMA PageOpened ==
  ASSUME Typed, ActionInv, PageInv, FreshInv, StageInv, OpenedInv, [Next]_runVars,
         NEW l \in Pages(root) \ {Top}, client'[l].page \in Link
  PROVE  LastOf(visited, l)' = client'[l].page
<1>0. /\ client[l] \in Process /\ Link \cap {NoUrl, "blank", "clicked"} = {}
      /\ client[l].page \in Link => LastOf(visited, l) = client[l].page
  BY Behind, LinkAssumption DEF OpenedInv
<1>1. CASE Act(l)
  <2>1. PICK page \in Url :
          /\ page = ActsOn(l) \/ page \in {"blank", "clicked"}
          /\ client'[l].page = page
    BY <1>1, <1>0 DEF Act, Typed, ClientOK, Process
  <2>2. page = ActsOn(l)
    BY <1>0, <2>1
  <2>3. ~AnalyseAnswer
    BY <1>1, Elsewhere DEF AnalyseAnswer
  <2>4. CASE client[l].url \in Link
    <3>1. page = client[l].url
      BY <1>0, <2>2, <2>4 DEF ActsOn
    <3>2. CASE LastOf(visited, l) = client[l].url
      <4>1. visited'[l] = visited[l]
        BY <2>3, <3>2, LastEffect
      <4> QED BY <2>1, <3>1, <3>2, <4>1 DEF LastOf
    <3>3. CASE LastOf(visited, l) # client[l].url
      <4>1. visited' = [visited EXCEPT ![l] = Append(@, client[l].url)]
        BY <1>1, <2>4, <3>3 DEF Act
      <4>2. visited'[l] = Append(visited[l], client[l].url) /\ visited[l] \in Seq(Link)
        BY <4>1, Behind DEF Typed, HistoryOK
      <4>3. visited'[l] # visited[l] /\ visited'[l] # <<>>
        BY <2>4, <4>2, AppendFacts
      <4> QED BY <2>1, <2>3, <3>1, <4>3, LastEffect
    <3> QED BY <3>2, <3>3
  <2>5. CASE client[l].url \notin Link
    <3>1. page = client[l].page
      BY <2>1, <2>2, <2>5 DEF ActsOn
    <3> QED BY <1>0, <2>1, <2>3, <2>5, <3>1, LastEffect
  <2> QED BY <2>4, <2>5
<1>2. CASE ~Act(l)
  <2>1. client'[l].page = client[l].page
    BY <1>0, <1>2, ClientEffect DEF GoesOn, ActionSent, Quiet
  <2>2. ~(AnalyseAnswer /\ action = l)
    BY <1>0, <2>1, NotYet DEF Quiet
  <2> QED BY <1>0, <1>2, <2>1, <2>2, LastEffect
<1> QED BY <1>1, <1>2

LEMMA UrlOpened ==
  ASSUME Typed, ActionInv, PageInv, FreshInv, StageInv, OpenedInv, [Next]_runVars,
         NEW l \in Pages(root) \ {Top}, rec'[l].current_url \in Link
  PROVE  LastOf(visited, l)' = rec'[l].current_url
<1>0. /\ client[l] \in Process /\ rec[l] \in Record /\ NoUrl \notin Link
      /\ rec[l].current_url \in Link => LastOf(visited, l) = rec[l].current_url
      /\ client[l].page \in Link => LastOf(visited, l) = client[l].page
      /\ root' = root
  BY Behind, LinkAssumption, RootKept DEF OpenedInv
<1>1. CASE rec'[l].current_url = rec[l].current_url
  <2>1. ~(AnalyseAnswer /\ action = l)
    BY <1>0, <1>1, NotYet
  <2>2. ~(Act(l) /\ client[l].url \in Link)
    BY <1>0, <1>1 DEF Act, OpenedInv
  <2> QED BY <1>0, <1>1, <2>1, <2>2, LastEffect
<1>2. CASE rec'[l].current_url # rec[l].current_url
  <2>1. ~Beginning /\ ~Walking
    BY <1>0, <1>2, BeginStep, WalkStep, TurnEffect
  <2>2. l = browser /\ AnalyseAnswer /\ rec'[l] = Located(rec[l], client[l])
    BY <1>0, <1>2, <2>1, RecEffect
  <2>3. pc = "analyse" /\ action # l
    BY <2>2, NotYet DEF AnalyseAnswer
  <2>4. rec'[l].current_url \in {rec[l].locate_url, client[l].page}
    BY <1>0, <1>2, <2>2 DEF Located, Record
  <2>5. LastOf(visited, l) = rec'[l].current_url
    BY <1>0, <2>2, <2>3, <2>4 DEF OpenedInv
  <2>6. ~Act(l)
    BY <2>2, Elsewhere DEF AnalyseAnswer
  <2> QED BY <2>3, <2>5, <2>6, LastEffect
<1> QED BY <1>1, <1>2

LEMMA OpenedKept ==
  ASSUME Typed, ActionInv, PageInv, FreshInv, StageInv, OpenedInv, [Next]_runVars
  PROVE  OpenedInv'
<1>0. root' = root /\ browser \in Pages(root) /\ NoUrl \notin Link
  BY RootKept, LinkAssumption DEF Typed, ThreadOK
<1>1. ASSUME NEW p \in Pages(root), client'[p].at = "acting", client'[p].url # NoUrl
      PROVE  rec'[p].current_url = NoUrl
  <2>1. CASE p = browser /\ ActionSent
    BY <1>1, <2>1 DEF ActionSent, StageInv
  <2>2. CASE client'[p] = client[p]
    <3>1. rec[p].current_url = NoUrl
      BY <1>1, <2>2 DEF OpenedInv
    <3>2. CASE Beginning \/ Walking
      BY <1>0, <3>1, <3>2, BeginStep, WalkStep, TurnEffect
    <3>3. ~(p = browser /\ AnalyseAnswer)
      BY <1>1, <2>2 DEF AnalyseAnswer, StageInv
    <3> QED BY <3>1, <3>2, <3>3, RecEffect
  <2>3. ~Act(p) \/ client'[p].at = "answer"
    BY ActAnswers
  <2> QED BY <1>1, <2>1, <2>2, <2>3, ClientEffect DEF GoesOn, Quiet
<1>2. ASSUME Live', client'[browser'].at = "acting", client'[browser'].url # NoUrl
      PROVE  client'[browser'].url = rec'[browser'].locate_url
  <2>1. browser' = browser /\ Live
    BY <1>2, NewPage, Onward DEF Live, Quiet
  <2>2. CASE ActionSent
    BY <1>2, <2>1, <2>2 DEF ActionSent
  <2>3. CASE client'[browser] = client[browser]
    <3>1. client[browser].url = rec[browser].locate_url
      BY <1>2, <2>1, <2>3 DEF OpenedInv
    <3>2. ~Walking
      BY <1>2, <2>1, <2>3, WalkStep DEF StageInv
    <3>3. ~Beginning
      BY <1>0, <1>2, <2>1, <2>3, BeginStep DEF FreshInv, Entering, Quiet
    <3>4. ~AnalyseAnswer
      BY <1>2, <2>1, <2>3 DEF AnalyseAnswer, StageInv
    <3> QED BY <1>0, <2>1, <2>3, <3>1, <3>2, <3>3, <3>4, RecEffect
  <2>4. ~Act(browser) \/ client'[browser].at = "answer"
    BY <1>0, ActAnswers
  <2> QED BY <1>0, <1>2, <2>1, <2>2, <2>3, <2>4, ClientEffect DEF GoesOn, Quiet
<1>3. ASSUME pc' \in Sent, client'[browser'].at = "acting", client'[browser'].url = NoUrl
      PROVE  rec'[browser'].locate_url \in {NoUrl, rec'[browser'].current_url}
  <2>1. CASE ActionSent
    <3>1. client'[browser].url = IF InNewPage(browser) THEN rec[browser].locate_url ELSE NoUrl
      BY <2>1 DEF ActionSent
    <3> QED BY <1>3, <2>1, <3>1 DEF ActionSent, InNewPage
  <2>2. CASE ~ActionSent
    <3>1. pc \in Sent /\ UNCHANGED <<action, browser, rec>>
      BY <1>3, <2>2, SentEffect
    <3>2. ~Act(browser) \/ client'[browser].at = "answer"
      BY <1>0, ActAnswers
    <3>3. client'[browser] = client[browser]
      BY <1>0, <1>3, <2>2, <3>1, <3>2, ClientEffect DEF GoesOn, Quiet
    <3> QED BY <1>3, <3>1, <3>3 DEF OpenedInv
  <2> QED BY <2>1, <2>2
<1>4. ASSUME browser' # Top, rec'[browser'].locate_url \in Link,
             pc' = "analyse" \/ (pc' \in Sent /\ client'[browser'].at = "answer")
      PROVE  LastOf(visited, browser)' = rec'[browser'].locate_url
  <2>1. ~ActionSent
    BY <1>4 DEF ActionSent
  <2>2. pc \in Sent /\ UNCHANGED <<action, browser, rec>>
    BY <1>4, <2>1, SentEffect DEF Sent
  <2>3. ~AnalyseAnswer
    BY <1>4 DEF AnalyseAnswer, Sent
  <2>4. browser \in Pages(root) \ {Top}
    BY <1>0, <1>4, <2>2
  <2>5. CASE Act(browser)
    <3>1. client[browser].at = "acting" /\ Live
      BY <2>2, <2>5 DEF Act, Live, Sent
    <3>2. CASE client[browser].url # NoUrl
      <4>1. client[browser].url = rec[browser].locate_url
        BY <3>1, <3>2 DEF OpenedInv
      <4>2. CASE LastOf(visited, browser) # client[browser].url
        <5>1. visited' = [visited EXCEPT ![browser] = Append(@, client[browser].url)]
          BY <1>4, <2>2, <2>4, <2>5, <4>1, <4>2 DEF Act
        <5>2. /\ visited'[browser] = Append(visited[browser], client[browser].url)
              /\ visited[browser] \in Seq(Link)
          BY <2>4, <5>1, Behind DEF Typed, HistoryOK
        <5>3. visited'[browser] # visited[browser]
          BY <1>4, <2>2, <4>1, <5>2, AppendFacts
        <5> QED BY <2>2, <2>3, <2>4, <4>1, <5>3, LastEffect DEF LastOf
      <4>3. CASE LastOf(visited, browser) = client[browser].url
        <5>1. visited'[browser] = visited[browser]
          BY <2>3, <2>4, <4>3, LastEffect
        <5> QED BY <2>2, <4>1, <4>3, <5>1 DEF LastOf
      <4> QED BY <4>2, <4>3
    <3>3. CASE client[browser].url = NoUrl
      <4>1. rec[browser].locate_url = rec[browser].current_url
        BY <1>0, <1>4, <2>2, <3>1, <3>3 DEF OpenedInv
      <4>2. LastOf(visited, browser) = rec[browser].locate_url
        BY <1>4, <2>2, <2>4, <4>1 DEF OpenedInv
      <4>3. visited'[browser] = visited[browser]
        BY <1>0, <2>3, <2>4, <3>3, LastEffect
      <4> QED BY <2>2, <4>2, <4>3 DEF LastOf
    <3> QED BY <3>2, <3>3
  <2>6. CASE ~Act(browser)
    <3>1. pc = "analyse" \/ client[browser].at = "answer"
      <4>1. CASE pc' = "analyse"
        BY <2>2, <4>1, SentEffect
      <4>2. CASE pc' # "analyse"
        BY <1>0, <1>4, <2>1, <2>2, <2>6, <4>2, ClientEffect DEF GoesOn, Quiet
      <4> QED BY <4>1, <4>2
    <3>2. LastOf(visited, browser) = rec[browser].locate_url
      BY <1>4, <2>2, <3>1 DEF OpenedInv
    <3>3. visited'[browser] = visited[browser]
      BY <2>3, <2>4, <2>6, LastEffect
    <3> QED BY <2>2, <3>2, <3>3 DEF LastOf
  <2> QED BY <2>5, <2>6
<1> QED BY <1>0, <1>1, <1>2, <1>3, <1>4, PageOpened, UrlOpened DEF OpenedInv, Sent

-----------------------------------------------------------------------------
(* The texts of the pages.                                                 *)

-----------------------------------------------------------------------------
(* The texts that were put out.                                            *)

LastSaved(l) == visited[l] # <<>> => LastOf(visited, l) \in saved[l]

(* The texts of the last page are still to be put out only while its link  *)
(* is the one that is located, or the next link was just taken.            *)
SavedInv ==
  \A l \in Pages(root) \ {Top} : ~PassedOver(l) =>
    /\ \A i \in 1 .. Len(visited[l]) - 1 : visited[l][i] \in saved[l]
    /\ client[l].at = "acting" /\ client[l].url \in Link =>
         client[l].url = LastOf(visited, l) \/ LastSaved(l)
    /\ Live /\ ~Entering /\ browser = l /\ rec[l].locate_url \in Link =>
         \/ rec[l].locate_url = LastOf(visited, l)
         \/ LastSaved(l)
         \/ pc = "walk" /\ relation = "first_sibling" /\ ~IsLocal(next)

(* The script tells which pages may be passed over. *)
LEMMA PassedKept ==
  ASSUME root' = root, NEW l
  PROVE  PassedOver(l)' <=> PassedOver(l)
BY DEF PassedOver, Items, Actions

(* What follows the search. *)
LEMMA WalkEffect ==
  ASSUME Typed, ActionInv, [Next]_runVars, pc = "walk"
  PROVE  Walking \/ Land \/ UNCHANGED <<pc, walk, ret, action, browser, rec>>
<1>1. ~Beginning /\ ~Opening /\ ~Exchanging /\ ~Analysing
  BY BeginStep DEF Opening, Exchanging, Analysing, Enter, Begin, StartBrowser, StartFails,
     UseBrowser, NoBrowser, Accept, Connected, ReadRequest, WriteAction, Written, ReadAnswer,
     IoError, AnalyseAnswer, AnalyseError, AnalyseStopped, AskContinue, AskGiveUp
<1>2. ~Ending
  BY DEF Ending, WriteVerdict, ClosePipe, KeepPipe, AwaitEnd, Retry, Disconnect,
     Disconnected, Over, Release, Released, IoError
<1>3. ~SelectStopped
  BY DEF SelectStopped
<1>4. ASSUME NEW p \in Pages(root), Act(p) \/ Told(p) \/ Lost(p) \/ Crash(p)
      PROVE  UNCHANGED <<pc, walk, ret, action, browser, rec>>
  BY <1>4, Elsewhere
<1>5. Stop \/ UNCHANGED runVars => UNCHANGED <<pc, walk, ret, action, browser, rec>>
  BY DEF Stop, runVars, thread
<1> QED BY StepCases, <1>1, <1>2, <1>3, <1>4, <1>5 DEF Selecting

(* An action carried out opens a link when the one before was put out.     *)
LEMMA OpenedSaved ==
  ASSUME Typed, ActionInv, PageInv, FreshInv, StageInv, OpenedInv, SavedInv, [Next]_runVars,
         NEW l \in Pages(root) \ {Top}, ~PassedOver(l)
  PROVE  /\ \A i \in 1 .. Len(visited'[l]) - 1 : visited'[l][i] \in saved'[l]
         /\ client'[l].at = "acting" /\ client'[l].url \in Link =>
              client'[l].url = LastOf(visited, l)' \/ LastSaved(l)'
<1>0. /\ l \in Actions(root) /\ l \in Pages(root) /\ visited[l] \in Seq(Link)
      /\ \A i \in 1 .. Len(visited[l]) - 1 : visited[l][i] \in saved[l]
      /\ client[l].at = "acting" /\ client[l].url \in Link =>
           client[l].url = LastOf(visited, l) \/ LastSaved(l)
  BY Behind DEF SavedInv
<1>1. CASE AnalyseAnswer /\ action = l
  <2>1. visited[l] = <<>> /\ ~Act(l)
    BY <1>1, NotYet, Elsewhere DEF AnalyseAnswer
  <2>2. visited'[l] = <<>>
    BY <1>1, <2>1, LastEffect
  <2> QED BY <2>2 DEF LastSaved
<1>2. CASE ~(AnalyseAnswer /\ action = l)
  <2>1. saved[l] \subseteq saved'[l]
    BY <1>0, <1>2, HistoryEffect
  <2>2. CASE visited'[l] = visited[l] /\ ~Act(l)
    <3>1. LastOf(visited, l)' = LastOf(visited, l)
      BY <2>2 DEF LastOf
    <3>2. LastSaved(l) => LastSaved(l)'
      BY <2>1, <2>2, <3>1 DEF LastSaved
    <3>3. ASSUME client'[l].at = "acting", client'[l].url \in Link
          PROVE  client'[l].url = LastOf(visited, l) \/ LastSaved(l)
      <4>1. CASE client'[l] = client[l]
        BY <1>0, <3>3, <4>1
      <4>2. CASE l = browser /\ ActionSent
        <5>1. /\ client'[l].url = IF InNewPage(l) THEN rec[l].locate_url ELSE NoUrl
              /\ pc = "write" /\ Live /\ ~Entering
          BY <4>2 DEF ActionSent, Live, Entering
        <5>2. client'[l].url = rec[l].locate_url
          BY <3>3, <5>1, LinkAssumption
        <5> QED BY <3>3, <4>2, <5>1, <5>2 DEF SavedInv
      <4> QED BY <1>0, <2>2, <3>3, <4>1, <4>2, ClientEffect DEF GoesOn, Quiet
    <3> QED BY <1>0, <2>1, <2>2, <3>1, <3>2, <3>3
  <2>3. CASE Act(l)
    <3>1. client[l].at = "acting" /\ client'[l].at = "answer"
      BY <1>0, <2>3, ActAnswers
    <3>2. CASE visited'[l] = visited[l]
      BY <1>0, <2>1, <3>1, <3>2
    <3>3. CASE /\ client[l].url \in Link /\ LastOf(visited, l) # client[l].url
               /\ visited'[l] = Append(visited[l], client[l].url)
      <4>1. LastSaved(l)
        BY <1>0, <3>1, <3>3
      <4>2. /\ Len(visited'[l]) = Len(visited[l]) + 1 /\ Len(visited[l]) \in Nat
            /\ \A i \in 1 .. Len(visited[l]) : visited'[l][i] = visited[l][i]
        BY <1>0, <3>3, AppendFacts
      <4>3. ASSUME NEW i \in 1 .. Len(visited[l]) PROVE visited[l][i] \in saved[l]
        <5>1. CASE i = Len(visited[l])
          <6>1. visited[l] # <<>> /\ LastOf(visited, l) = visited[l][i]
            BY <1>0, <4>2, <5>1 DEF LastOf
          <6> QED BY <4>1, <6>1 DEF LastSaved
        <5>2. CASE i # Len(visited[l])
          BY <1>0, <4>2, <5>2
        <5> QED BY <5>1, <5>2
      <4> QED BY <2>1, <3>1, <4>2, <4>3
    <3> QED BY <1>2, <3>2, <3>3, LastEffect
  <2> QED BY <1>2, <2>2, <2>3, LastEffect
<1> QED BY <1>1, <1>2

(* The search takes the next link after the last action of a page.         *)
LEMMA LinkTaken ==
  ASSUME Typed, ActionInv, PageInv, StageInv, Walking, browser # Top, ~PassedOver(browser),
         rec'[browser].locate_url \in Link
  PROVE  \/ rec'[browser].locate_url = rec[browser].locate_url /\ pc # "walk"
         \/ rec'[browser].locate_url = rec[browser].locate_url /\ IsLocal(next)
         \/ pc' = "walk" /\ relation' = "first_sibling" /\ ~IsLocal(next')
<1> DEFINE n == NextAction(root, outputs, From)
<1>1. /\ From \in Actions(root) /\ Turn(From, n) /\ next' = n.next /\ relation' = n.relation
      /\ UNCHANGED <<root, action, browser>> /\ NoAction \notin Actions(root)
      /\ pc \in {"next", "walk", "skip"} /\ browser \in Pages(root)
      /\ pc' \in {"walk", "skip"} /\ (pc' = "skip" => IsLocal(next) /\ pc = "walk")
  BY WalkStep, ScriptFacts DEF From, Turn, Typed, ThreadOK
<1>2. CASE rec'[browser].locate_url = rec[browser].locate_url
  <2>1. pc = "walk" => IsLocal(next)
    BY <1>1 DEF Walking, Select, Local, Skip
  <2> QED BY <1>2, <2>1
<1>3. CASE rec'[browser].locate_url # rec[browser].locate_url
  <2>1. browser = n.source
    BY <1>1, <1>3, TurnEffect, LinkAssumption
  <2>2. browser < From
    <3>1. CASE pc = "next"
      BY <3>1, InUse DEF From
    <3>2. CASE pc # "next"
      <4>1. From = next /\ browser <= root.page[next] /\ browser \in Nat /\ next \in Actions(root)
        BY <1>1, <3>2, WalkStep, PageNumbers DEF From, PageInv, Typed, ThreadOK
      <4>2. root.page[next] < next /\ root.page[next] \in Nat /\ next \in Nat
        BY <4>1, ScriptFacts, PageNumbers DEF WellFormed, Typed, ThreadOK
      <4> QED BY <4>1, <4>2
    <3> QED BY <3>1, <3>2
  <2>3. browser = root.page[From] /\ NextItem(root, From) = NoAction
    <3>1. browser # From
      <4>1. browser \in Nat /\ From \in Nat
        BY <1>1, PageNumbers, ScriptFacts DEF Typed, ThreadOK
      <4> QED BY <2>2, <4>1
    <3> QED BY <1>1, <2>1, <3>1, NextActionCases, ScriptFacts DEF Typed, ThreadOK, Top, NoAction
  <2>4. root.kind[FirstItem(root, browser)] \notin {"jump", "script"}
    <3>1. FirstItem(root, browser) \in Items(root, browser)
      BY <1>1, <2>3, FirstItemIn, ScriptFacts DEF Items, Typed, ThreadOK
    <3> QED BY <3>1 DEF PassedOver
  <2>5. n.next = FirstItem(root, browser) /\ n.relation = "first_sibling"
    <3>1. n.source # NoAction /\ n.source = root.page[From] /\ WellFormed(root)
      BY <1>1, <2>1, <2>3, ScriptFacts DEF Typed, ThreadOK, Top, NoAction
    <3>2. root.kind[FirstItem(root, n.source)] # "jump"
      BY <2>1, <2>4
    <3> QED BY <1>1, <2>1, <3>1, <3>2, NextActionCases
  <2>6. ~(pc = "walk" /\ IsLocal(next))
    <3>1. pc = "walk" => From = next
      BY DEF From
    <3> QED BY <1>1, <2>3, <3>1 DEF IsLocal, PassedOver, Items
  <2> QED BY <1>1, <2>4, <2>5, <2>6 DEF IsLocal
<1> QED BY <1>2, <1>3

LEMMA LocatedSaved ==
  ASSUME Typed, ActionInv, PageInv, FreshInv, StageInv, OpenedInv, SavedInv, [Next]_runVars,
         NEW l \in Pages(root) \ {Top}, ~PassedOver(l),
         Live', ~Entering', browser' = l, rec'[l].locate_url \in Link
  PROVE  \/ rec'[l].locate_url = LastOf(visited, l)'
         \/ LastSaved(l)'
         \/ pc' = "walk" /\ relation' = "first_sibling" /\ ~IsLocal(next)'
<1>0. /\ l \in Actions(root) /\ l \in Nat /\ visited[l] \in Seq(Link) /\ root' = root
      /\ client[l] \in Process /\ rec[l] \in Record
      /\ browser \in Nat /\ Live /\ ~Beginning
  BY Behind, RootKept, PageNumbers, Onward, BeginStep DEF Live, Entering, Typed, ThreadOK
<1>1. CASE browser # l \/ Entering
  <2>1. visited[l] = <<>>
    <3>1. CASE Entering
      BY <1>0, <3>1 DEF FreshInv
    <3>2. CASE browser # l /\ ~Entering
      <4>1. browser' >= browser
        BY <1>0, <3>2, BrowserMoves DEF Live
      <4>2. l > browser
        BY <1>0, <3>2, <4>1
      <4> QED BY <1>0, <4>2 DEF FreshInv
    <3> QED BY <1>1, <3>1, <3>2
  <2>2. ~Act(l)
    <3>1. CASE Entering
      BY <1>0, <3>1, ActAnswers DEF FreshInv, Quiet
    <3>2. CASE browser # l
      BY <3>2, Elsewhere
    <3> QED BY <1>1, <3>1, <3>2
  <2>3. visited'[l] = <<>>
    BY <2>1, <2>2, LastEffect
  <2> QED BY <2>3 DEF LastSaved
<1>2. CASE browser = l /\ ~Entering
  <2>1. rec[l].locate_url \in Link =>
          \/ rec[l].locate_url = LastOf(visited, l)
          \/ LastSaved(l)
          \/ pc = "walk" /\ relation = "first_sibling" /\ ~IsLocal(next)
    BY <1>0, <1>2 DEF SavedInv
  <2>2. ~(AnalyseAnswer /\ action = l)
    BY <1>2, NotYet
  <2>3. saved[l] \subseteq saved'[l]
    BY <1>0, <2>2, HistoryEffect
  <2>4. CASE Walking
    <3>1. UNCHANGED <<visited, saved>>
      BY <2>4, WalkStep
    <3>2. LastOf(visited, l)' = LastOf(visited, l) /\ (LastSaved(l)' <=> LastSaved(l))
      BY <3>1 DEF LastOf, LastSaved
    <3>3. (IsLocal(next)') <=> IsLocal(next')
      BY <1>0 DEF IsLocal
    <3> QED BY <1>2, <2>1, <2>4, <3>2, <3>3, LinkTaken
  <2>5. CASE Land
    <3>1. UNCHANGED <<visited, rec>> /\ pc = "walk" /\ saved' = Saved
      BY <2>5 DEF Land
    <3>2. LastOf(visited, l)' = LastOf(visited, l)
      BY <3>1 DEF LastOf
    <3>3. relation = "first_sibling" => LastOf(visited, l) \in saved'[l]
      <4>1. root.page[action] = l
        BY <1>2, <3>1, InUse
      <4> QED BY <1>0, <3>1, <4>1 DEF Saved, Typed, HistoryOK
    <3> QED BY <2>1, <2>3, <3>1, <3>2, <3>3 DEF LastSaved
  <2>6. CASE ~Walking /\ ~Land
    <3>1. CASE Act(l)
      <4>1. client[l].at = "acting" /\ rec' = rec /\ UNCHANGED <<pc, walk, root>>
        BY <3>1, ActAnswers, Elsewhere
      <4>2. CASE visited'[l] = visited[l]
        <5>1. LastOf(visited, l)' = LastOf(visited, l) /\ (LastSaved(l) => LastSaved(l)')
          BY <2>3, <4>2 DEF LastOf, LastSaved
        <5> QED BY <2>1, <4>1, <5>1 DEF IsLocal
      <4>3. CASE client[l].url \in Link /\ LastOf(visited, l)' = client[l].url
        <5>1. client[l].url = rec[l].locate_url
          BY <1>0, <1>2, <4>1, <4>3, LinkAssumption DEF OpenedInv
        <5> QED BY <4>1, <4>3, <5>1
      <4> QED BY <2>2, <4>2, <4>3, LastEffect
    <3>2. CASE ~Act(l)
      <4>1. visited'[l] = visited[l] /\ LastOf(visited, l)' = LastOf(visited, l)
        BY <2>2, <3>2, LastEffect
      <4>2. LastSaved(l) => LastSaved(l)'
        BY <2>3, <4>1 DEF LastSaved
      <4>3. CASE rec'[l].locate_url = rec[l].locate_url
        <5>1. pc = "walk" => UNCHANGED <<pc, walk, root>>
          BY <1>0, <2>6, WalkEffect
        <5> QED BY <2>1, <4>1, <4>2, <4>3, <5>1 DEF IsLocal
      <4>4. CASE rec'[l].locate_url # rec[l].locate_url
        <5>1. AnalyseAnswer /\ rec'[l] = Located(rec[l], client[l])
          BY <1>0, <2>6, <4>4, RecEffect
        <5>2. rec'[l].locate_url = client[l].page
          BY <1>0, <4>4, <5>1 DEF Located, Record
        <5> QED BY <4>1, <5>2 DEF OpenedInv
      <4> QED BY <4>3, <4>4
    <3> QED BY <3>1, <3>2
  <2> QED BY <2>4, <2>5, <2>6
<1> QED BY <1>1, <1>2

LEMMA SavedKept ==
  ASSUME Typed, ActionInv, PageInv, FreshInv, StageInv, OpenedInv, SavedInv, [Next]_runVars
  PROVE  SavedInv'
<1>1. root' = root
  BY RootKept
<1>2. ASSUME NEW l \in Pages(root) \ {Top}, ~PassedOver(l)'
      PROVE  /\ \A i \in 1 .. Len(visited'[l]) - 1 : visited'[l][i] \in saved'[l]
             /\ client'[l].at = "acting" /\ client'[l].url \in Link =>
                  client'[l].url = LastOf(visited, l)' \/ LastSaved(l)'
             /\ Live' /\ ~Entering' /\ browser' = l /\ rec'[l].locate_url \in Link =>
                  \/ rec'[l].locate_url = LastOf(visited, l)'
                  \/ LastSaved(l)'
                  \/ pc' = "walk" /\ relation' = "first_sibling" /\ ~IsLocal(next)'
  <2>1. ~PassedOver(l)
    BY <1>1, <1>2, PassedKept
  <2> QED BY <2>1, OpenedSaved, LocatedSaved
<1> QED BY <1>1, <1>2 DEF SavedInv

(* Nothing is opened behind an action that leads nowhere. *)
NoPage == \A l \in Actions(root) \ Pages(root) : visited[l] = <<>>

LEMMA NoPageKept ==
  ASSUME Typed, ActionInv, NoPage, [Next]_runVars
  PROVE  NoPage'
BY RootKept, HistoryEffect DEF NoPage

LEMMA SavedGives ==
  ASSUME Typed, SavedInv, NoPage
  PROVE  PagesSaved
<1> SUFFICES ASSUME NEW l \in Actions(root), ~PassedOver(l),
                    NEW i \in 1 .. Len(visited[l]) - 1
             PROVE  visited[l][i] \in saved[l]
  BY DEF PagesSaved
<1>1. l # Top
  BY ScriptFacts DEF Typed, ThreadOK, Top, NoAction
<1>2. CASE l \in Pages(root)
  BY <1>1, <1>2 DEF SavedInv
<1>3. CASE l \notin Pages(root)
  BY <1>3 DEF NoPage
<1> QED BY <1>2, <1>3

-----------------------------------------------------------------------------
(* The order of the links.                                                 *)

First(l) == FirstItem(root, l)

(* How many links were taken from the list, and the one the manager loses. *)
Pos(l) == Len(found[l]) - Len(outputs[l])

(* What is left of a list is its end. *)
ListInv(l) ==
  /\ Len(outputs[l]) < Len(found[l]) \/ outputs[l] = <<>>
  /\ \A i \in 1 .. Len(outputs[l]) : outputs[l][i] = found[l][Pos(l) + i]

(* What was opened is its beginning, and what is being opened comes next.  *)
OrderInv(l) ==
  /\ visited[l] # <<>> => Len(visited[l]) + 1 <= Pos(l)
  /\ \A i \in 1 .. Len(visited[l]) : visited[l][i] = found[l][i + 1]
  /\ client[l].at = "acting" /\ client[l].url \in Link =>
       \/ client[l].url = LastOf(visited, l)
       \/ /\ Len(visited[l]) + 2 = Pos(l) /\ client[l].url = found[l][Pos(l)]
          /\ root.kind[First(l)] # "locate"

(* A link was taken and is not opened yet: the page's first action is the  *)
(* next one, and it will bring the link's URL, however often it is sent.   *)
Pending(l) ==
  /\ Len(visited[l]) + 2 = Pos(l)
  /\ rec[l].locate_url = found[l][Pos(l)]
  /\ \/ pc = "walk" /\ next = First(l) /\ ret = "ok"
     \/ /\ pc \in Before \cup {"written", "answer"} \cup After
        /\ action \in {First(l), NoAction}
        /\ pc \in {"written", "answer"} =>
             \/ client[l].at = "dead"
             \/ client[l].at = "acting" /\ client[l].url = rec[l].locate_url

(* A page the thread has yet to turn to, and the one it is on.             *)
AheadLinks(l) ==
  \/ Pos(l) <= 1 /\ rec[l].locate_url \notin Link
  \/ root.kind[First(l)] = "locate" /\ rec[l].locate_url \notin Link
  \/ root.kind[First(l)] # "locate" /\ Pending(l)

InLinks(l) ==
  /\ rec[l].locate_url \in Link =>
       /\ Pos(l) >= 2 /\ rec[l].locate_url = found[l][Pos(l)]
       /\ root.kind[First(l)] # "locate"
  /\ \/ root.kind[First(l)] = "locate" /\ visited[l] = <<>>
     \/ /\ root.kind[First(l)] # "locate"
        /\ Len(visited[l]) + 1 = Pos(l) \/ Pos(l) <= 1 \/ Pending(l)

LinkInv ==
  /\ \A l \in Actions(root) : ListInv(l)
  /\ \A l \in Pages(root) \ {Top} : ~PassedOver(l) =>
       /\ Live /\ (l > browser \/ Entering) => AheadLinks(l)
       /\ ~Repeats(l) =>
            /\ OrderInv(l)
            /\ Live /\ ~Entering /\ browser = l => InLinks(l)

LEMMA TailFacts ==
  ASSUME NEW s \in Seq(Link), s # <<>>
  PROVE  /\ Tail(s) \in Seq(Link) /\ Len(Tail(s)) = Len(s) - 1 /\ Len(s) \in Nat \ {0}
         /\ Head(s) = s[1] /\ Head(s) \in Link
         /\ \A i \in 1 .. Len(s) - 1 : Tail(s)[i] = s[i + 1]
OBVIOUS

(* What is left of the lists after a step. *)
LEMMA ListEffect ==
  ASSUME Typed, ActionInv, FreshInv, [Next]_runVars, NEW l \in Actions(root)
  PROVE  \/ outputs'[l] = outputs[l] /\ found'[l] = found[l]
         \/ /\ Walking /\ l = NextAction(root, outputs, From).source /\ outputs[l] # <<>>
            /\ outputs'[l] = Tail(outputs[l]) /\ found'[l] = found[l]
         \/ /\ AnalyseAnswer /\ action = l /\ found'[l] \in Seq(Link)
            /\ outputs'[l] = Listed(found'[l])
<1>0. root' = root /\ l # NoAction
  BY RootKept, ScriptFacts DEF Typed, ThreadOK
<1>1. CASE Beginning
  <2> DEFINE n == NextAction(root, outputs, action)
  <2>1. action \in Actions(root) /\ Turn(action, n) /\ found' = found /\ Entering
    BY <1>1, BeginStep DEF Entering
  <2>2. n.source # NoAction => n.source \in Actions(root) /\ outputs[n.source] # <<>>
    BY <2>1, NextActionIn, ScriptFacts DEF Typed, ThreadOK
  <2>3. n.source # l
    BY <1>0, <2>1, <2>2 DEF FreshInv
  <2> HIDE DEF n
  <2>4. outputs'[l] = outputs[l]
    BY <1>0, <2>1, <2>3, TurnEffect DEF n
  <2> QED BY <2>1, <2>4
<1>2. CASE Walking
  <2> DEFINE n == NextAction(root, outputs, From)
  <2>1. From \in Actions(root) /\ Turn(From, n) /\ found' = found
    BY <1>2, WalkStep
  <2>2. n.source # NoAction => outputs[n.source] # <<>>
    BY <2>1, NextActionIn, ScriptFacts DEF Typed, ThreadOK
  <2>3. outputs'[l] = IF l = n.source THEN Tail(outputs[l]) ELSE outputs[l]
    BY <1>0, <2>1, TurnEffect
  <2> QED BY <1>0, <1>2, <2>1, <2>2, <2>3
<1>3. CASE AnalyseAnswer /\ action = l /\ root.kind[l] = "links"
  <2>1. client[browser].links \in Seq(Link)
    BY DEF Typed, ThreadOK, ClientOK, Process
  <2>2. found'[l] = client[browser].links /\ outputs'[l] = Listed(found'[l])
    BY <1>3 DEF AnalyseAnswer, Typed, HistoryOK
  <2> QED BY <1>3, <2>1, <2>2
<1> QED BY <1>1, <1>2, <1>3, HistoryEffect

LEMMA ListKept ==
  ASSUME Typed, ActionInv, FreshInv, [Next]_runVars, NEW l \in Actions(root), ListInv(l)
  PROVE  ListInv(l)'
<1>0. outputs[l] \in Seq(Link) /\ found[l] \in Seq(Link)
  BY DEF Typed, HistoryOK
<1>1. CASE outputs'[l] = outputs[l] /\ found'[l] = found[l]
  BY <1>1 DEF ListInv, Pos
<1>2. CASE outputs[l] # <<>> /\ outputs'[l] = Tail(outputs[l]) /\ found'[l] = found[l]
  <2> DEFINE o == outputs[l]
             f == found[l]
  <2>1. Len(o) \in Nat \ {0} /\ Len(f) \in Nat /\ Len(o) < Len(f)
    BY <1>0, <1>2, TailFacts DEF ListInv
  <2>2. \A i \in 1 .. Len(o) : o[i] = f[Len(f) - Len(o) + i]
    BY DEF ListInv, Pos
  <2>3. Len(Tail(o)) = Len(o) - 1 /\ \A i \in 1 .. Len(o) - 1 : Tail(o)[i] = o[i + 1]
    BY <1>0, <1>2, TailFacts
  <2> HIDE DEF o, f
  <2>4. \A i \in 1 .. Len(o) - 1 : Tail(o)[i] = f[Len(f) - (Len(o) - 1) + i]
    <3> TAKE i \in 1 .. Len(o) - 1
    <3>1. i + 1 \in 1 .. Len(o) /\ Len(f) - Len(o) + (i + 1) = Len(f) - (Len(o) - 1) + i
      BY <2>1
    <3> QED BY <2>2, <2>3, <3>1
  <2>5. Len(Tail(o)) < Len(f)
    BY <2>1, <2>3
  <2> QED BY <1>2, <2>3, <2>4, <2>5 DEF ListInv, Pos, o, f
<1>3. CASE found'[l] \in Seq(Link) /\ outputs'[l] = Listed(found'[l])
  <2> DEFINE f == found'[l]
  <2>1. CASE f = <<>>
    <3>1. outputs'[l] = <<>>
      BY <1>3, <2>1 DEF Listed
    <3> QED BY <3>1 DEF ListInv
  <2>2. CASE f # <<>>
    <3>1. outputs'[l] = Tail(f)
      BY <1>3, <2>2 DEF Listed
    <3>2. /\ Len(Tail(f)) = Len(f) - 1 /\ Len(f) \in Nat \ {0}
          /\ \A i \in 1 .. Len(f) - 1 : Tail(f)[i] = f[i + 1]
      BY <1>3, <2>2, TailFacts
    <3> HIDE DEF f
    <3>3. Len(f) - Len(Tail(f)) = 1 /\ \A i \in 1 .. Len(f) - 1 : i + 1 = 1 + i
      BY <3>2
    <3>4. /\ Len(Tail(f)) < Len(f)
          /\ \A i \in 1 .. Len(Tail(f)) : Tail(f)[i] = f[Len(f) - Len(Tail(f)) + i]
      BY <3>2, <3>3
    <3> QED BY <3>1, <3>4 DEF ListInv, Pos, f
  <2> QED BY <2>1, <2>2
<1> QED BY <1>1, <1>2, <1>3, ListEffect

(* The search never turns back to a page the thread has left. *)
LEMMA TurnBefore ==
  ASSUME Typed, ActionInv, PageInv, Walking, NEW l \in Pages(root) \ {Top},
         l = NextAction(root, outputs, From).source
  PROVE  browser <= l /\ From \in Actions(root) /\ browser <= root.page[From]
<1> DEFINE n == NextAction(root, outputs, From)
<1>0. l \in Actions(root) /\ l # NoAction /\ l \in Nat
  BY Behind
<1>1. From \in Actions(root) /\ pc \in {"next", "walk", "skip"} /\ WellFormed(root)
  BY WalkStep, ScriptFacts DEF Typed, ThreadOK
<1>2. l = From \/ l = root.page[From]
  BY <1>0, <1>1, NextActionCases
<1>3. /\ browser \in Nat /\ From \in Nat /\ root.page[From] < From /\ root.page[From] \in Nat
  BY <1>1, PageNumbers, ScriptFacts DEF WellFormed, Typed, ThreadOK
<1>4. browser <= root.page[From]
  <2>1. CASE pc = "next"
    <3>1. browser = root.page[From]
      BY <2>1, InUse DEF From
    <3> QED BY <1>3, <3>1
  <2>2. CASE pc # "next"
    BY <1>1, <2>2, WalkStep, ScriptFacts DEF From, PageInv, Typed, ThreadOK
  <2> QED BY <2>1, <2>2
<1> QED BY <1>0, <1>1, <1>2, <1>3, <1>4

(* A page behind links is opened by its first action. *)
LEMMA TurnTo ==
  ASSUME Typed, ActionInv, PageInv, Walking, NEW l \in Pages(root) \ {Top}, ~PassedOver(l),
         l = NextAction(root, outputs, From).source
  PROVE  /\ next' = First(l) /\ ret' = "ok" /\ pc' = "walk"
         /\ outputs[l] # <<>> /\ outputs'[l] = Tail(outputs[l])
         /\ rec'[l].locate_url = IF root.kind[First(l)] = "locate" THEN "located"
                                 ELSE Head(outputs[l])
         /\ browser <= l
<1> DEFINE n == NextAction(root, outputs, From)
<1>0. l \in Actions(root) /\ l # NoAction /\ l \in Nat
  BY Behind
<1>1. /\ From \in Actions(root) /\ Turn(From, n) /\ next' = n.next /\ ret' = n.ret
      /\ UNCHANGED <<root, action, browser>> /\ WellFormed(root)
      /\ pc \in {"next", "walk", "skip"} /\ browser \in Pages(root)
      /\ pc' \in {"walk", "skip"} /\ (pc' = "skip" => IsLocal(next) /\ pc = "walk")
  BY WalkStep, ScriptFacts DEF From, Turn, Typed, ThreadOK
<1>2. /\ \/ l = From /\ root.kind[From] = "links"
         \/ l = root.page[From] /\ NextItem(root, From) = NoAction
      /\ Items(root, l) # {} /\ outputs[l] # <<>>
      /\ root.kind[First(l)] # "jump" => n.next = First(l) /\ n.ret = "ok"
  <2>1. n.source = l /\ n.source # NoAction
    BY <1>0
  <2>2. /\ \/ n.source = From /\ root.kind[From] = "links"
           \/ n.source = root.page[From] /\ NextItem(root, From) = NoAction
        /\ Items(root, n.source) # {} /\ outputs[n.source] # <<>>
        /\ root.kind[FirstItem(root, n.source)] # "jump" =>
             n.next = FirstItem(root, n.source) /\ n.ret = "ok"
    BY <1>1, <2>1, NextActionCases
  <2> QED BY <2>1, <2>2 DEF First
<1>3. First(l) \in Items(root, l) /\ First(l) # NoAction
  BY <1>0, <1>1, <1>2, FirstItemIn, ScriptFacts DEF First, Items, Typed, ThreadOK
<1>4. root.kind[First(l)] \notin {"jump", "script"} /\ root.page[First(l)] = l
  BY <1>3 DEF PassedOver, First, Items
<1>5. n.next = First(l) /\ n.ret = "ok"
  BY <1>2, <1>4
<1>6. pc' = "walk"
  <2>1. pc = "walk" => From = next
    BY DEF From
  <2>2. ~(pc = "walk" /\ IsLocal(next))
    BY <1>1, <1>2, <2>1 DEF IsLocal, PassedOver, Items
  <2> QED BY <1>1, <2>2
<1>7. browser <= l
  BY TurnBefore
<1>8. /\ outputs'[l] = Tail(outputs[l])
      /\ rec'[l].locate_url = IF root.kind[First(l)] = "locate" THEN "located"
                              ELSE Head(outputs[l])
  <2>1. outputs'[l] = Tail(outputs[l])
    BY <1>0, <1>1, TurnEffect
  <2>2. NoAction = Top
    BY DEF NoAction, Top
  <2>3. n.relation # "none"
    BY <1>0, <1>1, NextActionCases
  <2> QED BY <1>0, <1>1, <1>3, <1>4, <1>5, <2>1, <2>2, <2>3, TurnEffect
<1> QED BY <1>1, <1>2, <1>5, <1>6, <1>7, <1>8

(* Where a page is located changes with the search and with a "load".      *)
LEMMA UrlEffect ==
  ASSUME Typed, ActionInv, PageInv, [Next]_runVars, NEW l \in Pages(root) \ {Top},
         ~Walking \/ l # NextAction(root, outputs, From).source,
         ~Beginning \/ l # NextAction(root, outputs, action).source
  PROVE  \/ rec'[l].locate_url = rec[l].locate_url
         \/ rec'[l].locate_url \notin Link
         \/ AnalyseAnswer /\ l = browser /\ rec'[l].locate_url = client[l].page
<1>0. root' = root /\ rec[l] \in Record /\ "located" \notin Link /\ NoUrl \notin Link
  BY RootKept, Behind, LinkAssumption
<1>1. CASE Beginning
  BY <1>0, <1>1, BeginStep, TurnEffect
<1>2. CASE Walking
  BY <1>0, <1>2, WalkStep, TurnEffect
<1>3. CASE l = browser /\ AnalyseAnswer /\ rec'[l] = Located(rec[l], client[l])
  BY <1>0, <1>3 DEF Located, Record
<1> QED BY <1>1, <1>2, <1>3, RecEffect

(* Numbers of links. *)
LEMMA Lengths ==
  ASSUME Typed, NEW l \in Pages(root) \ {Top}, ListInv(l)
  PROVE  /\ Len(visited[l]) \in Nat /\ Len(outputs[l]) \in Nat /\ Len(found[l]) \in Nat
         /\ Pos(l) \in Nat /\ Pos(l) <= Len(found[l])
         /\ outputs[l] # <<>> => Pos(l) >= 1 /\ Len(outputs[l]) >= 1 /\ Pos(l) < Len(found[l])
         /\ outputs[l] # <<>> => outputs[l][1] = found[l][Pos(l) + 1]
         /\ \A i \in 1 .. Len(found[l]) : found[l][i] \in Link
         /\ visited[l] = <<>> <=> Len(visited[l]) = 0
<1>1. visited[l] \in Seq(Link) /\ outputs[l] \in Seq(Link) /\ found[l] \in Seq(Link)
  BY Behind
<1>2. /\ Len(visited[l]) \in Nat /\ Len(outputs[l]) \in Nat /\ Len(found[l]) \in Nat
      /\ outputs[l] # <<>> <=> Len(outputs[l]) >= 1
      /\ visited[l] = <<>> <=> Len(visited[l]) = 0
      /\ \A i \in 1 .. Len(found[l]) : found[l][i] \in Link
  BY <1>1
<1>3. Pos(l) \in Nat /\ Pos(l) <= Len(found[l])
      /\ (outputs[l] # <<>> => Pos(l) >= 1 /\ Pos(l) < Len(found[l]))
  <2>1. Len(outputs[l]) < Len(found[l]) \/ outputs[l] = <<>>
    BY DEF ListInv
  <2>2. Pos(l) = Len(found[l]) - Len(outputs[l])
    BY DEF Pos
  <2>3. ASSUME NEW a \in Nat, NEW b \in Nat, a < b \/ ~(a >= 1)
        PROVE  b - a \in Nat /\ b - a <= b /\ (a >= 1 => b - a >= 1 /\ b - a < b)
    BY <2>3
  <2>4. Len(outputs[l]) < Len(found[l]) \/ ~(Len(outputs[l]) >= 1)
    BY <1>2, <2>1
  <2> HIDE DEF Pos
  <2> QED BY <1>2, <2>2, <2>3, <2>4
<1> QED BY <1>2, <1>3 DEF ListInv

(* The last link that was opened is not the one that comes next.           *)
LEMMA NextLink ==
  ASSUME Typed, NEW l \in Pages(root) \ {Top}, ListInv(l), OrderInv(l), ~Repeats(l),
         Len(visited[l]) + 2 = Pos(l)
  PROVE  /\ found[l][Pos(l)] \in Link /\ LastOf(visited, l) # found[l][Pos(l)]
         /\ Pos(l) >= 2
<1> DEFINE k == Len(visited[l])
<1>1. /\ k \in Nat /\ Pos(l) = k + 2 /\ Pos(l) <= Len(found[l]) /\ Len(found[l]) \in Nat
      /\ visited[l] = <<>> <=> k = 0
  BY Lengths
<1>2. found[l][Pos(l)] \in Link
  BY <1>1, Lengths
<1>3. CASE k = 0
  BY <1>1, <1>2, <1>3, LinkAssumption DEF LastOf
<1>4. CASE k # 0
  <2>1. LastOf(visited, l) = visited[l][k] /\ visited[l][k] = found[l][k + 1]
    BY <1>1, <1>4 DEF LastOf, OrderInv
  <2>2. k + 1 \in 2 .. Len(found[l]) - 1 /\ (k + 1) + 1 = k + 2
    BY <1>1, <1>4
  <2>3. found[l][k + 1] # found[l][(k + 1) + 1]
    BY <2>2 DEF Repeats
  <2> QED BY <1>1, <1>2, <2>1, <2>2, <2>3
<1> QED BY <1>1, <1>2, <1>3, <1>4

(* The list of a page stays as it is while a browser opens one of its links. *)
LEMMA Ahead ==
  ASSUME Typed, ActionInv, PageInv, StageInv, FreshInv, [Next]_runVars,
         NEW l \in Pages(root) \ {Top}, client[l].at = "acting"
  PROVE  outputs'[l] = outputs[l] /\ found'[l] = found[l]
<1>0. l \in Actions(root) /\ l \in Nat
  BY Behind
<1>1. ~(AnalyseAnswer /\ action = l)
  BY NotYet DEF Quiet
<1>2. ASSUME Walking, l = NextAction(root, outputs, From).source
      PROVE  FALSE
  <2>1. browser <= l
    BY <1>2, TurnBefore
  <2>2. browser \in Nat /\ Live /\ pc \in {"next", "walk", "skip"}
    BY <1>2, WalkStep, PageNumbers DEF Live, Typed, ThreadOK
  <2>3. CASE browser = l
    BY <2>2, <2>3 DEF StageInv
  <2>4. CASE l > browser
    BY <2>2, <2>4 DEF FreshInv, Quiet
  <2> QED BY <1>0, <2>1, <2>2, <2>3, <2>4
<1> QED BY <1>0, <1>1, <1>2, ListEffect

LEMMA OrderKept ==
  ASSUME Typed, ActionInv, PageInv, StageInv, FreshInv, OpenedInv, LinkInv, [Next]_runVars,
         NEW l \in Pages(root) \ {Top}, ~PassedOver(l), ~Repeats(l)'
  PROVE  OrderInv(l)'
<1>0. l \in Actions(root) /\ root' = root /\ visited[l] \in Seq(Link) /\ First(l)' = First(l)
  BY Behind, RootKept DEF First
<1>1. CASE AnalyseAnswer /\ action = l
  <2>1. client[l] = Quiet /\ visited[l] = <<>> /\ UNCHANGED client
    BY <1>1, NotYet DEF AnalyseAnswer
  <2>2. visited'[l] = <<>>
    BY <2>1, LastEffect, ActAnswers DEF Quiet
  <2>3. Len(visited'[l]) = 0
    BY <2>2
  <2> QED BY <2>1, <2>2, <2>3 DEF OrderInv, Quiet
<1>2. CASE ~(AnalyseAnswer /\ action = l)
  <2>1. found'[l] = found[l] /\ ~Repeats(l)
    BY <1>0, <1>2, ListEffect DEF Repeats
  <2>2. OrderInv(l) /\ ListInv(l)
    BY <1>0, <2>1 DEF LinkInv
  <2>3. /\ Len(visited[l]) \in Nat /\ Pos(l) \in Nat /\ Len(outputs[l]) \in Nat
        /\ Len(found[l]) \in Nat /\ (visited[l] = <<>> <=> Len(visited[l]) = 0)
    BY <2>2, Lengths
  <2>4. Pos(l)' >= Pos(l) /\ Pos(l)' \in Nat
    <3>1. CASE outputs'[l] = outputs[l]
      BY <2>1, <2>3, <3>1 DEF Pos
    <3>2. CASE outputs[l] # <<>> /\ outputs'[l] = Tail(outputs[l])
      <4>1. Len(Tail(outputs[l])) = Len(outputs[l]) - 1
        BY <3>2, TailFacts, Behind
      <4> QED BY <2>1, <2>3, <3>2, <4>1 DEF Pos
    <3> QED BY <1>0, <1>2, <3>1, <3>2, ListEffect
  <2>5. CASE /\ Act(l) /\ client[l].url \in Link /\ LastOf(visited, l) # client[l].url
             /\ visited'[l] = Append(visited[l], client[l].url)
    <3>1. client[l].at = "acting" /\ client'[l].at = "answer"
      BY <2>5, ActAnswers
    <3>2. Len(visited[l]) + 2 = Pos(l) /\ client[l].url = found[l][Pos(l)]
      BY <2>2, <2>5, <3>1 DEF OrderInv
    <3>3. /\ Len(visited'[l]) = Len(visited[l]) + 1
          /\ visited'[l][Len(visited[l]) + 1] = client[l].url
          /\ \A i \in 1 .. Len(visited[l]) : visited'[l][i] = visited[l][i]
      BY <1>0, <2>5, AppendFacts
    <3>4. Len(visited'[l]) + 1 <= Pos(l)'
      BY <2>3, <2>4, <3>2, <3>3
    <3>5. ASSUME NEW i \in 1 .. Len(visited[l]) + 1
          PROVE  visited'[l][i] = found[l][i + 1]
      <4>1. CASE i = Len(visited[l]) + 1
        <5>1. i + 1 = Pos(l)
          BY <2>3, <3>2, <4>1
        <5> QED BY <3>2, <3>3, <4>1, <5>1
      <4>2. CASE i # Len(visited[l]) + 1
        <5>1. i \in 1 .. Len(visited[l])
          BY <2>3, <4>2
        <5> QED BY <2>2, <3>3, <5>1 DEF OrderInv
      <4> QED BY <4>1, <4>2
    <3> QED BY <2>1, <3>1, <3>3, <3>4, <3>5 DEF OrderInv
  <2>6. CASE visited'[l] = visited[l]
    <3>1. LastOf(visited, l)' = LastOf(visited, l)
      BY <2>6 DEF LastOf
    <3>2. visited'[l] # <<>> => Len(visited'[l]) + 1 <= Pos(l)'
      BY <2>2, <2>3, <2>4, <2>6 DEF OrderInv
    <3>3. \A i \in 1 .. Len(visited'[l]) : visited'[l][i] = found'[l][i + 1]
      BY <2>1, <2>2, <2>6 DEF OrderInv
    <3>4. ASSUME client'[l].at = "acting", client'[l].url \in Link
          PROVE  \/ client'[l].url = LastOf(visited, l)
                 \/ /\ Len(visited[l]) + 2 = Pos(l)' /\ client'[l].url = found[l][Pos(l)']
                    /\ root.kind[First(l)] # "locate"
      <4>1. CASE client'[l] = client[l]
        <5>1. Pos(l)' = Pos(l)
          BY <3>4, <4>1, Ahead DEF Pos
        <5> QED BY <2>2, <3>4, <4>1, <5>1 DEF OrderInv
      <4>2. CASE l = browser /\ ActionSent
        <5>1. /\ client'[l].url = rec[l].locate_url /\ pc = "write" /\ Live /\ ~Entering
              /\ UNCHANGED <<outputs, found>>
          BY <3>4, <4>2, LinkAssumption DEF ActionSent, Live, Entering
        <5>2. InLinks(l)
          BY <2>1, <4>2, <5>1 DEF LinkInv
        <5>3. /\ Pos(l)' = Pos(l) /\ Pos(l) >= 2 /\ client'[l].url = found[l][Pos(l)]
              /\ root.kind[First(l)] # "locate"
          BY <3>4, <5>1, <5>2 DEF InLinks, Pos
        <5>4. Len(visited[l]) + 1 = Pos(l) \/ Len(visited[l]) + 2 = Pos(l)
          BY <2>3, <5>2, <5>3 DEF InLinks, Pending
        <5>5. CASE Len(visited[l]) + 1 = Pos(l)
          <6>1. Len(visited[l]) \in 1 .. Len(visited[l]) /\ visited[l] # <<>>
            BY <2>3, <5>3, <5>5
          <6>2. LastOf(visited, l) = found[l][Len(visited[l]) + 1]
            BY <2>2, <6>1 DEF LastOf, OrderInv
          <6> QED BY <5>3, <5>5, <6>2
        <5> QED BY <5>3, <5>4, <5>5
      <4> QED BY <3>4, <4>1, <4>2, ClientEffect, ActAnswers DEF GoesOn, Quiet
    <3> QED BY <1>0, <2>1, <2>6, <3>1, <3>2, <3>3, <3>4 DEF OrderInv
  <2> QED BY <1>2, <2>5, <2>6, LastEffect
<1> QED BY <1>1, <1>2

(* Where the thread goes until an action is carried out.                   *)
LEMMA StageEffect ==
  ASSUME Typed, ActionInv, [Next]_runVars, Live', ~Beginning,
         pc \in Before \cup {"written", "answer"} \cup After
  PROVE  \/ pc' \in Before \cup {"written", "answer"} \cup After
         \/ pc = "answer" /\ client[browser].at = "answer"
<1> USE DEF Before, After, Live
<1>1. ~Walking /\ ~Analysing /\ ~Selecting
  BY WalkStep DEF Analysing, AnalyseAnswer, AnalyseError, AnalyseStopped, AskContinue,
     AskGiveUp, Selecting, Land, SelectStopped
<1>2. CASE Opening
  BY <1>2 DEF Opening, Enter, Begin, StartBrowser, StartFails, UseBrowser, NoBrowser, Accept
<1>3. CASE Exchanging
  BY <1>3
    DEF Exchanging, Connected, ReadRequest, WriteAction, Written, ReadAnswer, IoError
<1>4. CASE Ending
  BY <1>4 DEF Ending, WriteVerdict, ClosePipe, KeepPipe, AwaitEnd, Retry, Disconnect,
     Disconnected, Over, Release, Released, IoError
<1>5. ASSUME NEW p \in Pages(root), Act(p) \/ Told(p) \/ Lost(p) \/ Crash(p)
      PROVE  pc' = pc
  BY <1>5, Elsewhere
<1>6. Stop \/ UNCHANGED runVars => pc' = pc
  BY DEF Stop, runVars, thread
<1> QED BY StepCases, <1>1, <1>2, <1>3, <1>4, <1>5, <1>6

(* No action is searched while a link is to be opened. *)
LEMMA NotPending ==
  ASSUME Typed, ActionInv, NEW l \in Pages(root) \ {Top}, ~PassedOver(l),
         Items(root, l) # {}, Pending(l)
  PROVE  ~Walking
<1>1. First(l) \in Items(root, l)
  BY FirstItemIn, ScriptFacts DEF First, Typed, ThreadOK
<1>2. root.kind[First(l)] # "script"
  BY <1>1 DEF PassedOver, First
<1>3. Walking => pc = "walk" /\ next = First(l)
  BY WalkStep DEF Pending, Before, After
<1>4. Walking /\ pc = "walk" => IsLocal(next)
  BY DEF Walking, Select, Local, Skip
<1> QED BY <1>2, <1>3, <1>4 DEF IsLocal

(* A link that was taken stays the next one to be opened.                  *)
LEMMA PendingKept ==
  ASSUME Typed, ActionInv, PageInv, [Next]_runVars, Live', ~Beginning,
         NEW l \in Pages(root) \ {Top}, ~PassedOver(l), Items(root, l) # {}, Pending(l),
         visited'[l] = visited[l], outputs'[l] = outputs[l], found'[l] = found[l],
         rec'[l].locate_url = rec[l].locate_url,
         pc' \in {"written", "answer"} =>
           \/ client'[l].at = "dead"
           \/ client'[l].at = "acting" /\ client'[l].url = rec[l].locate_url,
         pc = "answer" => client[browser].at # "answer"
  PROVE  Pending(l)'
<1>0. root' = root /\ First(l)' = First(l) /\ Pos(l)' = Pos(l)
  BY RootKept DEF First, Pos
<1>3. ~Walking
  BY NotPending
<1>4. CASE pc = "walk" /\ next = First(l) /\ ret = "ok"
  <2>1. CASE Land
    BY <1>0, <1>4, <2>1 DEF Land, Pending, After
  <2>2. CASE UNCHANGED <<pc, walk, ret, action, browser, rec>>
    BY <1>0, <1>4, <2>2 DEF Pending
  <2> QED BY <1>3, <1>4, <2>1, <2>2, WalkEffect
<1>5. CASE /\ pc \in Before \cup {"written", "answer"} \cup After
           /\ action \in {First(l), NoAction}
  <2>1. pc' \in Before \cup {"written", "answer"} \cup After
    BY <1>5, StageEffect
  <2>2. action' \in {First(l), NoAction}
    <3>1. ~Land
      BY <1>5 DEF Land, Before, After
    <3> QED BY <1>5, <3>1, ActionEffect
  <2> QED BY <1>0, <2>1, <2>2 DEF Pending, Before, After
<1> QED BY <1>4, <1>5 DEF Pending

(* A link that was taken will be sent with the next action. *)
LEMMA PendingOpens ==
  ASSUME Typed, OpenedInv, NEW l \in Pages(root) \ {Top}, ListInv(l), OrderInv(l),
         ~Repeats(l), Pending(l)
  PROVE  /\ rec[l].locate_url \in Link /\ LastOf(visited, l) # rec[l].locate_url
         /\ InNewPage(l)
<1>1. rec[l].locate_url \in Link /\ LastOf(visited, l) # rec[l].locate_url
  BY NextLink DEF Pending
<1>2. rec[l].current_url # rec[l].locate_url
  BY <1>1 DEF OpenedInv
<1> QED BY <1>1, <1>2, LinkAssumption DEF InNewPage

(* Only the search and a "load" change where a page is located. *)
LEMMA SameUrl ==
  ASSUME Typed, ActionInv, [Next]_runVars, NEW l \in Pages(root) \ {Top},
         ~Walking, ~Beginning, ~(AnalyseAnswer /\ l = browser)
  PROVE  rec'[l].locate_url = rec[l].locate_url
BY RecEffect

LEMMA AheadLinksKept ==
  ASSUME Typed, ActionInv, PageInv, StageInv, FreshInv, LinkInv, [Next]_runVars,
         NEW l \in Pages(root) \ {Top}, ~PassedOver(l), Live', l > browser' \/ Entering'
  PROVE  AheadLinks(l)'
<1>0. /\ l \in Actions(root) /\ l \in Nat /\ root' = root /\ First(l)' = First(l)
      /\ Live /\ (l > browser \/ Entering) /\ Items(root, l) # {}
      /\ browser \in Nat
  BY Behind, RootKept, StillAhead, PageNumbers DEF First, Items, Pages, Typed, ThreadOK
<1>1. /\ client[l] = Quiet /\ visited[l] = <<>> /\ Len(visited[l]) = 0
      /\ AheadLinks(l) /\ ListInv(l)
  <2>1. client[l] = Quiet /\ visited[l] = <<>>
    BY <1>0 DEF FreshInv
  <2> QED BY <1>0, <2>1 DEF LinkInv
<1>2. visited'[l] = <<>>
  BY <1>1, LastEffect, ActAnswers DEF Quiet
<1>3. CASE AnalyseAnswer /\ action = l
  <2>1. pc = "analyse" /\ l # browser
    BY <1>3, NotYet DEF AnalyseAnswer
  <2>2. rec[l].locate_url \notin Link
    BY <1>1, <2>1 DEF AheadLinks, Pending, Before, After
  <2>3. rec'[l].locate_url \notin Link
    BY <1>3, <2>1, <2>2, BeginStep, WalkStep, UrlEffect
  <2>4. ~Walking
    BY <2>1, WalkStep
  <2>5. CASE outputs'[l] = outputs[l] /\ found'[l] = found[l]
    <3>1. Pos(l)' = Pos(l)
      BY <2>5 DEF Pos
    <3>2. root.kind[First(l)] = "locate" \/ Pos(l) <= 1
      BY <1>1, <2>1 DEF AheadLinks, Pending, Before, After
    <3> QED BY <1>0, <2>3, <3>1, <3>2 DEF AheadLinks
  <2>6. CASE found'[l] \in Seq(Link) /\ outputs'[l] = Listed(found'[l])
    <3>1. Pos(l)' <= 1
      <4>1. CASE found'[l] = <<>>
        BY <2>6, <4>1 DEF Pos, Listed
      <4>2. CASE found'[l] # <<>>
        <5>1. outputs'[l] = Tail(found'[l])
          BY <2>6, <4>2 DEF Listed
        <5>2. Len(Tail(found'[l])) = Len(found'[l]) - 1 /\ Len(found'[l]) \in Nat
          BY <2>6, <4>2, TailFacts
        <5> HIDE DEF Pos
        <5> QED BY <5>1, <5>2 DEF Pos
      <4> QED BY <4>1, <4>2
    <3> QED BY <2>3, <3>1 DEF AheadLinks
  <2> QED BY <1>0, <1>3, <2>5, <2>4, <2>6, ListEffect
<1>4. CASE Walking /\ l = NextAction(root, outputs, From).source
  <2>1. /\ next' = First(l) /\ ret' = "ok" /\ pc' = "walk"
        /\ outputs[l] # <<>> /\ outputs'[l] = Tail(outputs[l])
        /\ rec'[l].locate_url = IF root.kind[First(l)] = "locate" THEN "located"
                                ELSE Head(outputs[l])
    BY <1>4, TurnTo
  <2>2. CASE root.kind[First(l)] = "locate"
    BY <1>0, <2>1, <2>2, LinkAssumption DEF AheadLinks
  <2>3. CASE root.kind[First(l)] # "locate"
    <3>1. ~Pending(l)
      BY <1>0, <1>4, NotPending
    <3>2. Pos(l) <= 1
      BY <1>1, <2>3, <3>1 DEF AheadLinks
    <3>3. /\ Len(outputs[l]) \in Nat /\ Len(found[l]) \in Nat /\ Pos(l) \in Nat /\ Pos(l) >= 1
          /\ outputs[l][1] = found[l][Pos(l) + 1]
      BY <1>1, <2>1, Lengths
    <3>4. Len(Tail(outputs[l])) = Len(outputs[l]) - 1 /\ Head(outputs[l]) = outputs[l][1]
      BY <2>1, Behind, TailFacts
    <3>5. found'[l] = found[l]
      BY <1>4, WalkStep
    <3>6. Pos(l)' = 2 /\ Pos(l) = 1
      BY <2>1, <3>2, <3>3, <3>4, <3>5 DEF Pos
    <3>7. rec'[l].locate_url = found'[l][2]
      BY <2>1, <2>3, <3>3, <3>4, <3>5, <3>6
    <3>8. Len(visited'[l]) = 0
      BY <1>2
    <3>9. Pending(l)'
      BY <1>0, <2>1, <3>6, <3>7, <3>8 DEF Pending
    <3> QED BY <1>0, <2>3, <3>9 DEF AheadLinks
  <2> QED BY <2>2, <2>3
<1>5. CASE /\ ~(AnalyseAnswer /\ action = l)
           /\ ~(Walking /\ l = NextAction(root, outputs, From).source)
  <2>1. outputs'[l] = outputs[l] /\ found'[l] = found[l]
    BY <1>0, <1>5, ListEffect
  <2>2. ~Beginning \/ l # NextAction(root, outputs, action).source
    <3>1. CASE Beginning
      <4>1. outputs[l] = <<>> /\ action \in Actions(root)
        BY <1>0, <3>1, BeginStep DEF FreshInv, Entering
      <4> QED BY <1>0, <4>1, NextActionIn, ScriptFacts DEF Typed, ThreadOK
    <3> QED BY <3>1
  <2>3. ~(AnalyseAnswer /\ l = browser)
    BY <1>0 DEF AnalyseAnswer, Entering
  <2>4. rec'[l].locate_url = rec[l].locate_url \/ rec'[l].locate_url \notin Link
    BY <1>5, <2>2, <2>3, UrlEffect
  <2>5. Pos(l)' = Pos(l)
    BY <2>1 DEF Pos
  <2>6. CASE rec[l].locate_url \notin Link
    <3>1. ~Pending(l) \/ root.kind[First(l)] = "locate" \/ Pos(l) <= 1
      <4>1. Pending(l) => Pos(l) = 2 /\ rec[l].locate_url = found[l][2]
        BY <1>1 DEF Pending
      <4>2. Pos(l) = 2 => found[l][2] \in Link
        <5>1. Pos(l) = 2 => 2 \in 1 .. Len(found[l])
          BY <1>1, Lengths
        <5> QED BY <1>1, <5>1, Lengths
      <4> QED BY <2>6, <4>1, <4>2
    <3> QED BY <1>0, <1>1, <2>4, <2>5, <2>6, <3>1 DEF AheadLinks
  <2>7. CASE rec[l].locate_url \in Link
    <3>1. Pending(l) /\ root.kind[First(l)] # "locate"
      BY <1>1, <2>7 DEF AheadLinks
    <3>2. ~Entering
      <4>1. Pos(l) = 2
        BY <1>1, <3>1 DEF Pending
      <4>2. Entering => found[l] = <<>> /\ outputs[l] = <<>>
        BY <1>0 DEF FreshInv
      <4>3. Entering => Pos(l) = 0
        BY <4>2 DEF Pos
      <4> QED BY <4>1, <4>3
    <3>3. ~Walking /\ ~Beginning
      BY <1>0, <3>1, <3>2, NotPending, BeginStep DEF Entering
    <3>4. rec'[l].locate_url = rec[l].locate_url
      BY <2>3, <3>3, SameUrl
    <3>5. l > browser /\ pc \notin {"write", "written", "answer"}
      <4>1. l > browser
        BY <1>0, <3>2
      <4>2. pc \notin {"written", "answer"}
        BY <1>1, <3>1 DEF Pending, Quiet
      <4>3. pc # "write"
        <5>1. pc = "write" => action \in Actions(root) /\ browser = root.page[action]
          BY InUse
        <5>2. First(l) \in Items(root, l)
          BY <1>0, FirstItemIn, ScriptFacts DEF First, Typed, ThreadOK
        <5>3. pc = "write" => action = First(l)
          BY <3>1, <5>1, ScriptFacts DEF Pending, Before, After, Typed, ThreadOK
        <5> QED BY <1>0, <4>1, <5>1, <5>2, <5>3 DEF Items
      <4> QED BY <4>1, <4>2, <4>3
    <3>6. pc' \notin {"written", "answer"}
      <4>1. pc' \in {"written", "answer"} => pc \in {"write", "written", "answer"}
        BY <3>1, SentEffect DEF Sent, ActionSent, Pending, Before, After
      <4> QED BY <3>5, <4>1
    <3>7. Pending(l)'
      BY <1>0, <1>1, <1>2, <2>1, <3>1, <3>3, <3>4, <3>5, <3>6, PendingKept
    <3> QED BY <1>0, <3>1, <3>7 DEF AheadLinks
  <2> QED BY <2>6, <2>7
<1> QED BY <1>3, <1>4, <1>5

(* A browser that opens a link adds it to those that were opened.          *)
LEMMA OpensLink ==
  ASSUME Typed, NEW l \in Pages(root) \ {Top}, Act(l), client[l].url \in Link,
         LastOf(visited, l) # client[l].url
  PROVE  visited'[l] = Append(visited[l], client[l].url) /\ visited'[l] # visited[l]
<1>1. visited' = [visited EXCEPT ![l] = Append(@, client[l].url)]
  BY DEF Act
<1>2. visited'[l] = Append(visited[l], client[l].url) /\ visited[l] \in Seq(Link)
  BY <1>1, Behind DEF Typed, HistoryOK
<1> QED BY <1>2, AppendFacts

LEMMA EntersRun ==
  ASSUME Typed, ActionInv, [Next]_runVars, Entering, ~Entering'
  PROVE  Enter
<1>1. ~Beginning /\ ~Walking
  BY BeginStep, WalkStep DEF Entering
<1>2. ~Exchanging /\ ~Analysing /\ ~Selecting /\ ~Ending
  BY DEF Entering, Exchanging, Connected, ReadRequest, WriteAction, Written, ReadAnswer, IoError,
     Analysing, AnalyseAnswer, AnalyseError, AnalyseStopped, AskContinue, AskGiveUp, Selecting,
     Land, SelectStopped, Ending, WriteVerdict, ClosePipe, KeepPipe, AwaitEnd, Retry,
     Disconnect, Disconnected, Over, Release, Released
<1>3. CASE Opening
  BY <1>3 DEF Opening, Entering, Begin, StartBrowser, StartFails, UseBrowser, NoBrowser, Accept
<1>4. ASSUME NEW p \in Pages(root), Act(p) \/ Told(p) \/ Lost(p) \/ Crash(p)
      PROVE  FALSE
  BY <1>4, Elsewhere DEF Entering
<1>5. ~Stop /\ ~UNCHANGED runVars
  BY DEF Stop, runVars, thread, Entering
<1> QED BY StepCases, <1>1, <1>2, <1>3, <1>4, <1>5

(* The thread comes to a page that was ahead of it. *)
LEMMA InFromAhead ==
  ASSUME Typed, ActionInv, PageInv, StageInv, FreshInv, LinkInv, [Next]_runVars,
         NEW l \in Pages(root) \ {Top}, ~PassedOver(l), Live', ~Entering', browser' = l,
         browser # l \/ Entering
  PROVE  InLinks(l)'
<1>0. l \in Actions(root) /\ root' = root /\ First(l)' = First(l) /\ Live
  BY Behind, RootKept, Onward DEF First, Live
<1>1. ~Beginning
  BY BeginStep DEF Entering
<1>2. l > browser \/ Entering
  <2>1. CASE browser # l
    <3>1. Retry /\ browser' >= browser
      BY <1>1, <2>1, BrowserMoves DEF Live
    <3> QED BY <1>0, <2>1, <3>1, PageNumbers DEF Typed, ThreadOK
  <2> QED BY <2>1
<1>3. AheadLinks(l) /\ ListInv(l) /\ client[l] = Quiet /\ visited[l] = <<>>
      /\ Len(visited[l]) = 0
  <2>1. AheadLinks(l) /\ ListInv(l)
    BY <1>0, <1>2 DEF LinkInv
  <2>2. client[l] = Quiet /\ visited[l] = <<>>
    BY <1>0, <1>2 DEF FreshInv
  <2> QED BY <2>1, <2>2
<1>4. /\ UNCHANGED <<rec, outputs, found>> /\ visited'[l] = visited[l]
      /\ pc' \notin {"written", "answer"} /\ pc # "answer" /\ ~Walking
  <2>1. CASE browser # l
    <3>1. Retry
      BY <1>1, <2>1, BrowserMoves DEF Live
    <3> QED BY <2>1, <3>1, WalkStep DEF Retry, history
  <2>2. CASE browser = l /\ Entering
    <3>1. Enter
      BY <2>2, EntersRun
    <3> QED BY <2>2, <3>1, WalkStep DEF Enter, history, Entering
  <2> QED BY <1>2, <2>1, <2>2
<1>5. Pos(l)' = Pos(l)
  BY <1>4 DEF Pos
<1>6. CASE root.kind[First(l)] = "locate" \/ Pos(l) <= 1
  <2>1. rec[l].locate_url \notin Link
    <3>1. Pending(l) => Pos(l) = 2
      BY <1>3 DEF Pending
    <3> QED BY <1>3, <1>6, <3>1 DEF AheadLinks
  <2> QED BY <1>0, <1>3, <1>4, <1>5, <1>6, <2>1 DEF InLinks
<1>7. CASE root.kind[First(l)] # "locate" /\ Pending(l)
  <2>1. Pending(l)'
    <3>1. Items(root, l) # {}
      BY <1>0, Behind DEF Items, Pages
    <3>2. /\ outputs'[l] = outputs[l] /\ found'[l] = found[l]
          /\ rec'[l].locate_url = rec[l].locate_url
          /\ (pc = "answer" => client[browser].at # "answer")
          /\ pc' \notin {"written", "answer"}
      BY <1>4
    <3>3. visited'[l] = visited[l] /\ Pending(l)
      BY <1>4, <1>7
    <3> QED BY <1>1, <3>1, <3>2, <3>3, PendingKept
  <2>2. Pos(l) >= 2 /\ rec[l].locate_url = found[l][Pos(l)]
    BY <1>3, <1>7 DEF Pending
  <2> QED BY <1>0, <1>4, <1>5, <1>7, <2>1, <2>2 DEF InLinks
<1> QED BY <1>3, <1>6, <1>7 DEF AheadLinks

(* The search turns to the page again: its next link is taken. *)
LEMMA InTurn ==
  ASSUME Typed, ActionInv, PageInv, FreshInv, [Next]_runVars, Walking,
         NEW l \in Pages(root) \ {Top}, ~PassedOver(l), Items(root, l) # {},
         ListInv(l), OrderInv(l), InLinks(l), l = NextAction(root, outputs, From).source
  PROVE  InLinks(l)'
<1>0. root' = root /\ First(l)' = First(l)
  BY RootKept DEF First
<1>1. /\ next' = First(l) /\ ret' = "ok" /\ pc' = "walk"
      /\ outputs[l] # <<>> /\ outputs'[l] = Tail(outputs[l])
      /\ rec'[l].locate_url = IF root.kind[First(l)] = "locate" THEN "located"
                              ELSE Head(outputs[l])
  BY TurnTo
<1>2. visited' = visited /\ found' = found
  BY WalkStep
<1>3. CASE root.kind[First(l)] = "locate"
  <2>1. visited[l] = <<>> /\ "located" \notin Link
    BY <1>3, LinkAssumption DEF InLinks
  <2> QED BY <1>0, <1>1, <1>2, <1>3, <2>1 DEF InLinks
<1>4. CASE root.kind[First(l)] # "locate"
  <2>1. ~Pending(l)
    BY NotPending
  <2>2. /\ Len(visited[l]) \in Nat /\ Pos(l) \in Nat /\ Pos(l) >= 1
        /\ (visited[l] = <<>> <=> Len(visited[l]) = 0)
        /\ outputs[l][1] = found[l][Pos(l) + 1]
        /\ Len(outputs[l]) \in Nat /\ Len(found[l]) \in Nat
    BY <1>1, Lengths
  <2>3. Len(visited[l]) + 1 = Pos(l)
    <3>1. Len(visited[l]) + 1 = Pos(l) \/ Pos(l) <= 1
      BY <1>4, <2>1 DEF InLinks
    <3>2. visited[l] # <<>> => Len(visited[l]) + 1 <= Pos(l)
      BY DEF OrderInv
    <3> QED BY <2>2, <3>1, <3>2
  <2>4. Len(Tail(outputs[l])) = Len(outputs[l]) - 1 /\ Head(outputs[l]) = outputs[l][1]
    BY <1>1, Behind, TailFacts
  <2>5. Pos(l)' = Pos(l) + 1
    <3>1. Pos(l)' = Len(found[l]) - Len(Tail(outputs[l]))
      BY <1>1, <1>2 DEF Pos
    <3>2. Pos(l) = Len(found[l]) - Len(outputs[l])
      BY DEF Pos
    <3> HIDE DEF Pos
    <3>3. ASSUME NEW a \in Nat, NEW b \in Nat PROVE b - (a - 1) = (b - a) + 1
      OBVIOUS
    <3>4. Len(found[l]) - (Len(outputs[l]) - 1) = (Len(found[l]) - Len(outputs[l])) + 1
      BY <2>2, <3>3
    <3> QED BY <2>4, <3>1, <3>2, <3>4
  <2>6. rec'[l].locate_url = found'[l][Pos(l)']
    BY <1>1, <1>2, <1>4, <2>2, <2>4, <2>5
  <2>7. Len(visited'[l]) + 2 = Pos(l)' /\ Pos(l)' >= 2
    BY <1>2, <2>2, <2>3, <2>5
  <2>8. Pending(l)'
    BY <1>0, <1>1, <2>6, <2>7 DEF Pending
  <2> QED BY <1>0, <1>4, <2>6, <2>7, <2>8 DEF InLinks
<1> QED BY <1>3, <1>4

(* The search stays on the page, or leaves it. *)
LEMMA InWalk ==
  ASSUME Typed, ActionInv, PageInv, FreshInv, [Next]_runVars, Walking,
         NEW l \in Pages(root) \ {Top}, ~PassedOver(l), Items(root, l) # {},
         ListInv(l), InLinks(l), l # NextAction(root, outputs, From).source
  PROVE  InLinks(l)'
<1>0. root' = root /\ First(l)' = First(l) /\ l \in Actions(root)
  BY RootKept, Behind DEF First
<1>1. ~AnalyseAnswer /\ ~Beginning /\ UNCHANGED <<visited, found>>
  BY WalkStep, BeginStep DEF AnalyseAnswer
<1>2. outputs'[l] = outputs[l]
  BY <1>0, <1>1, ListEffect
<1>3. Pos(l)' = Pos(l)
  BY <1>1, <1>2 DEF Pos
<1>4. rec'[l].locate_url = rec[l].locate_url \/ rec'[l].locate_url \notin Link
  BY <1>1, UrlEffect
<1>5. ~Pending(l)
  BY NotPending
<1> QED BY <1>0, <1>1, <1>3, <1>4, <1>5 DEF InLinks

(* An answer on the page. *)
LEMMA InAnswered ==
  ASSUME Typed, ActionInv, PageInv, FreshInv, OpenedInv, [Next]_runVars, AnalyseAnswer,
         NEW l \in Pages(root) \ {Top}, l = browser, ListInv(l), OrderInv(l), InLinks(l)
  PROVE  InLinks(l)'
<1>0. root' = root /\ First(l)' = First(l) /\ l \in Actions(root)
  BY RootKept, Behind DEF First
<1>1. /\ pc = "analyse" /\ ~Walking /\ ~Beginning /\ action # l
      /\ \A p \in Pages(root) : ~Act(p)
  <2>1. action # l
    BY NotYet
  <2>2. \A p \in Pages(root) : ~Act(p)
    BY Elsewhere DEF AnalyseAnswer
  <2> QED BY <2>1, <2>2, WalkStep, BeginStep DEF AnalyseAnswer
<1>2. visited'[l] = visited[l]
  BY <1>1, LastEffect
<1>3. outputs'[l] = outputs[l] /\ found'[l] = found[l]
  BY <1>0, <1>1, ListEffect
<1>4. Pos(l)' = Pos(l)
  BY <1>3 DEF Pos
<1>5. ~Pending(l)
  BY <1>1 DEF Pending, Before, After
<1>6. \/ rec'[l].locate_url = rec[l].locate_url \/ rec'[l].locate_url \notin Link
      \/ rec'[l].locate_url = client[l].page
  BY <1>1, UrlEffect
<1>7. CASE rec'[l].locate_url = rec[l].locate_url \/ rec'[l].locate_url \notin Link
  BY <1>0, <1>2, <1>3, <1>4, <1>5, <1>7 DEF InLinks
<1>8. CASE rec'[l].locate_url = client[l].page /\ client[l].page \in Link
  <2>1. LastOf(visited, l) = client[l].page
    BY <1>8 DEF OpenedInv
  <2>2. visited[l] # <<>>
    BY <1>8, <2>1, LinkAssumption DEF LastOf
  <2>3. Len(visited[l]) \in Nat \ {0} /\ Pos(l) \in Nat
    BY <2>2, Lengths
  <2>4. Len(visited[l]) + 1 = Pos(l) /\ root.kind[First(l)] # "locate"
    <3>1. /\ Len(visited[l]) + 1 = Pos(l) \/ Pos(l) <= 1
          /\ root.kind[First(l)] # "locate"
      BY <1>5, <2>2 DEF InLinks
    <3>2. Len(visited[l]) + 1 <= Pos(l)
      BY <2>2 DEF OrderInv
    <3> QED BY <2>3, <3>1, <3>2
  <2>5. Len(visited[l]) \in 1 .. Len(visited[l]) /\ Pos(l) >= 2
    BY <2>3, <2>4
  <2>6. client[l].page = found[l][Pos(l)]
    BY <2>1, <2>2, <2>4, <2>5 DEF LastOf, OrderInv
  <2> QED BY <1>0, <1>2, <1>3, <1>4, <1>8, <2>4, <2>5, <2>6 DEF InLinks
<1> QED BY <1>6, <1>7, <1>8

(* The thread stays on the page, and the page where it is. *)
LEMMA InStays ==
  ASSUME Typed, ActionInv, PageInv, StageInv, FreshInv, OpenedInv, [Next]_runVars, Live',
         NEW l \in Pages(root) \ {Top}, ~PassedOver(l), Items(root, l) # {}, ~Repeats(l),
         l = browser, browser' = browser, ListInv(l), OrderInv(l), InLinks(l),
         ~Walking, ~Beginning, ~AnalyseAnswer
  PROVE  InLinks(l)'
<1>0. root' = root /\ First(l)' = First(l) /\ l \in Actions(root)
  BY RootKept, Behind DEF First
<1>1. outputs'[l] = outputs[l] /\ found'[l] = found[l]
  BY <1>0, ListEffect
<1>2. Pos(l)' = Pos(l)
  BY <1>1 DEF Pos
<1>3. rec'[l].locate_url = rec[l].locate_url
  BY SameUrl
<1>4. /\ Len(visited[l]) \in Nat /\ Pos(l) \in Nat /\ visited[l] \in Seq(Link)
  BY Lengths, Behind
<1>5. CASE /\ Act(l) /\ client[l].url \in Link /\ LastOf(visited, l) # client[l].url
           /\ visited'[l] = Append(visited[l], client[l].url)
  <2>1. client[l].at = "acting"
    BY <1>5, ActAnswers
  <2>2. Len(visited[l]) + 2 = Pos(l) /\ root.kind[First(l)] # "locate"
    BY <1>5, <2>1 DEF OrderInv
  <2>3. Len(visited'[l]) = Len(visited[l]) + 1
    BY <1>4, <1>5, AppendFacts
  <2>4. Len(visited'[l]) + 1 = Pos(l)'
    BY <1>2, <1>4, <2>2, <2>3
  <2> QED BY <1>0, <1>1, <1>2, <1>3, <2>2, <2>4 DEF InLinks
<1>6. CASE visited'[l] = visited[l] /\ ~Pending(l)
  BY <1>0, <1>1, <1>2, <1>3, <1>6 DEF InLinks
<1>7. CASE visited'[l] = visited[l] /\ Pending(l)
  <2>1. /\ rec[l].locate_url \in Link /\ LastOf(visited, l) # rec[l].locate_url
        /\ InNewPage(l)
    BY <1>7, PendingOpens
  <2>2. ASSUME pc' \in {"written", "answer"}
        PROVE  \/ client'[l].at = "dead"
               \/ client'[l].at = "acting" /\ client'[l].url = rec[l].locate_url
    <3>1. CASE pc \notin Sent
      <4>1. ActionSent
        BY <2>2, <3>1, SentEffect DEF Sent
      <4> QED BY <2>1, <4>1 DEF ActionSent
    <3>2. CASE pc \in Sent
      <4>1. /\ pc \in {"written", "answer"}
            /\ \/ client[l].at = "dead"
               \/ client[l].at = "acting" /\ client[l].url = rec[l].locate_url
        BY <1>7, <3>2 DEF Pending, Sent, Before, After
      <4>2. ~Act(l)
        BY <1>7, <2>1, <4>1, OpensLink, ActAnswers
      <4>3. ~StartBrowser /\ ~StartFails /\ ~ActionSent
        BY <4>1 DEF StartBrowser, StartFails, ActionSent
      <4> QED BY <4>1, <4>2, <4>3, ClientEffect DEF GoesOn
    <3> QED BY <3>1, <3>2
  <2>3. pc = "answer" => client[browser].at # "answer"
    BY <1>7 DEF Pending, Before, After
  <2>4. Pending(l)'
    BY <1>1, <1>3, <1>7, <2>2, <2>3, PendingKept
  <2> QED BY <1>0, <1>1, <1>2, <1>3, <1>7, <2>4 DEF InLinks
<1> QED BY <1>0, <1>5, <1>6, <1>7, LastEffect

LEMMA InKept ==
  ASSUME Typed, ActionInv, PageInv, StageInv, FreshInv, OpenedInv, LinkInv, [Next]_runVars,
         NEW l \in Pages(root) \ {Top}, ~PassedOver(l), ~Repeats(l)', Live', ~Entering',
         browser' = l
  PROVE  InLinks(l)'
<1>1. CASE browser # l \/ Entering
  BY <1>1, InFromAhead
<1>2. CASE browser = l /\ ~Entering
  <2>1. /\ l \in Actions(root) /\ Live /\ ~Beginning /\ Items(root, l) # {} /\ ListInv(l)
    BY <1>2, Behind, Onward, BeginStep DEF Live, Entering, Items, Pages, LinkInv
  <2>2. ~(AnalyseAnswer /\ action = l)
    BY <1>2, NotYet
  <2>3. ~Repeats(l)
    BY <2>1, <2>2, ListEffect DEF Repeats
  <2>4. OrderInv(l) /\ InLinks(l)
    BY <1>2, <2>1, <2>3 DEF LinkInv
  <2>5. CASE Walking
    BY <2>1, <2>4, <2>5, InTurn, InWalk
  <2>6. CASE AnalyseAnswer
    BY <1>2, <2>1, <2>4, <2>6, InAnswered
  <2>7. CASE ~Walking /\ ~AnalyseAnswer
    BY <1>2, <2>1, <2>3, <2>4, <2>7, InStays
  <2> QED BY <2>5, <2>6, <2>7
<1> QED BY <1>1, <1>2

LEMMA LinkKept ==
  ASSUME Typed, ActionInv, PageInv, StageInv, FreshInv, OpenedInv, LinkInv, [Next]_runVars
  PROVE  LinkInv'
<1>0. root' = root
  BY RootKept
<1>1. ASSUME NEW l \in Actions(root) PROVE ListInv(l)'
  BY <1>1, ListKept DEF LinkInv
<1>2. ASSUME NEW l \in Pages(root) \ {Top}, ~PassedOver(l)
      PROVE  /\ Live' /\ (l > browser' \/ Entering') => AheadLinks(l)'
             /\ ~Repeats(l)' =>
                  /\ OrderInv(l)'
                  /\ Live' /\ ~Entering' /\ browser' = l => InLinks(l)'
  BY <1>2, AheadLinksKept, OrderKept, InKept
<1>3. \A l : PassedOver(l)' = PassedOver(l)
  BY <1>0 DEF PassedOver
<1> QED BY <1>0, <1>1, <1>2, <1>3 DEF LinkInv

(* A sequence is told by its length and its members. *)
LEMMA IsSubSeq ==
  ASSUME NEW s \in Seq(Link), NEW f \in Seq(Link), s # <<>> => Len(s) + 1 <= Len(f),
         \A i \in 1 .. Len(s) : s[i] = f[i + 1]
  PROVE  s = SubSeq(f, 2, Len(s) + 1)
<1> DEFINE n == Len(s) + 1
<1>1. Len(s) \in Nat /\ Len(f) \in Nat /\ (s = <<>> <=> Len(s) = 0)
  OBVIOUS
<1>2. n \in Int /\ n - 2 + 1 = Len(s) /\ \A i \in 1 .. Len(s) : 2 + i - 1 = i + 1
  BY <1>1
<1>3. CASE s = <<>>
  <2>1. n < 2
    BY <1>1, <1>3
  <2> QED BY <1>2, <1>3, <2>1, SubSeqEmpty
<1>4. CASE s # <<>>
  <2>1. n <= Len(f) /\ 2 <= n
    BY <1>1, <1>4
  <2>2. \A i \in 2 .. n : f[i] \in Link
    BY <1>1, <2>1
  <2>3. /\ SubSeq(f, 2, n) \in Seq(Link) /\ Len(SubSeq(f, 2, n)) = n - 2 + 1
        /\ \A i \in 1 .. n - 2 + 1 : SubSeq(f, 2, n)[i] = f[2 + i - 1]
    BY <1>2, <2>1, <2>2, SubSeqProperties
  <2>4. /\ Len(SubSeq(f, 2, n)) = Len(s)
        /\ \A i \in 1 .. Len(s) : s[i] = SubSeq(f, 2, n)[i]
    BY <1>2, <2>3
  <2> QED BY <2>3, <2>4, SeqEqual
<1> QED BY <1>3, <1>4

LEMMA LinkGives ==
  ASSUME Typed, LinkInv, NoPage
  PROVE  LinksInOrder
<1> SUFFICES ASSUME NEW l \in Actions(root), ~PassedOver(l), ~Repeats(l)
             PROVE  visited[l] = SubSeq(found[l], 2, Len(visited[l]) + 1)
  BY DEF LinksInOrder
<1>1. l # Top /\ visited[l] \in Seq(Link) /\ found[l] \in Seq(Link)
  BY ScriptFacts DEF Typed, ThreadOK, HistoryOK, Top, NoAction
<1>2. CASE l \in Pages(root)
  <2>1. OrderInv(l) /\ ListInv(l)
    BY <1>1, <1>2 DEF LinkInv
  <2>2. /\ Len(visited[l]) \in Nat /\ Pos(l) \in Nat /\ Pos(l) <= Len(found[l])
        /\ Len(found[l]) \in Nat
    BY <1>1, <1>2, <2>1, Lengths
  <2>3. visited[l] # <<>> => Len(visited[l]) + 1 <= Pos(l)
    BY <2>1 DEF OrderInv
  <2>4. visited[l] # <<>> => Len(visited[l]) + 1 <= Len(found[l])
    BY <2>2, <2>3
  <2> QED BY <1>1, <2>1, <2>4, IsSubSeq DEF OrderInv
<1>3. CASE l \notin Pages(root)
  BY <1>1, <1>3, IsSubSeq DEF NoPage
<1> QED BY <1>2, <1>3

-----------------------------------------------------------------------------
(* The inductive invariant. *)
WalkInv == PlaceInv /\ OpenedInv /\ NoPage /\ SavedInv /\ LinkInv

LEMMA WalkInvInit == Init => WalkInv
<1> SUFFICES ASSUME Init PROVE WalkInv
  OBVIOUS
<1>1. PlaceInv /\ Typed
  BY PlaceInvInit, PlaceParts
<1>2. /\ pc = "enter" /\ stop_work = FALSE /\ Live /\ Entering /\ browser = Top
      /\ \A a \in Actions(root) : outputs[a] = <<>> /\ found[a] = <<>> /\ visited[a] = <<>>
      /\ \A p \in Pages(root) : client[p] = Quiet
      /\ \A p \in Pages(root) : /\ rec[p].inited = FALSE /\ rec[p].current_url = NoUrl
                                /\ p # Top => rec[p].locate_url = NoUrl
  BY DEF Init, Live, Entering
<1>3. /\ browser \in Pages(root) /\ NoUrl \notin Link
      /\ \A p \in Pages(root) \ {Top} : p \in Actions(root)
  BY <1>1, Behind, LinkAssumption DEF Typed, ThreadOK
<1>4. OpenedInv
  <2>1. Gone(browser) /\ pc \notin Sent
    BY <1>2, <1>3 DEF Gone, Quiet, Sent
  <2>2. \A p \in Pages(root) : client[p].at = "none" /\ client[p].page = "blank"
    BY <1>2 DEF Quiet
  <2> QED BY <1>2, <1>3, <2>1, <2>2, LinkAssumption DEF OpenedInv
<1>5. NoPage /\ SavedInv
  BY <1>2, <1>3 DEF NoPage, SavedInv, Quiet
<1>6. ASSUME NEW l \in Actions(root)
      PROVE  /\ ListInv(l) /\ Pos(l) = 0 /\ visited[l] = <<>>
             /\ l \in Pages(root) \ {Top} => AheadLinks(l) /\ OrderInv(l)
  <2>1. ListInv(l) /\ Pos(l) = 0 /\ visited[l] = <<>>
    <3>1. outputs[l] = <<>> /\ found[l] = <<>> /\ visited[l] = <<>>
      BY <1>2, <1>6
    <3>2. Len(outputs[l]) = 0 /\ Len(found[l]) = 0
      BY <3>1
    <3> QED BY <3>1, <3>2 DEF ListInv, Pos
  <2>2. l \in Pages(root) \ {Top} => AheadLinks(l) /\ OrderInv(l)
    BY <1>2, <1>3, <2>1 DEF AheadLinks, OrderInv, Quiet
  <2> QED BY <2>1, <2>2
<1>7. LinkInv
  BY <1>2, <1>3, <1>6 DEF LinkInv
<1> QED BY <1>1, <1>4, <1>5, <1>7 DEF WalkInv

LEMMA WalkInvNext == WalkInv /\ [Next]_runVars => WalkInv'
<1> SUFFICES ASSUME WalkInv, [Next]_runVars PROVE WalkInv'
  OBVIOUS
<1>1. /\ PlaceInv /\ Typed /\ ActionInv /\ PageInv /\ FreshInv /\ StageInv
      /\ OpenedInv /\ NoPage /\ SavedInv /\ LinkInv
  BY PlaceParts DEF WalkInv
<1>2. PlaceInv'
  BY <1>1, PlaceInvNext
<1>3. OpenedInv' /\ NoPage' /\ SavedInv' /\ LinkInv'
  BY <1>1, OpenedKept, NoPageKept, SavedKept, LinkKept
<1> QED BY <1>2, <1>3 DEF WalkInv

LEMMA WalkInvHolds == Spec => []WalkInv
BY WalkInvInit, WalkInvNext, PTL DEF Spec

(* The links that were found, but the first of them, are opened in their   *)
(* order, none is left out and none is opened once more, however often an  *)
(* action is sent again and whichever process dies.                        *)
THEOREM LinksFollowedInOrder == Spec => []LinksInOrder
<1>1. WalkInv => LinksInOrder
  BY LinkGives, PlaceParts DEF WalkInv
<1> QED BY <1>1, WalkInvHolds, PTL

(* The texts of a page are put out before its next link is opened.         *)
THEOREM PagesSavedFirst == Spec => []PagesSaved
<1>1. WalkInv => PagesSaved
  BY SavedGives, PlaceParts DEF WalkInv
<1> QED BY <1>1, WalkInvHolds, PTL
=============================================================================
