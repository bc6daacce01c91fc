----------------------- MODULE ActionNavigationProofs -----------------------
(***************************************************************************)
(* Where get_next_html_element_action leads, for every script and whatever *)
(* links were found.                                                       *)
(***************************************************************************)
EXTENDS ActionNavigation, TLAPS, WellFoundedInduction

(* A set of numbers that is not empty has a least one. *)
LEMMA MinIn ==
  ASSUME NEW T, T \subseteq Nat, T # {}
  PROVE  Min(T) \in T
<1> DEFINE R == OpToRel(<, Nat)
<1>1. \A x, y \in Nat : x < y => <<x, y>> \in R
  BY DEF OpToRel
<1>2. IsWellFoundedOn(R, Nat)
  BY NatLessThanWellFounded
<1> HIDE DEF R
<1>3. PICK x \in T : \A y \in T : ~ (<<y, x>> \in R)
  BY <1>2, WFMin
<1>4. ASSUME NEW y \in T PROVE x <= y
  <2>1. x \in Nat /\ y \in Nat /\ ~(y < x)
    BY <1>1, <1>3
  <2> QED BY <2>1
<1> QED BY <1>4 DEF Min

(* The items of a page are actions of that page. *)
LEMMA NextItemIn ==
  ASSUME NEW script, WellFormed(script), NEW a \in Actions(script),
         NextItem(script, a) # NoAction
  PROVE  NextItem(script, a) \in Items(script, script.page[a])
<1> DEFINE later == {b \in Items(script, script.page[a]) : b > a}
<1>1. later \subseteq Nat
  BY DEF WellFormed, Items
<1>2. later # {} => Min(later) \in later
  BY <1>1, MinIn
<1> QED BY <1>2 DEF NextItem

LEMMA FirstItemIn ==
  ASSUME NEW script, WellFormed(script), NEW p, Items(script, p) # {}
  PROVE  FirstItem(script, p) \in Items(script, p)
<1>1. Items(script, p) \subseteq Nat
  BY DEF WellFormed, Items
<1> QED BY <1>1, MinIn DEF FirstItem

Follow(next, ret, relation, source) ==
  [next |-> next, ret |-> ret, relation |-> relation, source |-> source]

(* What get_next_html_element_action proposes after an action: an action   *)
(* of the same page or of the one behind it, if any; and a source has a    *)
(* link left.                                                              *)
LEMMA ProposedIn ==
  ASSUME NEW script, WellFormed(script), NEW outputs, NEW a \in Actions(script)
  PROVE  \E next, ret, relation, source :
           /\ Proposed(script, outputs, a) = Follow(next, ret, relation, source)
           /\ next # NoAction =>
                next \in Items(script, script.page[a]) \cup Items(script, a)
           /\ ret \in {"ok", "error"} /\ (next # NoAction => ret = "ok")
           /\ relation \in Relation
           /\ source # NoAction => source \in {a, script.page[a]} /\ outputs[source] # <<>>
<1> DEFINE p     == script.page[a]
           item  == NextItem(script, a)
           enter == /\ LeadsToSubPage(script, a) /\ script.kind[a] = "links"
                    /\ outputs[a] # <<>>
<1>1. CASE enter
  <2>1. Proposed(script, outputs, a) = Follow(FirstItem(script, a), "ok", "first_sub", a)
    BY <1>1 DEF Proposed, Follow
  <2>2. FirstItem(script, a) \in Items(script, a)
    BY <1>1, FirstItemIn DEF LeadsToSubPage
  <2> QED BY <1>1, <2>1, <2>2 DEF Relation
<1>2. CASE ~enter /\ item # NoAction
  <2>1. Proposed(script, outputs, a) = Follow(item, "ok", "next_sibling", NoAction)
    BY <1>2 DEF Proposed, Follow
  <2> QED BY <1>2, <2>1, NextItemIn DEF Relation
<1>3. CASE ~enter /\ item = NoAction /\ p # Top /\ outputs[p] # <<>>
  <2>1. Proposed(script, outputs, a) = Follow(FirstItem(script, p), "ok", "first_sibling", p)
    BY <1>3 DEF Proposed, Follow
  <2>2. FirstItem(script, p) \in Items(script, p)
    BY FirstItemIn DEF Items
  <2> QED BY <1>3, <2>1, <2>2 DEF Relation
<1>4. CASE ~enter /\ item = NoAction /\ ~(p # Top /\ outputs[p] # <<>>)
  <2>1. Proposed(script, outputs, a) = Follow(NoAction, "error", "none", NoAction)
    BY <1>4 DEF Proposed, Follow
  <2> QED BY <2>1 DEF Relation
<1> QED BY <1>1, <1>2, <1>3, <1>4

(* What get_next_html_element_action returns: an action of the script or   *)
(* none, never one of a page above the page it is on, and a source that    *)
(* has a link left to be followed; in a script with "script" actions an    *)
(* action is never returned with an error.                                 *)
THEOREM NextActionIn ==
  ASSUME NEW script, WellFormed(script), NEW outputs, NEW a \in Actions(script)
  PROVE  LET n == NextAction(script, outputs, a) IN
           /\ n.next \in Actions(script) \cup {NoAction}
           /\ n.next # NoAction /\ n.ret = "ok" => script.page[n.next] >= script.page[a]
           /\ n.ret \in {"ok", "error"} /\ n.relation \in Relation
           /\ n.next # NoAction /\ HasLocal(script) => n.ret = "ok"
           /\ n.source # NoAction =>
                /\ n.source \in {a, script.page[a]} /\ n.source \in Actions(script)
                /\ outputs[n.source] # <<>>
<1>1. PICK next, ret, relation, source :
           /\ Proposed(script, outputs, a) = Follow(next, ret, relation, source)
           /\ next # NoAction =>
                next \in Items(script, script.page[a]) \cup Items(script, a)
           /\ ret \in {"ok", "error"} /\ (next # NoAction => ret = "ok")
           /\ relation \in Relation
           /\ source # NoAction => source \in {a, script.page[a]} /\ outputs[source] # <<>>
  BY ProposedIn
<1>2. next # NoAction =>
        next \in Actions(script) /\ script.page[next] \in {a, script.page[a]}
  BY <1>1 DEF Items
<1>3. a \in Nat /\ script.page[a] \in {Top} \cup Actions(script) /\ script.page[a] < a
  BY DEF WellFormed
<1>4. Actions(script) \subseteq Nat
  BY DEF WellFormed
<1>5. CASE next # NoAction /\ script.kind[next] = "jump"
  <2>1. script.jump[next] \in Actions(script)
    BY <1>2, <1>5 DEF WellFormed
  <2>2. script.page[script.jump[next]] \in Nat
    BY <2>1, <1>4 DEF WellFormed, Top
  <2>3. NextAction(script, outputs, a) =
          Follow(script.jump[next], IF script.page[a] = Top THEN "ok" ELSE "error",
                 "jump", source)
    <3> DEFINE n == Follow(next, ret, relation, source)
    <3>1. NextAction(script, outputs, a) =
            [n EXCEPT !.next = script.jump[n.next], !.relation = "jump",
                      !.ret = IF script.page[a] = Top THEN "ok" ELSE "error"]
      BY <1>1, <1>5 DEF NextAction, Follow
    <3> QED BY <3>1 DEF Follow
  <2>4. HasLocal(script) => script.page[a] = Top
    <3>1. HasLocal(script) => script.page[next] = Top
      BY <1>2, <1>5 DEF WellFormed
    <3>2. a # Top
      BY <1>4 DEF WellFormed, Top, NoAction
    <3> QED BY <1>2, <1>5, <3>1, <3>2
  <2> QED BY <1>1, <1>3, <2>1, <2>2, <2>3, <2>4 DEF Follow, Top, NoAction, Relation
<1>6. CASE ~(next # NoAction /\ script.kind[next] = "jump")
  <2>1. NextAction(script, outputs, a) = Follow(next, ret, relation, source)
    BY <1>1, <1>6 DEF NextAction, Follow
  <2> QED BY <1>1, <1>2, <1>3, <1>4, <2>1 DEF Follow, Top, NoAction
<1> QED BY <1>5, <1>6

(* Which list a link is taken from, and where that leads: to the first     *)
(* action of the page behind it, unless a jump stands there.               *)
LEMMA NextActionCases ==
  ASSUME NEW script, WellFormed(script), NEW out, NEW a \in Actions(script)
  PROVE  LET n == NextAction(script, out, a) IN
           /\ n.source # NoAction =>
                /\ \/ n.source = a /\ script.kind[a] = "links"
                   \/ n.source = script.page[a] /\ NextItem(script, a) = NoAction
                /\ Items(script, n.source) # {} /\ out[n.source] # <<>>
                /\ script.kind[FirstItem(script, n.source)] # "jump" =>
                     /\ n.next = FirstItem(script, n.source) /\ n.ret = "ok"
                     /\ n.source = script.page[a] => n.relation = "first_sibling"
                /\ script.kind[FirstItem(script, n.source)] = "jump" =>
                     n.ret = IF script.page[a] = Top THEN "ok" ELSE "error"
           /\ n.relation = "none" =>
                /\ n.next = NoAction /\ n.ret = "error" /\ n.source = NoAction
                /\ NextItem(script, a) = NoAction
                /\ script.page[a] = Top \/ out[script.page[a]] = <<>>
           /\ n.next # NoAction => n.source # NoAction \/ NextItem(script, a) # NoAction
<1> DEFINE p     == script.page[a]
           item  == NextItem(script, a)
           enter == /\ LeadsToSubPage(script, a) /\ script.kind[a] = "links"
                    /\ out[a] # <<>>
           m == Proposed(script, out, a)
           n == NextAction(script, out, a)
           New(x) == IF x.next # NoAction /\ script.kind[x.next] = "jump"
                     THEN Follow(script.jump[x.next], IF p = Top THEN "ok" ELSE "error", "jump",
                                 x.source)
                     ELSE x
<1>0. a \in Items(script, p) /\ p # a /\ a # NoAction
  <2>1. a \in Nat /\ p < a
    BY DEF WellFormed
  <2>2. p \in Nat
    BY DEF WellFormed, Top
  <2> QED BY <2>1, <2>2 DEF Items, WellFormed
<1>1. ASSUME NEW next, NEW ret0, NEW relation0, NEW source,
             m = Follow(next, ret0, relation0, source)
      PROVE  n = New(m)
  <2>1. CASE next # NoAction /\ script.kind[next] = "jump"
    <3>1. n = [m EXCEPT !.next = script.jump[m.next], !.relation = "jump",
                        !.ret = IF p = Top THEN "ok" ELSE "error"]
      BY <1>1, <2>1 DEF NextAction, Follow
    <3>2. n = [Follow(next, ret0, relation0, source) EXCEPT
                 !.next = script.jump[next], !.relation = "jump",
                 !.ret = IF p = Top THEN "ok" ELSE "error"]
      BY <1>1, <3>1 DEF Follow
    <3>3. n = Follow(script.jump[next], IF p = Top THEN "ok" ELSE "error", "jump", source)
      BY <3>2 DEF Follow
    <3>4. m.next = next /\ m.source = source
      BY <1>1 DEF Follow
    <3> HIDE DEF m, n
    <3> QED BY <2>1, <3>3, <3>4
  <2>2. CASE ~(next # NoAction /\ script.kind[next] = "jump")
    BY <1>1, <2>2 DEF NextAction, Follow
  <2> QED BY <2>1, <2>2
<1>2. CASE enter
  <2>1. m = Follow(FirstItem(script, a), "ok", "first_sub", a)
    BY <1>2 DEF Proposed, Follow
  <2>2. FirstItem(script, a) \in Items(script, a) /\ FirstItem(script, a) # NoAction
    BY <1>2, FirstItemIn DEF LeadsToSubPage, Items, WellFormed
  <2>3. n = New(m)
    BY <2>1, <1>1
  <2> QED BY <1>0, <1>2, <2>1, <2>2, <2>3 DEF Follow, LeadsToSubPage
<1>3. CASE ~enter /\ item # NoAction
  <2>1. m = Follow(item, "ok", "next_sibling", NoAction)
    BY <1>3 DEF Proposed, Follow
  <2>2. n = New(m)
    BY <2>1, <1>1
  <2> QED BY <1>3, <2>1, <2>2, NextItemIn DEF Follow
<1>4. CASE ~enter /\ item = NoAction /\ p # Top /\ out[p] # <<>>
  <2>1. m = Follow(FirstItem(script, p), "ok", "first_sibling", p)
    BY <1>4 DEF Proposed, Follow
  <2>2. FirstItem(script, p) \in Items(script, p) /\ FirstItem(script, p) # NoAction
    BY <1>0, FirstItemIn DEF Items, WellFormed
  <2>3. n = New(m)
    BY <2>1, <1>1
  <2> QED BY <1>0, <1>4, <2>1, <2>2, <2>3 DEF Follow, Top, NoAction
<1>5. CASE ~enter /\ item = NoAction /\ ~(p # Top /\ out[p] # <<>>)
  <2>1. m = Follow(NoAction, "error", "none", NoAction)
    BY <1>5 DEF Proposed, Follow
  <2>2. n = New(m)
    BY <2>1, <1>1
  <2> QED BY <1>5, <2>1, <2>2 DEF Follow
<1> QED BY <1>2, <1>3, <1>4, <1>5
=============================================================================
