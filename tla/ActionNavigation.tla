-------------------------- MODULE ActionNavigation --------------------------
(***************************************************************************)
(* Which action of a script follows another one.                           *)
(*                                                                         *)
(* A script is a tree: the actions of the page it begins on, and, under an *)
(* action that finds links, the actions of the pages behind them (its sub  *)
(* page).  Here a script is a record of three sequences over its actions   *)
(* 1, 2, ... (depth first, as the tree shows them): the kind of an action, *)
(* the page it belongs to (Top, or the action that leads there) and, for a *)
(* jump, its target.                                                       *)
(***************************************************************************)
EXTENDS Naturals, FiniteSetsExt

NoAction == 0   (* NULL *)
Top      == 0   (* the script's root, the layout node of its first page *)

(* "load" is a click that loads a page, or a step back (which leads to no  *)
(* sub page); "other" is an input, a hover ...; "script" is a condition or *)
(* an assignment, which the manager executes itself (check_local_action).  *)
Kind == {"text", "links", "click", "load", "locate", "other", "jump", "script"}

(* How an action was reached: LOCATE_TO_... *)
Relation == {"none", "first_sub", "next_sibling", "first_sibling", "jump"}

Actions(script)  == DOMAIN script.kind
Pages(script)    == {Top} \cup {script.page[a] : a \in Actions(script)}
Items(script, p) == {a \in Actions(script) : script.page[a] = p}
FirstItem(script, p) == Min(Items(script, p))

NextItem(script, a) ==
  LET later == {b \in Items(script, script.page[a]) : b > a}
  IN  IF later = {} THEN NoAction ELSE Min(later)

(* check_have_sub_page, locate_to_sub_page_action: the kinds of action     *)
(* that may lead to a sub page, when there is an action in it.             *)
LeadsToSubPage(script, a) ==
  script.kind[a] \in {"links", "load"} /\ Items(script, a) # {}

HasJump(script)  == \E a \in Actions(script) : script.kind[a] = "jump"
HasLocal(script) == \E a \in Actions(script) : script.kind[a] = "script"

(* find_action_from_action_id finds the target of a jump in every page.    *)
(* Left out: a jump to a jump; a jump in a script that has a page whose    *)
(* second action leads to another page (the check of a jump's level takes  *)
(* it for the page's own, html_element_prop_dlg.cpp 11105); and a jump     *)
(* behind a link together with a "script" action (12577 asserts that it    *)
(* was no error).                                                          *)
WellFormed(script) ==
  /\ 1 \in Actions(script) /\ Actions(script) \subseteq Nat \ {NoAction}
  /\ \A a \in Actions(script) :
       /\ script.kind[a] \in Kind
       /\ script.page[a] \in {Top} \cup Actions(script) /\ script.page[a] < a
       /\ script.page[a] # Top => script.kind[script.page[a]] \in {"links", "load"}
       /\ script.kind[a] = "jump" =>
            /\ script.jump[a] \in Actions(script)
            /\ script.kind[script.jump[a]] # "jump"
            /\ HasLocal(script) => script.page[a] = Top
  /\ HasJump(script) =>
       \A p \in Pages(script) \ {Top} :
         LET second == NextItem(script, FirstItem(script, p))
         IN  second # NoAction => script.kind[second] \notin {"links", "load"}

(* get_next_html_element_action up to its jump, with                       *)
(* get_next_action_from_source_action for the last action of a page:       *)
(* "source" is the action whose first link is taken for the next page.  A  *)
(* click leads to no page: ERROR_NOT_SUPPORTED is overwritten (11036), and *)
(* what stands under it is passed over.                                    *)
Proposed(script, outputs, a) ==
  LET p     == script.page[a]
      item  == NextItem(script, a)
      enter == /\ LeadsToSubPage(script, a) /\ script.kind[a] = "links"
               /\ outputs[a] # <<>>
  IN  CASE enter ->
             [next |-> FirstItem(script, a), ret |-> "ok",
              relation |-> "first_sub", source |-> a]
        [] ~enter /\ item # NoAction ->
             [next |-> item, ret |-> "ok",
              relation |-> "next_sibling", source |-> NoAction]
        [] ~enter /\ item = NoAction /\ p # Top /\ outputs[p] # <<>> ->
             [next |-> FirstItem(script, p), ret |-> "ok",
              relation |-> "first_sibling", source |-> p]
        [] OTHER ->
             [next |-> NoAction, ret |-> "error", relation |-> "none",
              source |-> NoAction]

(* A jump is replaced by its target; from an action of a sub page it is an *)
(* error, reported with the target.                                        *)
NextAction(script, outputs, a) ==
  LET n == Proposed(script, outputs, a)
  IN  IF n.next # NoAction /\ script.kind[n.next] = "jump"
        THEN [n EXCEPT !.next = script.jump[n.next], !.relation = "jump",
                       !.ret = IF script.page[a] = Top THEN "ok" ELSE "error"]
        ELSE n

(* The script may come back to an action it has executed at the top.       *)
Loops(script) ==
  \E a \in Actions(script) : script.kind[a] = "jump" /\ script.jump[a] <= a
=============================================================================
