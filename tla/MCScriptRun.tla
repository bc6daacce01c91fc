---------------------------- MODULE MCScriptRun ----------------------------
(* Small scripts for TLC. *)
EXTENDS ScriptRun

(* A list page, with a condition before it; behind each link a page is     *)
(* read and, on a condition, acted on.                                     *)
ListScript ==
  [kind |-> <<"script", "jump", "links", "text", "script", "other", "text">>,
   page |-> <<0, 0, 0, 3, 3, 3, 0>>, jump |-> <<0, 3, 0, 0, 0, 0, 0>>]

(* A page is searched, and its result read, page after page; what stands   *)
(* under the click that turns the page is passed over.                     *)
PagingScript ==
  [kind |-> <<"locate", "click", "text", "load", "text", "jump">>,
   page |-> <<0, 0, 0, 0, 4, 0>>, jump |-> <<0, 0, 0, 0, 0, 3>>]

(* A jump to the page of another action, which a link leads to as well.    *)
DetailScript ==
  [kind |-> <<"links", "jump", "locate">>, page |-> <<0, 0, 1>>, jump |-> <<0, 3, 0>>]

MCScripts == {ListScript, PagingScript, DetailScript}
(* The first link is lost: there is a page with none, and one with two.    *)
MCLists   == {<<"u1">>, <<"u1", "u2", "u3">>}
=============================================================================
