---------------------------- MODULE MCDiscovery ----------------------------
(* Values of the constants of Discovery for TLC: two containers of one      *)
(* image that mount one volume, of which one has a label with a tab; an     *)
(* image of which Docker cannot read the labels; protected labels that are  *)
(* read, that are split, and that come behind a line break.                 *)
EXTENDS Discovery

CONSTANTS c1, c2, base, tool, volume, keep, note

MCImageOf == [c \in {c1, c2} |-> base]
MCMountsOf == [c \in {c1, c2} |-> {volume}]

MCLabelsOf ==
  [x \in {c1, c2, base, tool, volume} |->
     CASE x = c1 -> <<<<note>>, <<keep>>>>
       [] x = c2 -> <<<<note, "tab", note>>>>
       [] x = base -> <<<<note, "line break", note>>, <<keep>>>>
       [] x = tool -> <<<<keep>>>>
       [] x = volume -> <<<<note, ";", note>>>>]

MCProtectedLabels == {<<keep>>, <<note, ";", note>>}
=============================================================================
