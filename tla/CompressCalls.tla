--------------------------- MODULE CompressCalls ----------------------------
(***************************************************************************)
(* What a content script may expect of sqzCompress, without workers,       *)
(* messages, engines and statistics: a text that is asked for comes back   *)
(* once, as its own engine's answer where that is shorter than the text    *)
(* and as the result of the JavaScript passes otherwise.                   *)
(* BrowserInterceptor is written against it.                               *)
(***************************************************************************)
EXTENDS Naturals

CONSTANTS Tabs, Texts, TextsOf, Length, Js, Answers, None

VARIABLES
    asked,     \* the text that a tab has asked for, None without one
    returned   \* the length of what it got, None without it

vars == <<asked, returned>>

Init == asked = [t \in Tabs |-> None] /\ returned = [t \in Tabs |-> None]

Outcomes(x) == {Js[x]} \cup {n \in Answers[x] \ {0} : n < Length[x]}

Ask(t, x) ==
    /\ asked[t] = None
    /\ asked' = [asked EXCEPT ![t] = x]
    /\ UNCHANGED returned

Return(t) ==
    /\ asked[t] # None /\ returned[t] = None
    /\ \E n \in Outcomes(asked[t]) : returned' = [returned EXCEPT ![t] = n]
    /\ UNCHANGED asked

(* The result is used or not, or the page is left before it is there.       *)
Finish(t) ==
    /\ asked[t] # None
    /\ asked' = [asked EXCEPT ![t] = None]
    /\ returned' = [returned EXCEPT ![t] = None]

Next == \E t \in Tabs : (\E x \in TextsOf[t] : Ask(t, x)) \/ Return(t) \/ Finish(t)

Spec == Init /\ [][Next]_vars

=============================================================================
