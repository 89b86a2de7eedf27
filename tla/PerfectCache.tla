---------------------------- MODULE PerfectCache ----------------------------
(***************************************************************************)
(* What the dedup cache promises, without rows, stamps and markers: one    *)
(* request after the other is answered, and a request for a content that   *)
(* the language model has lost is never answered with a ref.               *)
(***************************************************************************)
CONSTANTS Content, None

VARIABLES
    context,  \* contents the language model can see
    serving,  \* the content of the request under way, None without one
    answer    \* "ref" once its answer is to be a ref, else "open"

vars == <<context, serving, answer>>

Init == context = {} /\ serving = None /\ answer = "open"

(* A tool's output c, or an expansion of it, is asked for.                  *)
Ask(c) ==
    /\ serving = None
    /\ serving' = c
    /\ UNCHANGED <<context, answer>>

(* A ref is chosen only for what the model can see.                         *)
ChooseRef ==
    /\ serving \in context /\ answer = "open"
    /\ answer' = "ref"
    /\ UNCHANGED <<context, serving>>

SendRef ==
    /\ answer = "ref"
    /\ serving' = None /\ answer' = "open"
    /\ UNCHANGED context

SendFull ==
    /\ serving # None /\ answer = "open"
    /\ context' = context \cup {serving}
    /\ serving' = None
    /\ UNCHANGED answer

(* There is nothing to send: an unknown prefix, or an error.                *)
SendNothing ==
    /\ serving # None /\ answer = "open"
    /\ serving' = None
    /\ UNCHANGED <<context, answer>>

(* The model's window rolls over, or its host compacts it.                  *)
Forget ==
    /\ serving = None
    /\ context' \in SUBSET context
    /\ UNCHANGED <<serving, answer>>

Next == (\E c \in Content : Ask(c)) \/ ChooseRef \/ SendRef \/ SendFull \/ SendNothing \/ Forget

Spec == Init /\ [][Next]_vars

=============================================================================
