----------------------------- MODULE Extension ------------------------------
(***************************************************************************)
(* The browser extension around its interceptors: the background worker,   *)
(* which owns the WASM engine (background.js, in a version for Chrome and  *)
(* one for Firefox, over the glue sqz_wasm.js), the calls of sqzCompress   *)
(* that the content scripts of several tabs make to it, and the statistics *)
(* that the tabs and the popup keep in storage.local.                      *)
(*                                                                         *)
(* The worker is one JavaScript thread: what runs between two awaits is    *)
(* one step.  The browser ends it when it likes and starts it again for    *)
(* the next message.  A text is known by its length and by the length that *)
(* sqzCompressJS makes of it.                                              *)
(*                                                                         *)
(* recorded and clobbered are not in the code: how many compressions were  *)
(* counted since the last reset, and whether a write of the statistics has *)
(* landed between the read and the write of another.                       *)
(***************************************************************************)
EXTENDS Naturals

CONSTANTS
    Tabs,        \* tabs with a content script
    Texts,
    TextsOf,     \* TextsOf[t]: what is typed into tab t
    Length,      \* Length[x]: characters of the text x
    Js,          \* Js[x]: characters of sqzCompressJS(x)
    Answers,     \* Answers[x]: lengths the engine can answer x with
    MaxRecorded, \* bound on the statistics
    None

ASSUME TextsAssumption ==
    /\ TextsOf \in [Tabs -> SUBSET Texts] /\ None \notin Texts
    /\ Length \in [Texts -> Nat] /\ Js \in [Texts -> Nat]
    /\ Answers \in [Texts -> SUBSET Nat] /\ MaxRecorded \in Nat

(* What sqzCompressJS makes of a text is not longer than the text.          *)
ASSUME JsAssumption == \A x \in Texts : Js[x] <= Length[x]

(* Who calls initWasm: the worker when it starts, and a message of a tab.   *)
Eager == "eager"
Callers == Tabs \cup {Eager}
ASSUME EagerAssumption == Eager \notin Tabs

VARIABLES
    browser,         \* the version that is installed
    running,         \* the worker runs
    loading,         \* the calls of initWasm that await wasm_bindgen
    wasmInitPromise, \* Chrome's; Firefox has none
    wasm,            \* the glue's `wasm`: which instance of the module, 0 without one
    wasmEngine,      \* the instance that wasmEngine was made in, 0 without one
    garbage,         \* instances whose engine is no longer referred to
    freed,           \* instances in which the memory of an engine was freed
    pc,              \* where each tab is in its call
    text,            \* what it compresses
    answer,          \* the length of the background's answer, 0 for null
    result,          \* the length of what sqzCompress returned
    read,            \* the statistics it has read
    sqzStats,        \* storage.local's count of compressions
    recorded,
    clobbered

engine == <<loading, wasmInitPromise, wasm, wasmEngine, garbage, freed>>
worker == <<running, engine>>
call == <<pc, text, answer, result>>
stats == <<read, sqzStats, recorded, clobbered>>
vars == <<browser, running, loading, wasmInitPromise, wasm, wasmEngine, garbage, freed,
          pc, text, answer, result, read, sqzStats, recorded, clobbered>>

TypeOK ==
    /\ browser \in {"chrome", "firefox"}
    /\ running \in BOOLEAN
    /\ loading \subseteq Callers
    /\ wasmInitPromise \in {"none", "pending", "true", "false"}
    /\ wasm \in Nat /\ wasmEngine \in Nat
    /\ garbage \subseteq Nat /\ freed \subseteq Nat
    /\ pc \in [Tabs -> {"idle", "sent", "waiting", "answered", "offered", "get", "set"}]
    /\ text \in [Tabs -> Texts \cup {None}]
    /\ answer \in [Tabs -> Nat]
    /\ result \in [Tabs -> Nat]
    /\ read \in [Tabs -> Nat]
    /\ sqzStats \in Nat
    /\ recorded \in Nat
    /\ clobbered \in BOOLEAN

Init ==
    /\ browser \in {"chrome", "firefox"}
    /\ running = FALSE
    /\ loading = {}
    /\ wasmInitPromise = "none"
    /\ wasm = 0 /\ wasmEngine = 0
    /\ garbage = {} /\ freed = {}
    /\ pc = [t \in Tabs |-> "idle"]
    /\ text = [t \in Tabs |-> None]
    /\ answer = [t \in Tabs |-> 0]
    /\ result = [t \in Tabs |-> 0]
    /\ read = [t \in Tabs |-> 0]
    /\ sqzStats = 0
    /\ recorded = 0
    /\ clobbered = FALSE

Goto(t, l) == pc' = [pc EXCEPT ![t] = l]

wasmReady == wasmEngine # 0

-----------------------------------------------------------------------------
(* initWasm up to its await.  wasm_bindgen awaits nothing when `wasm` is    *)
(* set, which is so only once an engine was made.                          *)

(* Mutant of InitWasmChrome: the promise is not looked at.                  *)
InitWasmChromeAgain(c) ==
    /\ browser = "chrome"
    /\ IF wasmReady \/ wasmInitPromise = "false"
       THEN UNCHANGED <<loading, wasmInitPromise>>
       ELSE loading' = loading \cup {c} /\ wasmInitPromise' = "pending"
    /\ UNCHANGED <<wasm, wasmEngine, garbage, freed>>

(* The one load of a worker is shared, and its failure remembered.          *)
InitWasmChrome(c) ==
    /\ browser = "chrome"
    /\ IF wasmReady \/ wasmInitPromise # "none"
       THEN UNCHANGED <<loading, wasmInitPromise>>
       ELSE loading' = {c} /\ wasmInitPromise' = "pending"
    /\ UNCHANGED <<wasm, wasmEngine, garbage, freed>>

(* Every call that does not find the engine ready loads the module.         *)
InitWasmFirefox(c) ==
    /\ browser = "firefox"
    /\ loading' = IF wasmReady THEN loading ELSE loading \cup {c}
    /\ UNCHANGED <<wasmInitPromise, wasm, wasmEngine, garbage, freed>>

InitWasm(c) == InitWasmChrome(c) \/ InitWasmFirefox(c)

(* A worker starts, with the globals of its scripts, and calls initWasm.    *)
StartWorker ==
    /\ ~running
    /\ running' = TRUE
    /\ InitWasm(Eager)
    /\ UNCHANGED <<browser, call, stats>>

(* The module is there: __wbg_finalize_init replaces the instance and       *)
(* drops the views of the old one's memory, and initWasm goes on to        *)
(* replace the engine.                                                     *)
FinalizeInit(c) ==
    /\ c \in loading
    /\ loading' = loading \ {c}
    /\ wasm' = wasm + 1
    /\ wasmEngine' = wasm + 1
    /\ garbage' = garbage \cup ({wasmEngine} \ {0})
    /\ wasmInitPromise' = IF browser = "chrome" THEN "true" ELSE wasmInitPromise
    /\ UNCHANGED <<browser, running, freed, call, stats>>

(* Mutant of LoadFails: an exception that is not caught.                    *)
LoadFailsUncaught(c) ==
    /\ c \in loading
    /\ loading' = loading \ {c}
    /\ UNCHANGED <<browser, running, wasmInitPromise, wasm, wasmEngine, garbage, freed, call, stats>>

(* fetch, compilation or instantiation fails; in Firefox wasmReady stays    *)
(* what it is.                                                             *)
LoadFails(c) ==
    /\ c \in loading
    /\ loading' = loading \ {c}
    /\ wasmInitPromise' = IF browser = "chrome" THEN "false" ELSE wasmInitPromise
    /\ UNCHANGED <<browser, running, wasm, wasmEngine, garbage, freed, call, stats>>

(* The finalization callback of an engine frees its address in whichever    *)
(* instance `wasm` is.  Each instance has its engine at the same address:   *)
(* it is the first thing it allocates.                                     *)
Finalize(i) ==
    /\ i \in garbage
    /\ garbage' = garbage \ {i}
    /\ freed' = freed \cup {wasm}
    /\ UNCHANGED <<browser, running, loading, wasmInitPromise, wasm, wasmEngine, call, stats>>

(* The browser ends the worker.  A tab that waits for an answer gets none:  *)
(* runtime.lastError is set, or the promise is rejected.                   *)
EndWorker ==
    /\ running
    /\ running' = FALSE
    /\ loading' = {} /\ wasmInitPromise' = "none"
    /\ wasm' = 0 /\ wasmEngine' = 0 /\ garbage' = {} /\ freed' = {}
    /\ pc' = [t \in Tabs |-> IF pc[t] = "waiting" THEN "answered" ELSE pc[t]]
    /\ UNCHANGED <<browser, text, answer, result, stats>>

-----------------------------------------------------------------------------
(* sqzCompress in a tab.                                                    *)

(* A tab sends COMPRESS and awaits the answer.  A call that was left while   *)
(* the worker loads for it is not used again before: a bound.              *)
SendMessage(t, x) ==
    /\ pc[t] = "idle" /\ t \notin loading
    /\ text' = [text EXCEPT ![t] = x]
    /\ Goto(t, "sent")
    /\ UNCHANGED <<browser, worker, answer, result, stats>>

(* sendMessage throws or finds no listener.                                 *)
SendFails(t) ==
    /\ pc[t] = "sent"
    /\ Goto(t, "answered")
    /\ UNCHANGED <<browser, worker, text, answer, result, stats>>

(* The worker's listener.                                                   *)
OnMessage(t) ==
    /\ running /\ pc[t] = "sent"
    /\ InitWasm(t)
    /\ Goto(t, "waiting")
    /\ UNCHANGED <<browser, running, text, answer, result, stats>>

(* The promise that the listener awaits is settled.                         *)
InitDone(t) ==
    IF browser = "chrome" THEN wasmInitPromise # "pending" ELSE t \notin loading

(* compressText and the answer: null without an engine, when it throws or   *)
(* answers with nothing.  A freed engine can do all of that too.            *)
Respond(t) ==
    /\ running /\ pc[t] = "waiting" /\ InitDone(t)
    /\ \E n \in {0} \cup (IF wasmReady THEN Answers[text[t]] ELSE {}) :
          answer' = [answer EXCEPT ![t] = n]
    /\ Goto(t, "answered")
    /\ UNCHANGED <<browser, worker, text, result, stats>>

(* Mutant of Compressed: an answer of the background is used as it is.      *)
CompressedLonger(t) == IF answer[t] # 0 THEN answer[t] ELSE Js[text[t]]

(* A shorter answer of the background is used, or the JavaScript passes.    *)
Compressed(t) ==
    IF answer[t] # 0 /\ answer[t] < Length[text[t]] THEN answer[t] ELSE Js[text[t]]

(* The call returns.                                                        *)
Return(t) ==
    /\ pc[t] = "answered"
    /\ result' = [result EXCEPT ![t] = Compressed(t)]
    /\ answer' = [answer EXCEPT ![t] = 0]
    /\ Goto(t, "offered")
    /\ UNCHANGED <<browser, worker, text, stats>>

-----------------------------------------------------------------------------
(* Statistics.                                                              *)

Done(t) ==
    /\ text' = [text EXCEPT ![t] = None]
    /\ answer' = [answer EXCEPT ![t] = 0]
    /\ result' = [result EXCEPT ![t] = 0]
    /\ read' = [read EXCEPT ![t] = 0]
    /\ Goto(t, "idle")

(* The user takes the result: sqzRecordStats is called.                     *)
Accept(t) ==
    /\ pc[t] = "offered" /\ recorded < MaxRecorded
    /\ Goto(t, "get")
    /\ UNCHANGED <<browser, worker, text, answer, result, stats>>

(* The user does not, or storage.local.get fails, or the tab is closed or   *)
(* loaded anew.                                                            *)
Leave(t) ==
    /\ pc[t] # "idle"
    /\ Done(t)
    /\ UNCHANGED <<browser, worker, sqzStats, recorded, clobbered>>

GetStats(t) ==
    /\ pc[t] = "get" /\ sqzStats <= MaxRecorded
    /\ read' = [read EXCEPT ![t] = sqzStats]
    /\ Goto(t, "set")
    /\ UNCHANGED <<browser, worker, text, answer, result, sqzStats, recorded, clobbered>>

SetStats(t) ==
    /\ pc[t] = "set"
    /\ sqzStats' = read[t] + 1
    /\ recorded' = recorded + 1
    /\ clobbered' = (clobbered \/ \E u \in Tabs \ {t} : pc[u] = "set")
    /\ Done(t)
    /\ UNCHANGED <<browser, worker>>

(* Mutant of Reset: the record is removed, and no default takes its place.  *)
ResetRemoving ==
    /\ sqzStats' = None
    /\ recorded' = 0
    /\ clobbered' = \E t \in Tabs : pc[t] = "set"
    /\ UNCHANGED <<browser, worker, call, read>>

(* The popup's Reset, and onInstalled for a first installation.             *)
Reset ==
    /\ sqzStats' = 0
    /\ recorded' = 0
    /\ clobbered' = \E t \in Tabs : pc[t] = "set"
    /\ UNCHANGED <<browser, worker, call, read>>

-----------------------------------------------------------------------------
Next ==
    \/ StartWorker \/ EndWorker
    \/ \E c \in Callers : FinalizeInit(c) \/ LoadFails(c)
    \/ \E i \in garbage : Finalize(i)
    \/ \E t \in Tabs :
          \/ \E x \in TextsOf[t] : SendMessage(t, x)
          \/ SendFails(t) \/ OnMessage(t) \/ Respond(t) \/ Return(t)
          \/ Accept(t) \/ Leave(t) \/ GetStats(t) \/ SetStats(t)
    \/ Reset

(* The browser starts a worker for a message and delivers the message to    *)
(* one that runs long enough; a load comes to an end; the worker's and the *)
(* tab's thread go on.                                                     *)
Fairness ==
    /\ WF_vars((\E t \in Tabs : pc[t] = "sent") /\ StartWorker)
    /\ \A c \in Callers : WF_vars(FinalizeInit(c) \/ LoadFails(c))
    /\ \A t \in Tabs : SF_vars(OnMessage(t)) /\ WF_vars(Respond(t)) /\ WF_vars(Return(t))

Spec == Init /\ [][Next]_vars /\ Fairness

-----------------------------------------------------------------------------
(* The engine that a worker compresses with has not been freed.  In Firefox *)
(* it can be: a COMPRESS that comes before the first load has ended starts *)
(* a second one, and the finalization of the first engine frees the second. *)
EngineIsLive == wasmEngine \in freed /\ wasmReady => browser = "firefox" /\ wasm > 1

(* What a tab is offered is never longer than what was typed, whichever way *)
(* it was compressed.                                                      *)
ResultNotLonger ==
    \A t \in Tabs : pc[t] \in {"offered", "get", "set"} => result[t] <= Length[text[t]]

(* The statistics count every compression that was recorded since the last  *)
(* reset, unless a read and a write of one met a write of another.          *)
StatsAreExact == ~clobbered => sqzStats = recorded

(* What these need to be inductive: an instance is loaded once per call of  *)
(* initWasm, and Chrome makes one call; a tab that has read the statistics *)
(* has read what they are.                                                 *)
OneEngine ==
    /\ wasmEngine = wasm
    /\ garbage \cup freed \subseteq 0..wasm
    /\ 0 \notin garbage
    /\ wasm \notin garbage
    /\ browser = "chrome" =>
          /\ garbage = {} /\ freed = {} /\ wasm <= 1
          /\ loading # {} => wasm = 0 /\ wasmInitPromise = "pending"
          /\ wasm = 1 => wasmInitPromise = "true"
          /\ \A c, d \in loading : c = d
    /\ wasm <= 1 => garbage = {} /\ freed = {}
    /\ ~running => loading = {} /\ wasm = 0 /\ wasmInitPromise = "none"

CallsConsistent ==
    \A t \in Tabs :
        /\ IF pc[t] = "idle" THEN text[t] = None ELSE text[t] \in TextsOf[t]
        /\ answer[t] # 0 => pc[t] = "answered" /\ answer[t] \in Answers[text[t]]
        /\ ~clobbered /\ pc[t] = "set" => read[t] = sqzStats

IInv ==
    /\ EngineIsLive
    /\ ResultNotLonger
    /\ StatsAreExact
    /\ OneEngine
    /\ CallsConsistent

(* What a tab has got back, once its call has returned.                     *)
Returned == [t \in Tabs |-> IF pc[t] \in {"offered", "get", "set"} THEN result[t] ELSE None]

Calls == INSTANCE CompressCalls WITH asked <- text, returned <- Returned

(* Beneath the worker's lives, loads and lost messages, a tab sees a call   *)
(* and one result: an answer it uses is one to the text of this call, not  *)
(* of one that was left, and is shorter.                                   *)
ImplementsCalls == Calls!Spec

(* Every call of sqzCompress returns, though the worker may be ended under  *)
(* it again and again, a load may fail, and messages may be lost: the       *)
(* interceptor holds its lock until then.                                  *)
EveryCallReturns ==
    \A t \in Tabs : pc[t] = "sent" ~> pc[t] \in {"offered", "idle"}

=============================================================================
