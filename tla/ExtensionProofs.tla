-------------------------- MODULE ExtensionProofs ---------------------------
(***************************************************************************)
(* Proofs about Extension, for any number of calls, texts and answers, any *)
(* number of lives of the worker, and either browser.  That every call     *)
(* returns is left to TLC.                                                 *)
(***************************************************************************)
EXTENDS Extension, TLAPS

(* Nothing runs and nothing is recorded yet.                                *)
LEMMA InitHolds == Init => TypeOK /\ IInv
<1>. SUFFICES ASSUME Init PROVE TypeOK /\ IInv
  OBVIOUS
<1>1. TypeOK
  BY DEF Init, TypeOK
<1>2. IInv
  BY DEF Init, IInv, EngineIsLive, ResultNotLonger, StatsAreExact, OneEngine, CallsConsistent, wasmReady
<1>. QED  BY <1>1, <1>2

(* What a call returns is not longer than its text.                         *)
LEMMA CompressedLength ==
    ASSUME NEW t \in Tabs, TypeOK, text[t] \in Texts
    PROVE  Compressed(t) \in Nat /\ Compressed(t) <= Length[text[t]]
BY TextsAssumption, JsAssumption DEF TypeOK, Compressed

(* Every step of the worker, the tabs and the popup keeps the types.        *)
LEMMA TypeStep == TypeOK /\ CallsConsistent /\ [Next]_vars => TypeOK'
<1>. SUFFICES ASSUME TypeOK, CallsConsistent, [Next]_vars PROVE TypeOK'
  OBVIOUS
<1>. USE DEF TypeOK, engine, worker, call, stats, Goto
<1>1. CASE StartWorker
  <2>1. Eager \in Callers
    BY DEF Callers
  <2>2. loading' \subseteq Callers /\ wasmInitPromise' \in {"none", "pending", "true", "false"}
    BY <1>1, <2>1 DEF StartWorker, InitWasm, InitWasmChrome, InitWasmFirefox
  <2>3. UNCHANGED <<wasm, wasmEngine, garbage, freed, browser, call, stats>> /\ running' \in BOOLEAN
    BY <1>1 DEF StartWorker, InitWasm, InitWasmChrome, InitWasmFirefox
  <2>. QED  BY <2>2, <2>3
<1>2. CASE EndWorker
  BY <1>2 DEF EndWorker
<1>3. ASSUME NEW c \in Callers, FinalizeInit(c) \/ LoadFails(c) PROVE TypeOK'
  <2>1. CASE FinalizeInit(c)
    <3>1. garbage' \subseteq Nat /\ wasm' \in Nat /\ wasmEngine' \in Nat /\ loading' \subseteq Callers
      BY <2>1 DEF FinalizeInit
    <3>2. wasmInitPromise' \in {"none", "pending", "true", "false"}
      BY <2>1 DEF FinalizeInit
    <3>3. UNCHANGED <<browser, running, freed, call, stats>>
      BY <2>1 DEF FinalizeInit
    <3>. QED  BY <3>1, <3>2, <3>3
  <2>2. CASE LoadFails(c)
    BY <2>2 DEF LoadFails
  <2>. QED  BY <1>3, <2>1, <2>2
<1>4. ASSUME NEW i \in garbage, Finalize(i) PROVE TypeOK'
  BY <1>4 DEF Finalize
<1>5. ASSUME NEW t \in Tabs, NEW x \in TextsOf[t], SendMessage(t, x) PROVE TypeOK'
  BY <1>5, TextsAssumption DEF SendMessage
<1>6. ASSUME NEW t \in Tabs, SendFails(t) \/ OnMessage(t) PROVE TypeOK'
  BY ZenonT(30), <1>6 DEF SendFails, OnMessage, InitWasm, InitWasmChrome, InitWasmFirefox, Callers
<1>7. ASSUME NEW t \in Tabs, Respond(t) PROVE TypeOK'
  <2>1. PICK n \in {0} \cup (IF wasmReady THEN Answers[text[t]] ELSE {}) : answer' = [answer EXCEPT ![t] = n]
    BY <1>7 DEF Respond
  <2>2. n \in Nat
    <3>1. text[t] \in Texts
      BY <1>7, TextsAssumption DEF Respond, CallsConsistent
    <3>. QED  BY <3>1, TextsAssumption
  <2>3. answer' \in [Tabs -> Nat]
    BY <2>1, <2>2
  <2>4. pc' = [pc EXCEPT ![t] = "answered"] /\ UNCHANGED <<browser, worker, text, result, stats>>
    BY <1>7 DEF Respond
  <2>. QED  BY <2>3, <2>4
<1>8. ASSUME NEW t \in Tabs, Return(t) PROVE TypeOK'
  <2>1. text[t] \in Texts
    BY <1>8, TextsAssumption DEF Return, CallsConsistent
  <2>2. Compressed(t) \in Nat
    BY <2>1, CompressedLength
  <2>. QED  BY <1>8, <2>2 DEF Return
<1>9. ASSUME NEW t \in Tabs, Accept(t) \/ Leave(t) \/ GetStats(t) PROVE TypeOK'
  <2>1. CASE Accept(t)
    BY <2>1 DEF Accept
  <2>2. CASE Leave(t)
    BY <2>2 DEF Leave, Done
  <2>3. CASE GetStats(t)
    BY <2>3 DEF GetStats
  <2>. QED  BY <1>9, <2>1, <2>2, <2>3
<1>10. ASSUME NEW t \in Tabs, SetStats(t) PROVE TypeOK'
  BY <1>10 DEF SetStats, Done
<1>11. CASE Reset
  BY <1>11 DEF Reset
<1>12. CASE UNCHANGED vars
  BY <1>12 DEF vars
<1>. QED
  BY <1>1, <1>2, <1>3, <1>4, <1>5, <1>6, <1>7, <1>8, <1>9, <1>10, <1>11, <1>12 DEF Next

-----------------------------------------------------------------------------
(* The steps that do not touch the worker's engine.                         *)
LEMMA EngineUntouched ==
    ASSUME EngineIsLive, OneEngine, UNCHANGED <<browser, worker>>
    PROVE  EngineIsLive' /\ OneEngine'
BY DEF EngineIsLive, OneEngine, worker, engine, wasmReady

(* In Chrome a worker never has two engines, and in neither browser is an   *)
(* engine freed before a second one is there.                              *)
LEMMA EngineStep == TypeOK /\ EngineIsLive /\ OneEngine /\ [Next]_vars => EngineIsLive' /\ OneEngine'
<1>. SUFFICES ASSUME TypeOK, EngineIsLive, OneEngine, [Next]_vars PROVE EngineIsLive' /\ OneEngine'
  OBVIOUS
<1>1. ASSUME NEW c \in Callers, InitWasm(c), running, running', browser' = browser
      PROVE  EngineIsLive' /\ OneEngine'
  BY <1>1 DEF InitWasm, InitWasmChrome, InitWasmFirefox, EngineIsLive, OneEngine, TypeOK, wasmReady
<1>2. CASE StartWorker
  BY <1>2 DEF StartWorker, InitWasm, InitWasmChrome, InitWasmFirefox, EngineIsLive, OneEngine, TypeOK, wasmReady
<1>3. CASE EndWorker
  BY <1>3 DEF EndWorker, EngineIsLive, OneEngine, TypeOK, wasmReady
<1>4. ASSUME NEW c \in Callers, FinalizeInit(c) PROVE EngineIsLive' /\ OneEngine'
  <2>1. CASE browser = "chrome"
    <3>1. loading = {c} /\ wasm = 0 /\ running /\ garbage = {} /\ freed = {}
      BY <1>4, <2>1 DEF FinalizeInit, OneEngine, TypeOK
    <3>. QED  BY <1>4, <2>1, <3>1 DEF FinalizeInit, EngineIsLive, OneEngine, TypeOK, wasmReady
  <2>2. CASE browser = "firefox"
    <3>1. /\ wasm' = wasm + 1 /\ wasmEngine' = wasm + 1 /\ wasm \in Nat /\ wasmEngine = wasm
          /\ garbage' = garbage \cup ({wasm} \ {0}) /\ freed' = freed /\ running /\ running'
      BY <1>4 DEF FinalizeInit, OneEngine, TypeOK
    <3>2. garbage' \cup freed' \subseteq 0..wasm' /\ 0 \notin garbage' /\ wasm' \notin garbage'
      BY <3>1 DEF OneEngine
    <3>3. wasm' <= 1 => wasm = 0 /\ garbage' = {} /\ freed' = {}
      BY <3>1 DEF OneEngine
    <3>4. wasm' \notin freed'
      BY <3>1 DEF OneEngine
    <3>5. OneEngine'
      BY <1>4, <2>2, <3>1, <3>2, <3>3 DEF FinalizeInit, OneEngine
    <3>. QED  BY <3>1, <3>4, <3>5 DEF EngineIsLive
  <2>. QED  BY <2>1, <2>2 DEF TypeOK
<1>5. ASSUME NEW c \in Callers, LoadFails(c) PROVE EngineIsLive' /\ OneEngine'
  BY <1>5 DEF LoadFails, EngineIsLive, OneEngine, TypeOK, wasmReady
<1>6. ASSUME NEW i \in garbage, Finalize(i) PROVE EngineIsLive' /\ OneEngine'
  <2>1. browser = "firefox" /\ wasm > 1 /\ wasm \in Nat
    BY <1>6 DEF OneEngine, TypeOK
  <2>2. garbage' \cup freed' \subseteq 0..wasm
    BY <1>6, <2>1 DEF Finalize, OneEngine
  <2>. QED  BY <1>6, <2>1, <2>2 DEF Finalize, EngineIsLive, OneEngine
<1>7. ASSUME NEW t \in Tabs, OnMessage(t) PROVE EngineIsLive' /\ OneEngine'
  BY <1>1, <1>7 DEF OnMessage, Callers
<1>8. ASSUME NEW t \in Tabs, NEW x \in TextsOf[t], SendMessage(t, x) PROVE UNCHANGED <<browser, worker>>
  BY <1>8 DEF SendMessage
<1>9. ASSUME NEW t \in Tabs,
             SendFails(t) \/ Respond(t) \/ Return(t) \/ Accept(t) \/ Leave(t) \/ GetStats(t) \/ SetStats(t)
      PROVE  UNCHANGED <<browser, worker>>
  BY <1>9 DEF SendFails, Respond, Return, Accept, Leave, GetStats, SetStats
<1>10. CASE Reset \/ UNCHANGED vars
  BY <1>10, EngineUntouched DEF Reset, vars, worker, engine
<1>. QED
  BY <1>2, <1>3, <1>4, <1>5, <1>6, <1>7, <1>8, <1>9, <1>10, EngineUntouched DEF Next

-----------------------------------------------------------------------------
(* The statements about calls and statistics.                               *)
CallInv == ResultNotLonger /\ StatsAreExact /\ CallsConsistent

(* The steps of the worker's engine, which leave calls and statistics.      *)
LEMMA CallsUntouched ==
    ASSUME CallInv, UNCHANGED <<call, stats>>
    PROVE  CallInv'
BY DEF CallInv, ResultNotLonger, StatsAreExact, CallsConsistent, call, stats

(* A call is offered a result that is not longer, and a write of the        *)
(* statistics that no other met adds to what they are.                     *)
LEMMA CallStep == TypeOK /\ CallInv /\ [Next]_vars => CallInv'
<1>. SUFFICES ASSUME TypeOK, CallInv, [Next]_vars PROVE CallInv'
  OBVIOUS
<1>. USE DEF CallInv, ResultNotLonger, StatsAreExact, CallsConsistent, TypeOK, call, stats, Goto
<1>1. CASE StartWorker
  BY <1>1, CallsUntouched DEF StartWorker
<1>2. CASE EndWorker
  BY <1>2 DEF EndWorker
<1>3. ASSUME NEW c \in Callers, FinalizeInit(c) \/ LoadFails(c) PROVE CallInv'
  BY <1>3, CallsUntouched DEF FinalizeInit, LoadFails
<1>4. ASSUME NEW i \in garbage, Finalize(i) PROVE CallInv'
  BY <1>4, CallsUntouched DEF Finalize
<1>5. ASSUME NEW t \in Tabs, NEW x \in TextsOf[t], SendMessage(t, x) PROVE CallInv'
  BY <1>5, TextsAssumption DEF SendMessage
<1>6. ASSUME NEW t \in Tabs, SendFails(t) \/ OnMessage(t) PROVE CallInv'
  BY <1>6 DEF SendFails, OnMessage
<1>7. ASSUME NEW t \in Tabs, Respond(t) PROVE CallInv'
  <2>1. PICK n \in {0} \cup Answers[text[t]] : answer' = [answer EXCEPT ![t] = n]
    BY <1>7 DEF Respond
  <2>2. pc' = [pc EXCEPT ![t] = "answered"] /\ UNCHANGED <<text, result, stats>> /\ pc[t] = "waiting"
    BY <1>7 DEF Respond
  <2>. QED  BY <2>1, <2>2
<1>8. ASSUME NEW t \in Tabs, Return(t) PROVE CallInv'
  <2>1. text[t] \in Texts
    BY <1>8, TextsAssumption DEF Return
  <2>2. Compressed(t) \in Nat /\ Compressed(t) <= Length[text[t]]
    BY <2>1, CompressedLength
  <2>. QED  BY <1>8, <2>2 DEF Return
<1>9. ASSUME NEW t \in Tabs, Accept(t) PROVE CallInv'
  BY <1>9 DEF Accept
<1>10. ASSUME NEW t \in Tabs, Leave(t) PROVE CallInv'
  BY <1>10 DEF Leave, Done
<1>11. ASSUME NEW t \in Tabs, GetStats(t) PROVE CallInv'
  BY <1>11 DEF GetStats
<1>12. ASSUME NEW t \in Tabs, SetStats(t) PROVE CallInv'
  BY <1>12 DEF SetStats, Done
<1>13. CASE Reset
  BY <1>13 DEF Reset
<1>14. CASE UNCHANGED vars
  BY <1>14 DEF vars
<1>. QED
  BY <1>1, <1>2, <1>3, <1>4, <1>5, <1>6, <1>7, <1>8, <1>9, <1>10, <1>11, <1>12, <1>13, <1>14 DEF Next

-----------------------------------------------------------------------------
(* The inductive invariant.                                                 *)
LEMMA InvStep == TypeOK /\ IInv /\ [Next]_vars => (TypeOK /\ IInv)'
<1>. SUFFICES ASSUME TypeOK, IInv, [Next]_vars PROVE (TypeOK /\ IInv)'
  OBVIOUS
<1>1. TypeOK' /\ EngineIsLive' /\ OneEngine' /\ CallInv'
  BY TypeStep, EngineStep, CallStep DEF IInv, CallInv
<1>. QED  BY <1>1 DEF IInv, CallInv

(* The variables keep their types.                                          *)
THEOREM TypeCorrect == Spec => []TypeOK
<1>. QED  BY InitHolds, InvStep, PTL DEF Spec

(* A live engine, no longer result, and exact statistics, as long as the    *)
(* named exceptions do not occur.                                          *)
THEOREM InvCorrect == Spec => []IInv
<1>. QED  BY InitHolds, InvStep, PTL DEF Spec

-----------------------------------------------------------------------------
(* Extension implements CompressCalls.                                      *)

(* The steps of the worker and of the statistics are none of a call's.      *)
LEMMA CallsUnseen ==
    ASSUME UNCHANGED text, UNCHANGED Returned
    PROVE  [Calls!Next]_Calls!vars
BY DEF Calls!vars

(* A call asks, returns once, and is done with.                             *)
LEMMA CallImplements ==
    ASSUME TypeOK, CallsConsistent, NEW t \in Tabs,
           \/ \E x \in TextsOf[t] : SendMessage(t, x)
           \/ SendFails(t) \/ OnMessage(t) \/ Respond(t) \/ Return(t)
           \/ Accept(t) \/ Leave(t) \/ GetStats(t) \/ SetStats(t)
    PROVE  [Calls!Next]_Calls!vars
<1>. USE DEF TypeOK
<1>1. ASSUME NEW x \in TextsOf[t], SendMessage(t, x) PROVE Calls!Ask(t, x)
  <2>1. text[t] = None /\ text' = [text EXCEPT ![t] = x]
    BY <1>1 DEF SendMessage, CallsConsistent
  <2>2. UNCHANGED Returned
    BY <1>1 DEF SendMessage, Goto, Returned
  <2>. QED  BY <2>1, <2>2 DEF Calls!Ask
<1>2. ASSUME SendFails(t) \/ OnMessage(t) \/ Respond(t)
      PROVE  UNCHANGED text /\ UNCHANGED Returned
  BY <1>2 DEF SendFails, OnMessage, Respond, Goto, Returned, call
<1>3. ASSUME Return(t) PROVE Calls!Return(t)
  <2>1. text[t] # None
    <3>1. text[t] \in TextsOf[t]
      BY <1>3 DEF Return, CallsConsistent
    <3>. QED  BY <3>1, TextsAssumption
  <2>2. Compressed(t) \in Calls!Outcomes(text[t])
    <3>1. answer[t] # 0 => answer[t] \in Answers[text[t]]
      BY DEF CallsConsistent
    <3>. QED  BY <3>1 DEF Compressed, Calls!Outcomes
  <2>3. Returned[t] = None /\ Returned' = [Returned EXCEPT ![t] = Compressed(t)]
    BY <1>3 DEF Return, Goto, Returned
  <2>4. UNCHANGED text
    BY <1>3 DEF Return
  <2>. QED  BY <2>1, <2>2, <2>3, <2>4 DEF Calls!Return
<1>4. ASSUME Accept(t) \/ GetStats(t) PROVE UNCHANGED text /\ UNCHANGED Returned
  BY <1>4 DEF Accept, GetStats, Goto, Returned
<1>5. ASSUME Leave(t) \/ SetStats(t) PROVE Calls!Finish(t)
  <2>1. pc[t] # "idle" /\ Done(t)
    BY <1>5 DEF Leave, SetStats
  <2>2. text[t] # None
    BY <2>1, TextsAssumption DEF CallsConsistent
  <2>3. Returned' = [Returned EXCEPT ![t] = None] /\ text' = [text EXCEPT ![t] = None]
    BY <2>1 DEF Done, Goto, Returned
  <2>. QED  BY <2>2, <2>3 DEF Calls!Finish
<1>. QED
  BY <1>1, <1>2, <1>3, <1>4, <1>5, CallsUnseen DEF Calls!Next

(* sqzCompress keeps to CompressCalls: whatever becomes of the worker, the  *)
(* engine, the messages and the statistics, a call that returns has one     *)
(* result, of the passes or shorter than its text.                         *)
THEOREM CallsCorrect == Spec => ImplementsCalls
<1>1. Init => Calls!Init
  BY DEF Init, Calls!Init, Returned
<1>2. ASSUME TypeOK, CallsConsistent, [Next]_vars PROVE [Calls!Next]_Calls!vars
  <2>1. CASE StartWorker \/ (\E c \in Callers : FinalizeInit(c) \/ LoadFails(c))
             \/ (\E i \in garbage : Finalize(i)) \/ Reset \/ UNCHANGED vars
    <3>1. UNCHANGED call
      BY <2>1 DEF StartWorker, FinalizeInit, LoadFails, Finalize, Reset, vars, call
    <3>2. UNCHANGED text /\ UNCHANGED Returned
      BY <3>1 DEF call, Returned
    <3>. QED  BY <3>2, CallsUnseen
  <2>2. CASE EndWorker
    <3>1. UNCHANGED text /\ UNCHANGED Returned
      BY <2>2 DEF EndWorker, Returned, TypeOK
    <3>. QED  BY <3>1, CallsUnseen
  <2>3. ASSUME NEW t \in Tabs,
               \/ \E x \in TextsOf[t] : SendMessage(t, x)
               \/ SendFails(t) \/ OnMessage(t) \/ Respond(t) \/ Return(t)
               \/ Accept(t) \/ Leave(t) \/ GetStats(t) \/ SetStats(t)
        PROVE  [Calls!Next]_Calls!vars
    BY <1>2, <2>3, CallImplements
  <2>. QED  BY <1>2, <2>1, <2>2, <2>3 DEF Next
<1>3. IInv => CallsConsistent
  BY DEF IInv
<1>. QED
  BY <1>1, <1>2, <1>3, TypeCorrect, InvCorrect, PTL DEF Spec, ImplementsCalls, Calls!Spec

=============================================================================
