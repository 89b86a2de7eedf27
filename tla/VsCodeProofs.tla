---------------------------- MODULE VsCodeProofs ----------------------------
(***************************************************************************)
(* Proofs about VsCode, for any number of windows, binaries and documents, *)
(* and every bound.  Liveness is left to TLC.                              *)
(***************************************************************************)
EXTENDS VsCode, TLAPS

(* The statistics are those of the log or, after a failure, zero.           *)
LEMMA StatsAreOfLog ==
    ASSUME NEW b, NEW n \in Stats(b)
    PROVE  n = log \/ (n = 0 /\ cli[b] # "works")
<1>1. PICK ok \in Exec(b) : n = IF ok THEN log ELSE 0
  BY DEF Stats
<1>2. cli[b] = "works" => ok
  BY DEF Exec
<1>. QED  BY <1>1, <1>2

(* update draws a bar of the type, with a number the log has, and draws     *)
(* "empty" over a log with rows only if a call failed.                    *)
LEMMA UpdateDraws ==
    ASSUME TypeOK, NEW w \in Windows, NEW b, Update(w, b)
    PROVE  /\ shows' \in [Windows -> {"sqz", "empty", "saved", "total"}]
           /\ count' \in [Windows -> Nat]
           /\ outdated' = outdated \ {w}
           /\ ShownWasRecorded => \A v \in Windows \ outdated' : count'[v] <= log
           /\ \A v \in Windows : v # w => shows'[v] = shows[v]
           /\ shows'[w] = "empty" /\ log > 0 => cli[b] # "works"
<1>1. PICK n \in Stats(b) :
          /\ shows' = [shows EXCEPT ![w] = IF n = 0 THEN "empty" ELSE "total"]
          /\ count' = [count EXCEPT ![w] = n]
  BY DEF Update
<1>2. n = log \/ (n = 0 /\ cli[b] # "works")
  BY <1>1, StatsAreOfLog
<1>3. n \in Nat /\ n <= log /\ log \in Nat
  <2>1. log \in Nat
    BY DEF TypeOK
  <2>. QED  BY <1>2, <2>1
<1>4. shows \in [Windows -> {"sqz", "empty", "saved", "total"}] /\ count \in [Windows -> Nat]
  BY DEF TypeOK
<1>5. shows' \in [Windows -> {"sqz", "empty", "saved", "total"}] /\ count' \in [Windows -> Nat]
  BY <1>1, <1>3, <1>4
<1>6. \A v \in Windows : v # w => shows'[v] = shows[v] /\ count'[v] = count[v]
  BY <1>1, <1>4
<1>7. count'[w] = n /\ (shows'[w] = "empty" => n = 0)
  BY <1>1, <1>4
<1>8. outdated' = outdated \ {w}
  BY DEF Update
<1>9. ShownWasRecorded => \A v \in Windows \ outdated' : count'[v] <= log
  BY <1>3, <1>6, <1>7, <1>8 DEF ShownWasRecorded
<1>. QED  BY <1>2, <1>5, <1>6, <1>7, <1>8, <1>9

(* onCompression shows neither a total nor "empty".                       *)
LEMMA OnCompressionDraws ==
    ASSUME TypeOK, NEW w \in Windows, OnCompression(w)
    PROVE  /\ shows' \in [Windows -> {"sqz", "empty", "saved", "total"}]
           /\ delayed' \in [Windows -> Nat]
           /\ \A v \in Windows : shows'[v] = "empty" => shows[v] = "empty"
           /\ \A v \in Windows : v # w => delayed'[v] = delayed[v]
           /\ UNCHANGED <<count, outdated, polling>>
BY DEF TypeOK, OnCompression

(* A compression adds no row or one.                                        *)
LEMMA RowsType == ASSUME NEW b, NEW d PROVE Compressions(b, d) \subseteq {0, 1}
BY DEF Rows, Compressions

-----------------------------------------------------------------------------
(* The extension starts well typed, with nothing shown or pending.          *)
LEMMA TypeInit == Init => TypeOK
BY DEF Init, TypeOK

(* Every handler and every change around them keeps the types.              *)
LEMMA TypeStep == TypeOK /\ [Next]_vars => TypeOK'
<1>. SUFFICES ASSUME TypeOK, [Next]_vars PROVE TypeOK'
  OBVIOUS
<1>. USE DEF settings, world, bar, statusBar, own
<1>1. ASSUME NEW w \in Windows, Activate(w) PROVE TypeOK'
  BY <1>1, UpdateDraws DEF Activate, StartPolling, Learnt, TypeOK
<1>2. ASSUME NEW w \in Windows, Deactivate(w) PROVE TypeOK'
  BY <1>2 DEF Deactivate, TypeOK
<1>3. ASSUME NEW w \in Windows, CmdCompress(w) PROVE TypeOK'
  BY <1>3, OnCompressionDraws, RowsType DEF CmdCompress, TypeOK
<1>4. ASSUME NEW w \in Windows, OnDocumentOpened(w) PROVE TypeOK'
  BY <1>4, OnCompressionDraws, RowsType DEF OnDocumentOpened, TypeOK
<1>5. ASSUME NEW w \in Windows, CmdStatus(w) \/ CmdCost(w) \/ CmdExportCtx(w)
                                \/ CmdImportCtx(w) \/ CmdPin(w)
      PROVE  TypeOK'
  BY <1>5 DEF CmdStatus, CmdCost, CmdExportCtx, CmdImportCtx, CmdPin, TypeOK
<1>6. ASSUME NEW w \in Windows, DialogClosed(w) PROVE TypeOK'
  BY <1>6, UpdateDraws DEF DialogClosed, TypeOK
<1>7. ASSUME NEW w \in Windows, OnDidChangeConfiguration(w) PROVE TypeOK'
  BY <1>7, UpdateDraws DEF OnDidChangeConfiguration, Learnt, TypeOK
<1>8. ASSUME NEW w \in Windows, Poll(w) \/ Refresh(w) PROVE TypeOK'
  BY <1>8, UpdateDraws DEF Poll, Refresh, TypeOK
<1>9. CASE ChangeSettings \/ CliChanges \/ ShellHook \/ SqzReset \/ UNCHANGED vars
  BY <1>9 DEF ChangeSettings, CliChanges, ShellHook, SqzReset, vars, TypeOK
<1>. QED  BY <1>1, <1>2, <1>3, <1>4, <1>5, <1>6, <1>7, <1>8, <1>9 DEF Next, Command

(* The extension's state stays well typed in every window.                  *)
THEOREM TypeCorrect == Spec => []TypeOK
<1>. QED  BY TypeInit, TypeStep, PTL DEF Spec

-----------------------------------------------------------------------------
(* Before any window is active the invariant holds.                         *)
LEMMA InvInit == Init => IInv
BY DEF Init, IInv, ShownWasRecorded, SettingsAreUsed, TimersFollowPhase

(* A draw shows what the log has, and no other step but a deletion, which   *)
(* marks every window, makes the log less than what is shown.               *)
LEMMA InvStep == TypeOK /\ IInv /\ [Next]_vars => IInv'
<1>. SUFFICES ASSUME TypeOK, IInv, [Next]_vars PROVE IInv'
  OBVIOUS
<1>. USE DEF IInv, ShownWasRecorded, SettingsAreUsed, TimersFollowPhase,
           settings, world, bar, statusBar, own
<1>1. ASSUME NEW w \in Windows, Activate(w) PROVE IInv'
  <2>1. ShownWasRecorded'
    BY <1>1, UpdateDraws DEF Activate, StartPolling
  <2>. QED  BY <1>1, <2>1, NamesAssumption DEF Activate, StartPolling, Learnt, TypeOK
<1>2. ASSUME NEW w \in Windows, Deactivate(w) PROVE IInv'
  BY <1>2 DEF Deactivate, TypeOK
<1>3. ASSUME NEW w \in Windows, CmdCompress(w) \/ OnDocumentOpened(w) PROVE IInv'
  <2>1. log' \in Nat /\ log' >= log /\ OnCompression(w) /\ phase[w] = "on"
        /\ UNCHANGED <<world, own, dialog>>
    BY <1>3, RowsType DEF CmdCompress, OnDocumentOpened, TypeOK
  <2>2. /\ UNCHANGED <<count, outdated>>
        /\ \A v \in Windows : v # w => delayed'[v] = delayed[v]
        /\ polling' = polling
    BY <2>1, OnCompressionDraws
  <2>3. \A v \in Windows : count[v] \in Nat
    BY DEF TypeOK
  <2>4. ShownWasRecorded'
    BY <2>1, <2>2, <2>3 DEF TypeOK
  <2>5. SettingsAreUsed'
    BY <2>1
  <2>6. TimersFollowPhase'
    BY <2>1, <2>2
  <2>. QED  BY <2>4, <2>5, <2>6
<1>4. ASSUME NEW w \in Windows, CmdStatus(w) \/ CmdCost(w) \/ CmdExportCtx(w)
                                \/ CmdImportCtx(w) \/ CmdPin(w)
      PROVE  IInv'
  <2>1. UNCHANGED <<world, log, own, statusBar>>
    BY <1>4 DEF CmdStatus, CmdCost, CmdExportCtx, CmdImportCtx, CmdPin
  <2>2. \A v \in Windows : phase[v] = "off" => v \notin dialog'
    BY <1>4 DEF CmdStatus, CmdCost, CmdExportCtx, CmdImportCtx, CmdPin, TypeOK
  <2>. QED  BY <2>1, <2>2
<1>5. ASSUME NEW w \in Windows, DialogClosed(w) PROVE IInv'
  <2>1. ShownWasRecorded'
    BY <1>5, UpdateDraws DEF DialogClosed
  <2>. QED  BY <1>5, <2>1 DEF DialogClosed, TypeOK
<1>6. ASSUME NEW w \in Windows, OnDidChangeConfiguration(w) PROVE IInv'
  <2>1. ShownWasRecorded'
    BY <1>6, UpdateDraws DEF OnDidChangeConfiguration
  <2>. QED  BY <1>6, <2>1, NamesAssumption DEF OnDidChangeConfiguration, Learnt, TypeOK
<1>7. ASSUME NEW w \in Windows, Poll(w) \/ Refresh(w) PROVE IInv'
  <2>1. ShownWasRecorded'
    BY <1>7, UpdateDraws DEF Poll, Refresh
  <2>. QED  BY <1>7, <2>1 DEF Poll, Refresh, TypeOK
<1>8. CASE ChangeSettings \/ CliChanges \/ UNCHANGED vars
  BY <1>8 DEF ChangeSettings, CliChanges, vars
<1>9. CASE ShellHook \/ SqzReset
  BY <1>9 DEF ShellHook, SqzReset, TypeOK
<1>. QED  BY <1>1, <1>2, <1>3, <1>4, <1>5, <1>6, <1>7, <1>8, <1>9 DEF Next, Command

(* In every window the bar shows no more than the log has since it was last *)
(* drawn after a reset, the commands run the binary of the settings the     *)
(* window was told of, and the interval runs while the extension is active. *)
THEOREM InvCorrect == Spec => []IInv
<1>. QED  BY InvInit, InvStep, TypeCorrect, PTL DEF Spec

-----------------------------------------------------------------------------
(* A bar says "empty" of a log with rows only after a failed call.        *)
THEOREM NoDataCorrect == Spec => NoDataIsAFailure
<1>. DEFINE Draws == \A w \in Windows :
              shows'[w] = "empty" /\ shows[w] # "empty" /\ log > 0
                 => cli[barBridge'[w]] # "works"
<1>1. TypeOK /\ [Next]_vars => [Draws]_vars
  <2>. SUFFICES ASSUME TypeOK, Next PROVE Draws
    BY DEF vars
  <2>. USE DEF settings, world, bar, statusBar, own
  <2>1. ASSUME NEW w \in Windows, Activate(w) PROVE Draws
    <3>1. barBridge'[w] = binaryPath
      BY <2>1 DEF Activate, TypeOK
    <3>. QED  BY <2>1, <3>1, UpdateDraws DEF Activate, StartPolling
  <2>2. ASSUME NEW w \in Windows, Poll(w) \/ Refresh(w) \/ OnDidChangeConfiguration(w)
        PROVE  Draws
    BY <2>2, UpdateDraws DEF Poll, Refresh, OnDidChangeConfiguration
  <2>3. ASSUME NEW w \in Windows, DialogClosed(w) PROVE Draws
    BY <2>3, UpdateDraws DEF DialogClosed
  <2>4. ASSUME NEW w \in Windows, CmdCompress(w) \/ OnDocumentOpened(w) PROVE Draws
    BY <2>4, OnCompressionDraws DEF CmdCompress, OnDocumentOpened
  <2>5. ASSUME shows' = shows PROVE Draws
    BY <2>5
  <2>6. ASSUME NEW w \in Windows,
               Deactivate(w) \/ CmdStatus(w) \/ CmdCost(w) \/ CmdExportCtx(w)
               \/ CmdImportCtx(w) \/ CmdPin(w)
        PROVE  shows' = shows
    BY <2>6 DEF Deactivate, CmdStatus, CmdCost, CmdExportCtx, CmdImportCtx, CmdPin
  <2>7. ChangeSettings \/ CliChanges \/ ShellHook \/ SqzReset => shows' = shows
    BY DEF ChangeSettings, CliChanges, ShellHook, SqzReset
  <2>. HIDE DEF Draws
  <2>. QED  BY <2>1, <2>2, <2>3, <2>4, <2>5, <2>6, <2>7 DEF Next, Command
<1>. QED  BY <1>1, TypeCorrect, PTL DEF Spec, NoDataIsAFailure

=============================================================================
