------------------------------- MODULE VsCode -------------------------------
(***************************************************************************)
(* The VS Code extension (vscode-extension/src): extension.ts with its     *)
(* commands and listeners, SqzBridge, which runs the sqz command line with *)
(* execSync, and SqzStatusBar with its two timers.  Every window runs the  *)
(* extension in a process of its own; the settings and the database behind *)
(* sqz are shared, and shell hooks write to that database too.             *)
(*                                                                         *)
(* execSync blocks its window, so a handler is one step, except where it   *)
(* awaits a dialog.  A call of the command line can fail, time out after   *)
(* ten seconds, or be of a version that rejects its arguments.             *)
(*                                                                         *)
(* The text of messages is left out; `said` is the last one's kind.         *)
(* outdated is not in the code: the windows whose bar was last drawn before *)
(* rows of the log were deleted.                                           *)
(***************************************************************************)
EXTENDS Naturals

CONSTANTS
    Windows,       \* editor windows
    Binaries,      \* values of the setting sqz.binaryPath
    Health,        \* how the calls of a binary may end
    Documents,     \* the files that get opened or compressed
    Language,      \* Language[d]: VS Code's language of d
    ToSqz,         \* ToSqz[l]: sqz's name of the language l, None without one
    AstLanguages,  \* AST_SUPPORTED_LANGUAGES
    Skipped,       \* documents of another scheme or of fewer than 200 characters
    MaxLog,        \* bound on the rows of the compression log
    MaxDelayed,    \* bound on the refreshes that are pending in a window
    None

ASSUME NamesAssumption == None \notin Binaries /\ None \notin AstLanguages
ASSUME HealthAssumption == Health \subseteq {"works", "flaky", "missing"}
ASSUME BoundsAssumption == MaxLog \in Nat /\ MaxDelayed \in Nat

VARIABLES
    binaryPath,     \* the user's setting sqz.binaryPath
    autoCompress,   \* the user's setting sqz.autoCompress
    unread,     \* windows that have not yet been told of the last change
    cli,        \* how calls of each binary end: "works", "flaky" or "missing"
    log,        \* rows of compression_log, what `sqz stats --json` counts
    phase,      \* of each window's extension: "off", "on" or "disposed"
    bridge,     \* the binary that the commands of a window run
    auto,       \* the windows that know sqz.autoCompress as set
    barBridge,  \* the binary that its status bar runs
    shows,      \* what each status bar shows
    count,      \* the number of compressions it last showed
    outdated,
    polling,    \* the windows whose interval of startPolling is set
    delayed,    \* pending setTimeouts of onCompression in each window
    dialog,     \* the windows in which cmdImportCtx awaits a choice of a file
    said        \* the kind of the last notification in any window

settings == <<binaryPath, autoCompress>>
world == <<binaryPath, autoCompress, unread, cli>>
bar == <<shows, count, outdated>>
statusBar == <<bar, polling, delayed>>
own == <<phase, bridge, auto, barBridge>>
vars == <<binaryPath, autoCompress, unread, cli, log, phase, bridge, auto, barBridge,
          shows, count, outdated, polling, delayed, dialog, said>>

TypeOK ==
    /\ binaryPath \in Binaries
    /\ autoCompress \in BOOLEAN
    /\ unread \subseteq Windows
    /\ cli \in [Binaries -> Health]
    /\ log \in Nat
    /\ phase \in [Windows -> {"off", "on", "disposed"}]
    /\ bridge \in [Windows -> Binaries \cup {None}]
    /\ auto \subseteq Windows
    /\ barBridge \in [Windows -> Binaries \cup {None}]
    /\ shows \in [Windows -> {"sqz", "empty", "saved", "total"}]
    /\ count \in [Windows -> Nat]
    /\ outdated \subseteq Windows
    /\ polling \subseteq Windows
    /\ delayed \in [Windows -> Nat]
    /\ dialog \subseteq Windows
    /\ said \in {"nothing", "done", "empty", "failed"}

Init ==
    /\ binaryPath \in Binaries
    /\ autoCompress = TRUE
    /\ unread = {}
    /\ cli \in [Binaries -> Health]
    /\ log = 0
    /\ phase = [w \in Windows |-> "off"]
    /\ bridge = [w \in Windows |-> None]
    /\ auto = {}
    /\ barBridge = [w \in Windows |-> None]
    /\ shows = [w \in Windows |-> "sqz"]
    /\ count = [w \in Windows |-> 0]
    /\ outdated = {}
    /\ polling = {}
    /\ delayed = [w \in Windows |-> 0]
    /\ dialog = {}
    /\ said = "nothing"

-----------------------------------------------------------------------------
(* SqzBridge.                                                               *)

(* exec: TRUE for an output, FALSE for an exception.                        *)
Exec(b) == CASE cli[b] = "works" -> {TRUE}
             [] cli[b] = "missing" -> {FALSE}
             [] OTHER -> BOOLEAN

(* isAstSupported, over vscodeLanguageToSqz.                                *)
IsAstSupported(d) == ToSqz[Language[d]] \in AstLanguages

(* What `sqz compress` adds to the log: a broken store loses the row, and a *)
(* call that times out may have written it.                                *)
Rows(b) == IF cli[b] = "works" THEN {1} ELSE {0, 1}

(* compress, by the rows that it leaves in the log: a language without a    *)
(* parser, or a failing isAvailable, takes lineFallbackCompress without    *)
(* running `sqz compress`; a failing `sqz compress` takes it after that.   *)
Compressions(b, d) ==
    IF ~IsAstSupported(d) \/ Exec(b) = {FALSE} THEN {0} ELSE Rows(b)

(* Mutant of Stats: a field that the output does not have counts as 0.      *)
StatsUnparsed(b) == {log, 0}

(* Mutant of Stats: a failing call has no answer.                           *)
StatsUndefined(b) == {IF ok THEN log ELSE None : ok \in Exec(b)}

(* getStats: `sqz stats --json`; all zero when sqz is not available or the  *)
(* call or the parsing of its output fails.                                *)
Stats(b) == {IF ok THEN log ELSE 0 : ok \in Exec(b)}

-----------------------------------------------------------------------------
(* SqzStatusBar.                                                            *)

(* update, run by the binary b.                                             *)
Update(w, b) ==
    /\ \E n \in Stats(b) :
          /\ shows' = [shows EXCEPT ![w] = IF n = 0 THEN "empty" ELSE "total"]
          /\ count' = [count EXCEPT ![w] = n]
    /\ outdated' = outdated \ {w}

(* onCompression: the saving of this one, and the totals 1.5 seconds later. *)
OnCompression(w) ==
    /\ delayed[w] < MaxDelayed
    /\ shows' = [shows EXCEPT ![w] = "saved"]
    /\ delayed' = [delayed EXCEPT ![w] = @ + 1]
    /\ UNCHANGED <<count, outdated, polling>>

(* Mutant of StartPolling: the bar is updated once, no interval is set.     *)
StartPollingOnce(w, b) ==
    /\ polling' = polling \ {w}
    /\ Update(w, b)
    /\ UNCHANGED delayed

(* startPolling: stopPolling, update, setInterval.                          *)
StartPolling(w, b) ==
    /\ polling' = polling \cup {w}
    /\ Update(w, b)
    /\ UNCHANGED delayed

(* The interval fires every 30 seconds.                                     *)
Poll(w) ==
    /\ w \in polling
    /\ Update(w, barBridge[w])
    /\ UNCHANGED <<world, log, own, polling, delayed, dialog, said>>

(* A setTimeout of onCompression fires, also after dispose.                 *)
Refresh(w) ==
    /\ delayed[w] > 0
    /\ delayed' = [delayed EXCEPT ![w] = @ - 1]
    /\ Update(w, barBridge[w])
    /\ UNCHANGED <<world, log, own, polling, dialog, said>>

-----------------------------------------------------------------------------
(* extension.ts.                                                            *)

(* What the window then knows of sqz.autoCompress.                          *)
Learnt(w) == IF autoCompress THEN auto \cup {w} ELSE auto \ {w}

Activate(w) ==
    /\ phase[w] = "off"
    /\ phase' = [phase EXCEPT ![w] = "on"]
    /\ LET b == binaryPath
       IN  /\ bridge' = [bridge EXCEPT ![w] = b]
           /\ barBridge' = [barBridge EXCEPT ![w] = b]
           /\ \E available \in Exec(b) : said' = IF available THEN said ELSE "failed"
           /\ StartPolling(w, b)
    /\ auto' = Learnt(w)
    /\ UNCHANGED <<world, log, dialog>>

(* Mutant of Deactivate: the interval is not cleared.                       *)
DeactivateTicking(w) ==
    /\ phase[w] = "on"
    /\ phase' = [phase EXCEPT ![w] = "disposed"]
    /\ unread' = unread \ {w}
    /\ UNCHANGED <<settings, cli, log, bridge, auto, barBridge, bar, polling,
                   delayed, dialog, said>>

(* deactivate, and the disposal of the subscriptions: the interval is       *)
(* cleared; the delayed refreshes and an open dialog are not.              *)
Deactivate(w) ==
    /\ phase[w] = "on"
    /\ phase' = [phase EXCEPT ![w] = "disposed"]
    /\ polling' = polling \ {w}
    /\ unread' = unread \ {w}
    /\ UNCHANGED <<settings, cli, log, bridge, auto, barBridge, bar, delayed, dialog, said>>

(* Mutant of OnDidChangeConfiguration: only the bar is told.                *)
OnDidChangeConfigurationOfBar(w) ==
    /\ w \in unread
    /\ unread' = unread \ {w}
    /\ auto' = Learnt(w)
    /\ Update(w, barBridge[w])
    /\ UNCHANGED <<settings, cli, log, phase, bridge, barBridge, polling, delayed, dialog, said>>

(* The commands get a new bridge; setSessionId updates the bar by its old   *)
(* one.                                                                    *)
OnDidChangeConfiguration(w) ==
    /\ w \in unread
    /\ unread' = unread \ {w}
    /\ bridge' = [bridge EXCEPT ![w] = binaryPath]
    /\ auto' = Learnt(w)
    /\ Update(w, barBridge[w])
    /\ UNCHANGED <<settings, cli, log, phase, barBridge, polling,
                   delayed, dialog, said>>

CmdCompress(w) ==
    /\ phase[w] = "on"
    /\ \E d \in Documents : \E n \in Compressions(bridge[w], d) :
          /\ log + n <= MaxLog
          /\ log' = log + n
    /\ OnCompression(w)
    /\ said' = "done"
    /\ UNCHANGED <<world, own, dialog>>

OnDocumentOpened(w) ==
    /\ phase[w] = "on" /\ w \in auto
    /\ \E d \in Documents \ Skipped : \E n \in Compressions(bridge[w], d) :
          /\ log + n <= MaxLog
          /\ log' = log + n
    /\ OnCompression(w)
    /\ UNCHANGED <<world, own, dialog, said>>

CmdStatus(w) ==
    /\ phase[w] = "on"
    /\ \E n \in Stats(bridge[w]) : said' = IF n = 0 THEN "empty" ELSE "done"
    /\ UNCHANGED <<world, log, own, statusBar, dialog>>

(* `sqz cost` takes no --session and no --json, so its call always fails,   *)
(* and getCostReport answers with zeros.                                   *)
CmdCost(w) ==
    /\ phase[w] = "on"
    /\ said' = "done"
    /\ UNCHANGED <<world, log, own, statusBar, dialog>>

(* `sqz export` takes no --session either: exportCtx throws before the      *)
(* dialog.                                                                 *)
CmdExportCtx(w) ==
    /\ phase[w] = "on"
    /\ said' = "failed"
    /\ UNCHANGED <<world, log, own, statusBar, dialog>>

(* cmdImportCtx up to the dialog.                                           *)
CmdImportCtx(w) ==
    /\ phase[w] = "on" /\ w \notin dialog
    /\ dialog' = dialog \cup {w}
    /\ UNCHANGED <<world, log, own, statusBar, said>>

(* The rest of it: the user closes the dialog, or chooses a file that       *)
(* `sqz import` then reads from a temporary copy.  A file that cannot be    *)
(* read or parsed fails the import whatever the binary.                    *)
DialogClosed(w) ==
    /\ w \in dialog
    /\ dialog' = dialog \ {w}
    /\ \/ UNCHANGED <<bar, said>>
       \/ TRUE \in Exec(bridge[w]) /\ said' = "done" /\ Update(w, barBridge[w])
       \/ said' = "failed" /\ UNCHANGED bar
    /\ UNCHANGED <<world, log, own, polling, delayed>>

(* cmdPin and cmdUnpin run no command: the session is as it was.            *)
CmdPin(w) ==
    /\ phase[w] = "on"
    /\ said' = "done"
    /\ UNCHANGED <<world, log, own, statusBar, dialog>>

-----------------------------------------------------------------------------
(* Around the extension.                                                    *)

(* The user changes the settings; every window will be told.                *)
ChangeSettings ==
    /\ binaryPath' \in Binaries
    /\ autoCompress' \in BOOLEAN
    /\ settings' # settings
    /\ unread' = {w \in Windows : phase[w] = "on"}
    /\ UNCHANGED <<cli, log, own, statusBar, dialog, said>>

(* A binary is installed, removed, or starts to fail.                       *)
CliChanges ==
    /\ \E b \in Binaries : \E s \in Health \ {cli[b]} :
          cli' = [cli EXCEPT ![b] = s]
    /\ UNCHANGED <<settings, unread, log, own, statusBar, dialog, said>>

(* A shell hook compresses the output of a command.                         *)
ShellHook ==
    /\ log < MaxLog
    /\ log' = log + 1
    /\ UNCHANGED <<world, own, statusBar, dialog, said>>

(* `sqz reset` deletes the rows of the log, all or those of a project; so   *)
(* does a recovery that removes the database.                              *)
SqzReset ==
    /\ log' \in 0 .. log
    /\ log' # log
    /\ outdated' = Windows
    /\ UNCHANGED <<world, own, shows, count, polling, delayed, dialog, said>>

Command(w) ==
    \/ CmdCompress(w) \/ CmdStatus(w) \/ CmdCost(w) \/ CmdExportCtx(w)
    \/ CmdImportCtx(w) \/ DialogClosed(w) \/ CmdPin(w)

Next ==
    \/ \E w \in Windows :
          \/ Activate(w) \/ Deactivate(w) \/ Command(w)
          \/ OnDocumentOpened(w) \/ OnDidChangeConfiguration(w)
          \/ Poll(w) \/ Refresh(w)
    \/ ChangeSettings \/ CliChanges \/ ShellHook \/ SqzReset

(* Timers fire and events are delivered; nothing makes a user act.          *)
Spec ==
    /\ Init /\ [][Next]_vars
    /\ \A w \in Windows : WF_vars(Poll(w)) /\ WF_vars(Refresh(w))
                          /\ WF_vars(OnDidChangeConfiguration(w))

-----------------------------------------------------------------------------
(* A bar shows more compressions than the shared log has only until it is   *)
(* next drawn after rows were deleted, whatever the windows, the hooks and  *)
(* the failing calls did in between.                                       *)
ShownWasRecorded == \A w \in Windows \ outdated : count[w] <= log

(* Once told of the last change, a window's commands run the binary that    *)
(* the settings name, and it compresses by itself only if they allow it.    *)
(* Its bar keeps the binary that it was made with.                         *)
SettingsAreUsed ==
    \A w \in Windows : phase[w] = "on" /\ w \notin unread =>
        bridge[w] = binaryPath /\ (w \in auto <=> autoCompress)

(* The interval runs exactly while the extension is active; before that     *)
(* nothing is pending, and after it no event is expected.                   *)
TimersFollowPhase ==
    \A w \in Windows : /\ w \in polling <=> phase[w] = "on"
                       /\ w \in unread => phase[w] = "on"
                       /\ phase[w] = "off" => delayed[w] = 0 /\ w \notin dialog
                       /\ phase[w] # "off" => bridge[w] # None /\ barBridge[w] # None

IInv == ShownWasRecorded /\ SettingsAreUsed /\ TimersFollowPhase

(* "empty" is drawn over a log that has rows only after a call of the     *)
(* bar's own binary has failed.                                             *)
NoDataIsAFailure ==
    [][\A w \in Windows :
          shows'[w] = "empty" /\ shows[w] # "empty" /\ log > 0
             => cli[barBridge'[w]] # "works"]_vars

(* Whatever any window or hook has recorded, and nobody deletes, is shown   *)
(* in every window's bar in the end, also over the text of a single         *)
(* compression, if the window lives and the binary of its bar works; and    *)
(* what was deleted, and is not recorded again, leaves the bar.            *)
BarCatchesUp ==
    \A w \in Windows : \A n \in 1..MaxLog :
        /\ log >= n /\ phase[w] = "on"
              ~> \/ shows[w] = "total" /\ count[w] >= n
                 \/ phase[w] # "on" \/ log < n
                 \/ cli[barBridge[w]] # "works"
        /\ log < n /\ phase[w] = "on"
              ~> count[w] < n \/ phase[w] # "on" \/ log >= n

(* After deactivate a window comes to rest: the refreshes it left behind    *)
(* fire once, and no timer calls sqz after them.                            *)
DisposedIsQuiet ==
    \A w \in Windows :
        phase[w] = "disposed" ~> [](w \notin polling /\ delayed[w] = 0)

=============================================================================
