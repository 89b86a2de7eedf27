----------------------------- MODULE NpmInstall -----------------------------
(***************************************************************************)
(* npm/install.js, the script that npm runs after it has unpacked the sqz  *)
(* package: it downloads and extracts the archives of two binaries into    *)
(* the package's bin directory, first sqz, which is required, and then     *)
(* sqz-mcp, which is optional.  The user may interrupt npm and run it      *)
(* again over what the earlier run left.                                   *)
(*                                                                         *)
(* A step is a call that leaves something on disk.  An await whose promise *)
(* can never settle ends the script too: the event loop has nothing left   *)
(* to wait for, and Node exits with code 0.                                *)
(*                                                                         *)
(* settled and tried are not in the code: whether install() came to its    *)
(* end, and which binaries this run has begun with.                        *)
(***************************************************************************)
EXTENDS Naturals

CONSTANTS
    Platforms,  \* what process.platform and process.arch may say
    Layouts,    \* how an archive can be packed
    Answers     \* how the release host can answer a request

Names == {"sqz", "mcp"}

ASSUME PlatformsAssumption == Platforms \subseteq {"posix", "win32", "unsupported"}
ASSUME LayoutsAssumption == Layouts \subseteq {"flat", "nested", "other"}
ASSUME AnswersAssumption == Answers \subseteq {"found", "refused", "redirect", "dropped"}

VARIABLES
    platform,
    layout,     \* how the archive of each binary is packed
    bin,        \* what bin/ holds under the name of each binary
    archive,    \* how much of its archive bin/ holds
    tmp,        \* bin/__sqz_extract_tmp__ is there
    pc,         \* the next step
    name,       \* the binary it is for
    exit,       \* the exit code of the script
    settled,
    tried

disk == <<bin, archive, tmp>>
vars == <<platform, layout, bin, archive, tmp, pc, name, exit, settled, tried>>

TypeOK ==
    /\ platform \in Platforms
    /\ layout \in [Names -> Layouts]
    /\ bin \in [Names -> {"none", "placeholder", "partial", "whole", "ready", "dir"}]
    /\ archive \in [Names -> {"none", "partial", "whole"}]
    /\ tmp \in BOOLEAN
    /\ pc \in {"idle", "stale", "open", "download", "extract", "nested", "unlink", "chmod"}
    /\ name \in Names
    /\ exit \in {"none", "0", "1", "killed"}
    /\ settled \in BOOLEAN
    /\ tried \subseteq Names

(* npm has unpacked the package, which ships a wrapper bin/sqz and a        *)
(* wrapper bin/sqz-mcp.  On Windows the binaries have other names, sqz.exe *)
(* and sqz-mcp.exe.                                                        *)
Init ==
    /\ platform \in Platforms
    /\ layout \in [Names -> Layouts]
    /\ bin = [n \in Names |-> IF platform = "win32" THEN "none" ELSE "placeholder"]
    /\ archive = [n \in Names |-> "none"]
    /\ tmp = FALSE
    /\ pc = "idle"
    /\ name = "sqz"
    /\ exit = "none"
    /\ settled = FALSE
    /\ tried = {}

-----------------------------------------------------------------------------
(* How a call of installBinary, and with it the script, goes on.            *)

Goto(l) == pc' = l /\ UNCHANGED <<name, exit, settled, tried>>

(* The script ends, with or without the end of install().                   *)
Exit(code, done) ==
    /\ pc' = "idle"
    /\ exit' = code
    /\ settled' = done
    /\ UNCHANGED <<name, tried>>

(* installBinary is called for n.                                           *)
Begin(n) ==
    /\ pc' = "stale"
    /\ name' = n
    /\ tried' = tried \cup {n}
    /\ UNCHANGED <<exit, settled>>

(* Mutant of Return: the second call is for a name that no archive has.     *)
ReturnUnknown == IF name = "sqz" THEN Begin("sqz_mcp") ELSE Exit("0", TRUE)

(* installBinary returns, true or false.                                    *)
Return == IF name = "sqz" THEN Begin("mcp") ELSE Exit("0", TRUE)

(* Mutant of Throw: the optional binary fails the install.                  *)
ThrowAlways ==
    /\ archive' = [archive EXCEPT ![name] = "none"]
    /\ Exit("1", TRUE)

(* Mutant of Throw: the archive is left where it is.                        *)
ThrowLeavingArchive ==
    /\ UNCHANGED archive
    /\ IF name = "sqz" THEN Exit("1", TRUE) ELSE Return

(* An exception in installBinary: the archive is removed, "so a retry       *)
(* starts fresh", and only the required binary passes the exception on.     *)
Throw ==
    /\ archive' = [archive EXCEPT ![name] = "none"]
    /\ IF name = "sqz" THEN Exit("1", TRUE) ELSE Return

-----------------------------------------------------------------------------
(* install() is called; getPlatformTarget throws for another platform.      *)
Install ==
    /\ pc = "idle"
    /\ IF platform = "unsupported"
       THEN pc' = "idle" /\ exit' = "1" /\ settled' = TRUE /\ name' = name /\ tried' = {}
       ELSE pc' = "stale" /\ exit' = "none" /\ settled' = FALSE /\ name' = "sqz" /\ tried' = {"sqz"}
    /\ UNCHANGED <<platform, layout, disk>>

(* The placeholder, or the binary of an earlier run, is removed; an error   *)
(* is ignored.  unlinkSync does not remove a directory.                    *)
RemoveStale ==
    /\ pc = "stale"
    /\ \/ bin[name] # "dir" /\ bin' = [bin EXCEPT ![name] = "none"]
       \/ UNCHANGED bin
    /\ Goto("open")
    /\ UNCHANGED <<platform, layout, archive, tmp>>

(* createWriteStream empties what an interrupted download has left.         *)
OpenArchive ==
    /\ pc = "open"
    /\ archive' = [archive EXCEPT ![name] = "partial"]
    /\ Goto("download")
    /\ UNCHANGED <<platform, layout, bin, tmp>>

(* A response 200 that arrives in full.                                     *)
Downloaded ==
    /\ pc = "download" /\ "found" \in Answers
    /\ archive' = [archive EXCEPT ![name] = "whole"]
    /\ Goto("extract")
    /\ UNCHANGED <<platform, layout, bin, tmp>>

(* The stream cannot create the archive, or a write to it fails: it has no  *)
(* error listener, so the error is uncaught, for either binary, and Node    *)
(* exits with code 1 although the promise has not settled.                 *)
StreamFails ==
    /\ pc \in {"open", "download"}
    /\ Exit("1", FALSE)
    /\ UNCHANGED <<platform, layout, disk>>

(* Another status, or no connection: the promise is rejected.               *)
Refused ==
    /\ pc = "download" /\ "refused" \in Answers
    /\ Throw
    /\ UNCHANGED <<platform, layout, bin, tmp>>

(* Status 301 or 302: the stream is closed before the next request is made. *)
(* Its finish event is over when that request's response asks for it, and  *)
(* the response is paused for a drain that does not come.  A connection    *)
(* that breaks inside a body ends in the same way: the pipe never ends the *)
(* stream.  Either way the promise never settles.                          *)
NeverSettles ==
    /\ pc = "download" /\ Answers \cap {"redirect", "dropped"} # {}
    /\ Exit("0", FALSE)
    /\ UNCHANGED <<platform, layout, disk>>

-----------------------------------------------------------------------------
(* extractBinary.                                                           *)

(* What may lie under the name of the binary when an extraction into bin/   *)
(* fails or is killed.                                                     *)
Stopped ==
    CASE layout[name] = "flat" -> {bin[name], "partial"}
      [] layout[name] = "nested" /\ platform # "win32" -> {bin[name], "dir"}
      [] OTHER -> {bin[name]}

(* What Expand-Archive with -Force and the lines after it may leave.  A     *)
(* nested binary is moved up only if its name is free, and only if the      *)
(* wrapper bin/sqz has let its directory be created.                       *)
Expanded ==
    CASE layout[name] = "flat" -> {"whole"}
      [] layout[name] = "nested" -> {bin[name], IF bin[name] = "none" THEN "whole" ELSE bin[name]}
      [] OTHER -> {bin[name]}

(* Windows' path.  That no binary is there at its end is not noticed.       *)
ExpandZip ==
    /\ pc = "extract" /\ platform = "win32"
    /\ \/ /\ \E b \in Expanded : bin' = [bin EXCEPT ![name] = b]
          /\ Goto("unlink")
          /\ UNCHANGED archive
       \/ /\ \E b \in Stopped : bin' = [bin EXCEPT ![name] = b]
          /\ Throw
    /\ UNCHANGED <<platform, layout, tmp>>

(* tar asks for the member by the binary's name.  In a nested archive, from *)
(* which the directory may have that name, tar extracts the directory and   *)
(* succeeds; only when it fails is the nested layout tried.                *)
ExtractFlat ==
    /\ pc = "extract" /\ platform # "win32"
    /\ \/ /\ layout[name] # "other"
          /\ bin' = [bin EXCEPT ![name] = IF layout[name] = "flat" THEN "whole" ELSE "dir"]
          /\ Goto("unlink")
       \/ /\ \E b \in Stopped : bin' = [bin EXCEPT ![name] = b]
          /\ Goto("nested")
    /\ UNCHANGED <<platform, layout, archive, tmp>>

(* Mutant of ExtractNested: that nothing was found goes unnoticed.          *)
ExtractNestedUnchecked ==
    /\ pc = "nested"
    /\ \/ tmp' = TRUE /\ Throw /\ UNCHANGED bin
       \/ /\ bin[name] # "dir"
          /\ bin' = [bin EXCEPT ![name] = IF layout[name] = "other" THEN @ ELSE "whole"]
          /\ tmp' = FALSE
          /\ Goto("unlink")
          /\ UNCHANGED archive
    /\ UNCHANGED <<platform, layout>>

(* tar into the temporary directory, and the binary is moved from where     *)
(* either layout would put it.  The directory stays if tar fails, or if the *)
(* move does, over a directory that ExtractFlat has left.                  *)
ExtractNested ==
    /\ pc = "nested"
    /\ \/ tmp' = TRUE /\ Throw /\ UNCHANGED bin
       \/ /\ layout[name] # "other" /\ bin[name] # "dir"
          /\ bin' = [bin EXCEPT ![name] = "whole"]
          /\ tmp' = FALSE
          /\ Goto("unlink")
          /\ UNCHANGED archive
       \/ layout[name] = "other" /\ tmp' = FALSE /\ Throw /\ UNCHANGED bin
    /\ UNCHANGED <<platform, layout>>

(* The rest of installBinary.                                               *)
RemoveArchive ==
    /\ pc = "unlink"
    /\ archive' = [archive EXCEPT ![name] = "none"]
    /\ IF platform = "win32" THEN Return ELSE Goto("chmod")
    /\ UNCHANGED <<platform, layout, bin, tmp>>

Chmod ==
    /\ pc = "chmod"
    /\ bin' = [bin EXCEPT ![name] = IF @ = "dir" THEN "dir" ELSE "ready"]
    /\ Return
    /\ UNCHANGED <<platform, layout, archive, tmp>>

(* The user interrupts npm; an extraction stops half way.                   *)
Kill ==
    /\ pc # "idle"
    /\ \/ UNCHANGED <<bin, tmp>>
       \/ pc = "extract" /\ (\E b \in Stopped : bin' = [bin EXCEPT ![name] = b]) /\ UNCHANGED tmp
       \/ pc = "nested" /\ tmp' = TRUE /\ UNCHANGED bin
    /\ Exit("killed", FALSE)
    /\ UNCHANGED <<platform, layout, archive>>

Next ==
    \/ Install \/ RemoveStale
    \/ OpenArchive \/ StreamFails \/ Downloaded \/ Refused \/ NeverSettles
    \/ ExpandZip \/ ExtractFlat \/ ExtractNested
    \/ RemoveArchive \/ Chmod
    \/ Kill

Spec == Init /\ [][Next]_vars

-----------------------------------------------------------------------------
Usable(n) == bin[n] = IF platform = "win32" THEN "whole" ELSE "ready"

(* What an install leaves under the name of a binary: the binary, whole and *)
(* executable, if its archive is flat, as the release workflow packs it.    *)
(* tar's path either leaves the binary or, of a nested archive, its         *)
(* directory; Windows' path promises nothing for the other layouts.        *)
Installed(n) ==
    IF platform = "win32" THEN layout[n] = "flat" => bin[n] = "whole"
                          ELSE bin[n] = "ready" \/ (bin[n] = "dir" /\ layout[n] = "nested")

(* When install() comes to its end and the script exits with 0, sqz is      *)
(* installed, whatever earlier runs were interrupted at, whether or not     *)
(* their half binary could be removed, and whichever fallback it came by.  *)
SuccessInstallsSqz == exit = "0" /\ settled => Installed("sqz")

(* No run that comes to its end leaves an archive of a binary it has tried, *)
(* not even one that an interrupted run had left: "clean up any partial     *)
(* download so a retry starts fresh".                                       *)
ArchivesAreRemoved ==
    exit \in {"0", "1"} /\ settled => \A n \in tried : archive[n] = "none"

(* The same before chmod.                                                   *)
Extracted(n) ==
    IF platform = "win32" THEN layout[n] = "flat" => bin[n] = "whole"
                          ELSE bin[n] = "whole" \/ (bin[n] = "dir" /\ layout[n] = "nested")

(* What they need to be inductive: how far the current binary is, and that  *)
(* sqz is done when sqz-mcp is begun.                                       *)
Progress ==
    /\ pc = "idle" \/ (exit = "none" /\ name \in tried /\ platform # "unsupported")
    /\ pc = "idle" /\ exit \in {"0", "1"} /\ settled => platform = "unsupported" \/ name \in tried
    /\ pc # "idle" /\ name = "mcp" => archive["sqz"] = "none" /\ Installed("sqz")
    /\ pc # "idle" /\ name = "sqz" => tried = {"sqz"}
    /\ pc \in {"nested", "chmod"} => platform # "win32"
    /\ pc \in {"unlink", "chmod"} => Extracted(name)
    /\ pc = "chmod" => archive[name] = "none"

IInv == SuccessInstallsSqz /\ ArchivesAreRemoved /\ Progress

(* "a user who only cares about shell compression should not have their     *)
(* install fail": a run that fails has failed for sqz, or an uncaught error *)
(* of the stream that writes sqz-mcp's archive has ended it, and then sqz   *)
(* is installed.                                                           *)
OnlySqzFails ==
    [][exit' = "1" /\ exit # "1" =>
          platform = "unsupported" \/ name = "sqz" \/ (~settled' /\ Installed("sqz")')]_vars

(* "sqz - the CLI (required, install fails if this is missing)": the script *)
(* exits with 0 only if sqz is there.                                       *)
SqzIsInstalled == exit = "0" => Usable("sqz")

=============================================================================
