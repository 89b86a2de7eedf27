-------------------------- MODULE NpmInstallProofs --------------------------
(***************************************************************************)
(* Proofs about NpmInstall, for every platform, layout and answer, and any *)
(* number of runs and interruptions.                                       *)
(***************************************************************************)
EXTENDS NpmInstall, TLAPS

(* npm's unpacked package is well typed and no run has begun.               *)
LEMMA InitHolds == Init => TypeOK /\ IInv
BY DEF Init, TypeOK, IInv, SuccessInstallsSqz, ArchivesAreRemoved, Progress, Extracted, Names, Installed

(* How a call goes on: the next call of installBinary or the end.           *)
LEMMA Ways ==
    /\ \A l : Goto(l) <=> pc' = l /\ UNCHANGED <<name, exit, settled, tried>>
    /\ Return <=> \/ /\ name = "sqz" /\ pc' = "stale" /\ name' = "mcp"
                     /\ tried' = tried \cup {"mcp"} /\ UNCHANGED <<exit, settled>>
                  \/ /\ name # "sqz" /\ pc' = "idle" /\ exit' = "0" /\ settled' = TRUE
                     /\ UNCHANGED <<name, tried>>
    /\ Throw <=> /\ archive' = [archive EXCEPT ![name] = "none"]
                 /\ \/ /\ name = "sqz" /\ pc' = "idle" /\ exit' = "1" /\ settled' = TRUE
                       /\ UNCHANGED <<name, tried>>
                    \/ name # "sqz" /\ Return
BY DEF Goto, Return, Throw, Begin, Exit

(* What a stopped and what a finished extraction leave.                     *)
LEMMA Leavings ==
    /\ \A b : b \in Stopped => \/ b = bin[name]
                               \/ b = "partial" /\ layout[name] = "flat"
                               \/ b = "dir" /\ layout[name] = "nested" /\ platform # "win32"
    /\ \A b : b \in Expanded => b = "whole" \/ (b = bin[name] /\ layout[name] # "flat")
BY DEF Stopped, Expanded

(* Each step of the script keeps the types.                                 *)
LEMMA TypeStep == TypeOK /\ [Next]_vars => TypeOK'
<1>. SUFFICES ASSUME TypeOK, [Next]_vars PROVE TypeOK'
  OBVIOUS
<1>. USE DEF TypeOK, disk, Names
<1>1. CASE Install
  BY <1>1 DEF Install
<1>2. CASE RemoveStale
  BY ZenonT(60), <1>2, Ways DEF RemoveStale
<1>3. CASE OpenArchive
  BY <1>3, Ways DEF OpenArchive
<1>4. CASE Downloaded
  BY <1>4, Ways DEF Downloaded
<1>5. CASE Refused
  BY <1>5, Ways DEF Refused
<1>6. CASE NeverSettles \/ StreamFails
  BY <1>6 DEF NeverSettles, StreamFails, Exit
<1>7. CASE ExpandZip
  <2>1. bin' \in [Names -> {"none", "placeholder", "partial", "whole", "ready", "dir"}]
    BY <1>7, Leavings DEF ExpandZip
  <2>2. archive' \in [Names -> {"none", "partial", "whole"}]
    BY <1>7, Ways DEF ExpandZip
  <2>3. /\ pc' \in {"idle", "stale", "unlink"} /\ name' \in Names
        /\ exit' \in {exit, "0", "1"} /\ settled' \in BOOLEAN /\ tried' \subseteq Names
    BY <1>7, Ways DEF ExpandZip
  <2>4. UNCHANGED <<platform, layout, tmp>>
    BY <1>7 DEF ExpandZip
  <2>. QED  BY <2>1, <2>2, <2>3, <2>4
<1>8. CASE ExtractFlat
  <2>1. bin' \in [Names -> {"none", "placeholder", "partial", "whole", "ready", "dir"}]
    BY <1>8, Leavings DEF ExtractFlat
  <2>. QED  BY <1>8, <2>1, Ways DEF ExtractFlat
<1>9. CASE ExtractNested
  BY ZenonT(60), <1>9, Ways DEF ExtractNested
<1>10. CASE RemoveArchive
  BY <1>10, Ways DEF RemoveArchive
<1>11. CASE Chmod
  BY <1>11, Ways DEF Chmod
<1>12. CASE Kill
  <2>1. bin' \in [Names -> {"none", "placeholder", "partial", "whole", "ready", "dir"}]
    BY <1>12, Leavings DEF Kill
  <2>. QED  BY <1>12, <2>1 DEF Kill, Exit
<1>13. CASE UNCHANGED vars
  BY <1>13 DEF vars
<1>. QED
  BY <1>1, <1>2, <1>3, <1>4, <1>5, <1>6, <1>7, <1>8, <1>9, <1>10, <1>11, <1>12, <1>13 DEF Next

(* Each step keeps what is known of the disk at its place in the script.    *)
LEMMA InvStep == TypeOK /\ IInv /\ [Next]_vars => IInv'
<1>. SUFFICES ASSUME TypeOK, IInv, [Next]_vars PROVE IInv'
  OBVIOUS
<1>. USE DEF TypeOK, disk, Names, IInv, SuccessInstallsSqz, ArchivesAreRemoved, Progress, Extracted, Installed
<1>1. CASE Install
  BY <1>1 DEF Install
<1>2. CASE RemoveStale
  BY <1>2, Ways DEF RemoveStale
<1>3. CASE OpenArchive
  BY <1>3, Ways DEF OpenArchive
<1>4. CASE Downloaded
  BY <1>4, Ways DEF Downloaded
<1>5. CASE Refused
  BY ZenonT(60), <1>5, Ways DEF Refused
<1>6. CASE NeverSettles \/ StreamFails
  BY <1>6 DEF NeverSettles, StreamFails, Exit
<1>7. CASE ExpandZip
  <2>1. CASE Goto("unlink")
    <3>1. PICK b : (b = "whole" \/ (b = bin[name] /\ layout[name] # "flat"))
                   /\ bin' = [bin EXCEPT ![name] = b]
      BY <1>7, <2>1, Leavings, Ways DEF ExpandZip
    <3>2. layout[name] = "flat" => bin'[name] = "whole"
      BY <3>1
    <3>. QED  BY <1>7, <2>1, <3>1, <3>2, Ways DEF ExpandZip
  <2>2. CASE Throw
    <3>1. PICK b : bin' = [bin EXCEPT ![name] = b]
      BY <1>7, <2>2, Ways DEF ExpandZip
    <3>. QED  BY ZenonT(60), <1>7, <2>2, <3>1, Ways DEF ExpandZip
  <2>. QED  BY <1>7, <2>1, <2>2 DEF ExpandZip
<1>8. CASE ExtractFlat
  <2>1. CASE Goto("unlink")
    <3>1. /\ layout[name] # "other"
          /\ bin' = [bin EXCEPT ![name] = IF layout[name] = "flat" THEN "whole" ELSE "dir"]
      BY <1>8, <2>1, Ways DEF ExtractFlat
    <3>2. layout[name] \in {"flat", "nested"}
      BY <3>1, LayoutsAssumption
    <3>. QED  BY <1>8, <2>1, <3>1, <3>2, Ways DEF ExtractFlat
  <2>2. CASE Goto("nested")
    <3>1. PICK b : bin' = [bin EXCEPT ![name] = b]
      BY <1>8, <2>2, Ways DEF ExtractFlat
    <3>. QED  BY <1>8, <2>2, <3>1, Ways DEF ExtractFlat
  <2>. QED  BY <1>8, <2>1, <2>2 DEF ExtractFlat
<1>9. CASE ExtractNested
  BY ZenonT(60), <1>9, Ways DEF ExtractNested
<1>10. CASE RemoveArchive
  BY <1>10, Ways DEF RemoveArchive
<1>11. CASE Chmod
  BY <1>11, Ways DEF Chmod
<1>12. CASE Kill
  BY <1>12, Leavings DEF Kill, Exit
<1>13. CASE UNCHANGED vars
  BY <1>13 DEF vars
<1>. QED
  BY <1>1, <1>2, <1>3, <1>4, <1>5, <1>6, <1>7, <1>8, <1>9, <1>10, <1>11, <1>12, <1>13 DEF Next

(* A step ends the script with 1 on an unsupported platform, in the call for *)
(* sqz, or by the uncaught error of a stream once sqz is installed.         *)
LEMMA FailStep ==
    TypeOK /\ IInv /\ [Next]_vars =>
        (exit' = "1" /\ exit # "1" =>
            platform = "unsupported" \/ name = "sqz" \/ (~settled' /\ Installed("sqz")'))
<1>. SUFFICES ASSUME TypeOK, IInv, [Next]_vars, exit' = "1", exit # "1", name # "sqz",
                     platform # "unsupported"
              PROVE  ~settled' /\ Installed("sqz")'
  OBVIOUS
<1>1. CASE StreamFails
  <2>1. pc # "idle" /\ name = "mcp"
    BY <1>1 DEF StreamFails, TypeOK, Names
  <2>2. Installed("sqz")
    BY <2>1 DEF IInv, Progress
  <2>. QED  BY <1>1, <2>2 DEF StreamFails, Exit, Installed, disk
<1>2. CASE Install
  BY <1>2 DEF Install
<1>3. CASE RemoveStale \/ OpenArchive \/ Downloaded \/ Refused
  BY <1>3, Ways DEF RemoveStale, OpenArchive, Downloaded, Refused
<1>4. CASE ExpandZip \/ ExtractFlat \/ ExtractNested \/ RemoveArchive \/ Chmod
  BY <1>4, Ways DEF ExpandZip, ExtractFlat, ExtractNested, RemoveArchive, Chmod
<1>5. CASE NeverSettles \/ Kill \/ UNCHANGED vars
  BY <1>5 DEF NeverSettles, Kill, Exit, vars
<1>. QED  BY <1>1, <1>2, <1>3, <1>4, <1>5 DEF Next

-----------------------------------------------------------------------------
(* The variables keep their types.                                          *)
THEOREM TypeCorrect == Spec => []TypeOK
<1>1. Init => TypeOK
  BY InitHolds
<1>. QED  BY <1>1, TypeStep, PTL DEF Spec

(* A script that comes to its end with 0 has installed sqz, in the sense of *)
(* Installed, and no script that comes to its end leaves an archive behind. *)
THEOREM InvCorrect == Spec => []IInv
<1>. QED  BY InitHolds, TypeStep, InvStep, PTL DEF Spec

(* A run fails for sqz alone, or by the uncaught error of the stream that    *)
(* writes the archive of sqz-mcp, which finds sqz installed.                *)
THEOREM OnlySqzFailsCorrect == Spec => OnlySqzFails
<1>1. TypeOK /\ IInv /\ [Next]_vars =>
          [exit' = "1" /\ exit # "1" =>
              platform = "unsupported" \/ name = "sqz" \/ (~settled' /\ Installed("sqz")')]_vars
  BY FailStep
<1>. QED  BY <1>1, TypeCorrect, InvCorrect, PTL DEF Spec, OnlySqzFails

=============================================================================
