------------------------- MODULE DedupCacheSerial -------------------------
(***************************************************************************)
(* Proofs about DedupCache used one request at a time, with the constants  *)
(* of PlainCli: nothing is stamped that is not sent, so that no ref        *)
(* dangles, and the cache implements PerfectCache.                         *)
(*                                                                         *)
(* SerialSpec takes steps of Spec, so the invariant of DedupCacheSafety is *)
(* there to be used: a fresh stamp is one of a covered content, and with   *)
(* nothing unbacked and no other request under way, covered means that the *)
(* model has the content.                                                  *)
(***************************************************************************)
EXTENDS DedupCacheSafety

USE DEF Procs, Notifiers, store, locals, notifier, ghosts

-----------------------------------------------------------------------------
(* The serial system is the system.                                         *)

(* A step of the serial system is a step that Next allows.                  *)
LEMMA SerialIsNext == [SerialNext]_vars => [Next]_vars
BY DEF SerialNext, Next

(* Both invariants together.                                                *)
PInv == BInv /\ SerialInv

(* Nothing is stamped, sent or under way at first.                          *)
LEMMA SerialInit == Init => SerialInv
BY DEF Init, SerialInv, OneActivity, OneAtATime, PlainRequests, StampsPrecede, NothingUnbacked

-----------------------------------------------------------------------------
(* One request at a time.                                                   *)

(* What the step of one request leaves to the others.                       *)
OnlyStep(p) ==
    /\ UNCHANGED <<marker, now, notifier, rpc>>
    /\ \A q \in Procs \ {p} :
          /\ pc'[q] = pc[q] /\ cur'[q] = cur[q] /\ want'[q] = want[q]
          /\ deps'[q] = deps[q] /\ base'[q] = base[q]

(* While a request is under way, nothing else is.                           *)
LEMMA Alone ==
    ASSUME SerialInv, NEW p \in Procs, pc[p] # "idle"
    PROVE  /\ \A q \in Procs \ {p} : pc[q] = "idle"
           /\ \A n \in Notifiers : npc[n] = "idle"
           /\ rpc = "idle"
BY DEF SerialInv, OneActivity, OneAtATime

(* A request that moves alone, to a step that it may be at, keeps           *)
(* SerialInv.                                                              *)
LEMMA RequestKeeps ==
    ASSUME SerialInv, NEW p \in Procs, OnlyStep(p), context \subseteq context', unbacked' = {},
           \A q \in Procs \ {p} : pc[q] = "idle",
           \A n \in Notifiers : npc[n] = "idle",
           rpc = "idle",
           pc'[p] \in {"idle", "deps", "accessed", "marker", "touch", "ref", "compress",
                       "save", "sent", "reply", "unstored", "lookup", "found"},
           pc'[p] \notin {"idle", "deps"} => cur'[p] = want'[p],
           deps'[p] = {}, base'[p] = None,
           pc'[p] \in {"touch", "ref"} => want'[p] \in context'
    PROVE  SerialInv'
<1>1. OneActivity'  BY DEF OnlyStep, OneActivity, OneAtATime
<1>2. PlainRequests'  BY DEF OnlyStep, SerialInv, PlainRequests
<1>3. StampsPrecede'  BY DEF OnlyStep, StampsPrecede
<1> QED  BY <1>1, <1>2, <1>3 DEF SerialInv, NothingUnbacked

(* A request that goes on.                                                  *)
LEMMA GotoOnly ==
    ASSUME TInv, NEW p \in Procs, NEW l, Goto(p, l), UNCHANGED <<marker, now, notifier, rpc>>,
           UNCHANGED <<cur, want, deps, base>>
    PROVE  OnlyStep(p) /\ pc'[p] = l
BY DEF TInv, TypeOK, OnlyStep, Goto

(* A request that ends.                                                     *)
LEMMA IdleOnly ==
    ASSUME TInv, NEW p \in Procs, Idle(p), UNCHANGED <<marker, now, notifier, rpc>>
    PROVE  OnlyStep(p) /\ pc'[p] = "idle" /\ deps'[p] = {} /\ base'[p] = None
BY DEF TInv, TypeOK, OnlyStep, Idle, Goto

(* The statement at which a ref is decided on: the model has the content.   *)
LEMMA FreshIsSeen ==
    ASSUME PInv, NEW p \in Procs, pc[p] = "marker", Fresh(seen[p])
    PROVE  want[p] \in context
<1>1. want[p] \in Content /\ cur[p] = want[p] /\ seen[p] # 0
  BY DEF PInv, BInv, TInv, LocalsConsistent, SerialInv, PlainRequests
<1>2. seen[p] \in Stamps(want[p])  BY <1>1 DEF Stamps
<1>3. Covered(want[p])  BY <1>1, <1>2 DEF PInv, BInv, Backed
<1>4. \A q \in Procs : ~InFlight(q)
  <2>1. \A q \in Procs \ {p} : pc[q] = "idle"  BY Alone DEF PInv
  <2> QED  BY <2>1 DEF InFlight
<1> QED  BY <1>3, <1>4 DEF Covered, Pending, PInv, SerialInv, NothingUnbacked

(* A request that begins keeps the invariant.                               *)
LEMMA StartKeeps ==
    ASSUME PlainCli, PInv, NEW p \in Procs, Quiet, Start(p)
    PROVE  SerialInv'
<1>1. /\ \A q \in Procs : pc[q] = "idle"
      /\ \A n \in Notifiers : npc[n] = "idle"
      /\ rpc = "idle" /\ unbacked = {}
  BY DEF Quiet, PInv, SerialInv, NothingUnbacked
<1>2. deps[p] = {} /\ base[p] = None  BY DEF PInv, SerialInv, PlainRequests
<1>3. PICK c \in Content : \/ \E tracked \in BOOLEAN : StartCompress(p, c, tracked)
                          \/ StartExpand(p, c)
  BY DEF Start, StartCall, PlainCli
<1>4. TypeOK /\ SerialInv  BY DEF PInv, BInv, TInv
<1>5. CASE StartExpand(p, c)
  <2>1. OnlyStep(p) /\ pc'[p] = "lookup" /\ cur'[p] = want'[p] /\ deps'[p] = {} /\ base'[p] = None
    BY <1>2, <1>4, <1>5 DEF StartExpand, TypeOK, OnlyStep, Goto
  <2>2. UNCHANGED <<context, unbacked>>  BY <1>5 DEF StartExpand
  <2> QED  BY <1>1, <1>4, <2>1, <2>2, RequestKeeps
<1>6. ASSUME NEW tracked \in BOOLEAN, StartCompress(p, c, tracked) PROVE SerialInv'
  <2>1. deps'[p] = {}
    BY <1>4, <1>6 DEF StartCompress, TypeOK, PlainCli
  <2>2. OnlyStep(p) /\ pc'[p] = "deps" /\ base'[p] = None
    BY <1>2, <1>4, <1>6 DEF StartCompress, TypeOK, OnlyStep, Goto
  <2>3. UNCHANGED <<context, unbacked>>  BY <1>6 DEF StartCompress
  <2> QED  BY <1>1, <1>4, <2>1, <2>2, <2>3, RequestKeeps
<1> QED  BY <1>3, <1>5, <1>6

(* The statements of a request that a serial system reaches.                *)
LEMMA PlainWork ==
    ASSUME PlainCli, PInv, NEW p \in Procs, Work(p)
    PROVE  \/ DependenciesDone(p) \/ ReadAccessed(p) \/ ReadMarker(p) \/ TouchRef(p) \/ SendRef(p)
           \/ Compress(p) \/ CompressUnstored(p) \/ Save(p) \/ RecordSent(p) \/ SendFull(p)
           \/ Lookup(p) \/ LookupTouch(p)
<1>1. /\ pc[p] \in {"idle", "deps", "accessed", "marker", "touch", "ref", "compress",
                    "save", "sent", "reply", "unstored", "lookup", "found"}
      /\ deps[p] = {}
  BY DEF PInv, SerialInv, PlainRequests
<1>2. ~NextDependency(p)  BY <1>1 DEF NextDependency
<1>3. ~Exists(p) /\ ~ListRecent(p) /\ ~Probe(p) /\ ~ProbeTouch(p) /\ ~Recompress(p) /\ ~Resend(p)
      /\ ~SendDelta(p)
  BY <1>1 DEF Exists, ListRecent, Probe, ProbeTouch, Recompress, Resend, SendDelta
<1>4. ~Discard(p)  BY DEF Discard, PlainCli
<1> QED  BY <1>2, <1>3, <1>4 DEF Work

(* The effect of such a statement on the request: where it goes, and that   *)
(* it stamps for its own content only.                                     *)
LEMMA WorkKeeps ==
    ASSUME PlainCli, PInv, NEW p \in Procs, Work(p)
    PROVE  SerialInv'
<1>1. TInv /\ SerialInv /\ unbacked = {} /\ p \notin Servers
  BY DEF PInv, BInv, SerialInv, NothingUnbacked, PlainCli
<1>2. PlainRequests  BY <1>1 DEF SerialInv
<1>3. pc[p] # "idle"
  <2>1. CASE pc[p] = "idle"
    BY <2>1, PlainWork DEF DependenciesDone, ReadAccessed, ReadMarker, TouchRef, SendRef, Compress,
       CompressUnstored, Save, RecordSent, SendFull, Lookup, LookupTouch
  <2> QED  BY <2>1
<1>4. /\ \A q \in Procs \ {p} : pc[q] = "idle"
      /\ \A n \in Notifiers : npc[n] = "idle"
      /\ rpc = "idle"
  BY <1>1, <1>3, Alone
<1>5. deps[p] = {} /\ base[p] = None /\ (pc[p] # "deps" => cur[p] = want[p])
  BY <1>2, <1>3 DEF PlainRequests
<1>6. ASSUME Idle(p), UNCHANGED <<marker, now, notifier, rpc>>, context \subseteq context', unbacked' = {}
      PROVE  SerialInv'
  <2>1. OnlyStep(p) /\ pc'[p] = "idle" /\ deps'[p] = {} /\ base'[p] = None
    BY <1>1, <1>6, IdleOnly
  <2> QED  BY <1>1, <1>4, <1>6, <2>1, RequestKeeps
<1>7. ASSUME NEW l \in {"marker", "touch", "ref", "compress", "save", "sent", "reply", "unstored", "found"},
             pc[p] # "deps", Goto(p, l), UNCHANGED <<marker, now, notifier, rpc>>,
             UNCHANGED <<cur, want, deps, base, context>>, unbacked' = {},
             l \in {"touch", "ref"} => want[p] \in context
      PROVE  SerialInv'
  <2>1. OnlyStep(p) /\ pc'[p] = l
    BY <1>1, <1>7, GotoOnly
  <2> QED  BY <1>1, <1>4, <1>5, <1>7, <2>1, RequestKeeps
<1>8. CASE DependenciesDone(p)
  <2>1. PICK l \in {"compress", "accessed"} : Goto(p, l)
    BY <1>8 DEF DependenciesDone
  <2>2. OnlyStep(p) /\ pc'[p] = l /\ cur'[p] = want'[p] /\ deps'[p] = {} /\ base'[p] = None
    BY <1>1, <1>5, <1>8, <2>1 DEF DependenciesDone, TInv, TypeOK, OnlyStep, Goto
  <2> QED  BY <1>1, <1>4, <1>8, <2>2, RequestKeeps DEF DependenciesDone
<1>9. CASE ReadAccessed(p)
  <2>1. NotFresh(p) = "compress"  BY <1>1 DEF NotFresh
  <2> QED  BY <1>1, <1>7, <1>9, <2>1 DEF ReadAccessed
<1>10. CASE ReadMarker(p)
  <2>1. NotFresh(p) = "compress"  BY <1>1 DEF NotFresh
  <2>2. CASE Fresh(seen[p])
    BY <1>1, <1>7, <1>10, <2>2, FreshIsSeen DEF ReadMarker
  <2>3. CASE ~Fresh(seen[p])
    BY <1>1, <1>7, <1>10, <2>1, <2>3 DEF ReadMarker
  <2> QED  BY <2>2, <2>3
<1>11. CASE TouchRef(p)
  <2>1. ~Precaching(p)  BY <1>5, <1>11 DEF Precaching, TouchRef
  <2>2. want[p] \in context  BY <1>2, <1>11 DEF PlainRequests, TouchRef
  <2> QED  BY <1>1, <1>7, <1>11, <2>1, <2>2 DEF TouchRef
<1>12. CASE SendRef(p)
  <2>1. RefRenews /\ want[p] \in context  BY <1>2, <1>12 DEF PlainRequests, SendRef, PlainCli
  <2> QED  BY <1>1, <1>6, <1>12, <2>1 DEF SendRef
<1>13. CASE Compress(p)
  BY <1>1, <1>7, <1>13 DEF Compress
<1>14. CASE CompressUnstored(p)
  <2>1. ~Precaching(p)  BY <1>5, <1>14 DEF Precaching, CompressUnstored
  <2> QED  BY <1>1, <1>7, <1>14, <2>1 DEF CompressUnstored
<1>15. CASE Save(p)
  <2>1. ~Precaching(p)  BY <1>5, <1>15 DEF Precaching, Save
  <2> QED  BY <1>1, <1>7, <1>15, <2>1 DEF Save
<1>16. CASE RecordSent(p)
  <2>1. ~Precaching(p)  BY <1>5, <1>16 DEF Precaching, RecordSent
  <2> QED  BY <1>1, <1>5, <1>7, <1>16, <2>1 DEF RecordSent
<1>17. CASE SendFull(p)
  BY <1>1, <1>6, <1>17 DEF SendFull, Deliver
<1>18. CASE Lookup(p)
  <2>1. CASE Idle(p)  BY <1>1, <1>6, <1>18, <2>1 DEF Lookup
  <2>2. CASE ~Idle(p)  BY <1>1, <1>7, <1>18, <2>2 DEF Lookup
  <2> QED  BY <2>1, <2>2
<1>19. CASE LookupTouch(p)
  BY <1>1, <1>7, <1>19 DEF LookupTouch
<1> QED
  BY <1>8, <1>9, <1>10, <1>11, <1>12, <1>13, <1>14, <1>15, <1>16, <1>17, <1>18, <1>19, PlainWork

-----------------------------------------------------------------------------
(* Notifiers, resets, the clock and the window.                             *)

(* With no request under way, a stamp is that of a row.                     *)
LEMMA QuietStamps ==
    ASSUME \A p \in Procs : pc[p] = "idle", NEW c \in Content
    PROVE  Stamps(c) = {accessedAt[c]}
BY DEF Stamps

(* Every step that is no request's keeps the invariant.                     *)
LEMMA OutsideKeeps ==
    ASSUME PInv,
           \/ \E n \in Notifiers : (Quiet /\ ReadClock(n)) \/ WriteMarker(n) \/ HostCompacts(n)
           \/ Quiet /\ DeleteRows
           \/ DeleteMarker
           \/ Tick
           \/ Quiet /\ \E c \in Content : RollOver(c)
           \/ UNCHANGED vars
    PROVE  SerialInv'
<1> USE DEF SerialInv, OneActivity, OneAtATime, PlainRequests, StampsPrecede, NothingUnbacked
<1>1. TypeOK /\ ClockAhead /\ SerialInv  BY DEF PInv, BInv, TInv
<1>2. ASSUME NEW n \in Notifiers, Quiet, ReadClock(n) PROVE SerialInv'
  <2>1. marker <= now + 1 /\ \A c \in Content : accessedAt[c] < now + 1
    BY <1>1 DEF ClockAhead, TypeOK
  <2>2. StampsPrecede'
    BY <1>1, <1>2, <2>1 DEF ReadClock, Quiet, TypeOK
  <2> QED  BY <1>1, <1>2, <2>2 DEF ReadClock, Quiet, TypeOK
<1>3. ASSUME NEW n \in Notifiers, WriteMarker(n) PROVE SerialInv'
  <2>1. npc[n] = "write" /\ \A m \in Notifiers \ {n} : npc[m] = "idle"
    BY <1>1, <1>3 DEF WriteMarker
  <2>2. Unstaled(stamp[n]) = {}
    <3>1. \A c \in Content : \A a \in Stamps(c) : a < stamp[n]
      BY <1>1, <2>1, QuietStamps
    <3> QED  BY <3>1 DEF Unstaled
  <2>3. \A m \in Notifiers \ {n} : npc'[m] = "idle"
    BY <1>3, <2>1 DEF WriteMarker, Lost
  <2>4. npc'[n] \in {"compact", "idle"}
    BY <1>3 DEF WriteMarker, Lost
  <2>5. StampsPrecede'
    BY <1>1, <1>3, <2>1, <2>3, <2>4 DEF WriteMarker, TypeOK
  <2>6. OneActivity' /\ PlainRequests'
    BY <1>1, <1>3, <2>1, <2>3, <2>4 DEF WriteMarker
  <2>7. NothingUnbacked'  BY <1>1, <1>3, <2>2 DEF WriteMarker
  <2> QED  BY <2>5, <2>6, <2>7
<1>4. ASSUME NEW n \in Notifiers, HostCompacts(n) PROVE SerialInv'
  <2>1. npc[n] = "compact" /\ \A p \in Procs : pc[p] = "idle"
    BY <1>1, <1>4 DEF HostCompacts
  <2>2. \A c \in Content : \A a \in Stamps(c) : ~(a >= stamp[n])
    <3> SUFFICES ASSUME NEW c \in Content PROVE ~(accessedAt[c] >= stamp[n])
      BY <2>1, QuietStamps
    <3>1. accessedAt[c] < stamp[n]  BY <1>1, <2>1
    <3>2. accessedAt[c] \in Nat /\ stamp[n] \in Nat  BY <1>1 DEF TypeOK
    <3> QED  BY <3>1, <3>2
  <2>3. unbacked' = {}
    BY <1>1, <1>4, <2>1, <2>2 DEF HostCompacts, TypeOK
  <2>4. StampsPrecede'
    BY <1>1, <1>4, <2>1 DEF HostCompacts, TypeOK
  <2> QED  BY <1>1, <1>4, <2>1, <2>3, <2>4 DEF HostCompacts, TypeOK
<1>5. CASE Quiet /\ DeleteRows
  BY <1>1, <1>5 DEF DeleteRows, Quiet, TypeOK
<1>6. CASE DeleteMarker
  <2>1. /\ \A p \in Procs : pc[p] = "idle"
        /\ \A n \in Notifiers : npc[n] = "idle"
        /\ \A c \in Content : accessedAt[c] = 0
    BY <1>1, <1>6 DEF DeleteMarker
  <2>2. Unstaled(0) = {}  BY <2>1, QuietStamps DEF Unstaled
  <2>3. \A n \in Notifiers : npc'[n] = "idle"  BY <1>6, <2>1 DEF DeleteMarker, Lost
  <2> QED  BY <1>1, <1>6, <2>1, <2>2, <2>3 DEF DeleteMarker
<1>7. CASE Tick
  BY <1>1, <1>7 DEF Tick
<1>8. CASE Quiet /\ \E c \in Content : RollOver(c)
  BY <1>1, <1>8 DEF RollOver, Quiet
<1>9. CASE UNCHANGED vars
  BY <1>1, <1>9 DEF vars
<1> QED  BY <1>2, <1>3, <1>4, <1>5, <1>6, <1>7, <1>8, <1>9

(* Every step of the serial system keeps both invariants.                   *)
LEMMA SerialStep ==
    ASSUME PlainCli, PInv, [SerialNext]_vars
    PROVE  PInv'
<1>1. BInv'  BY SerialIsNext, SafetyStep DEF PInv
<1>2. SerialInv'  BY StartKeeps, WorkKeeps, OutsideKeeps DEF SerialNext
<1> QED  BY <1>1, <1>2 DEF PInv

(* Used one request at a time, and with the constants of PlainCli, nothing  *)
(* is stamped that the model does not get.                                  *)
THEOREM SerialCorrect == ASSUME PlainCli PROVE SerialSpec => []SerialInv
<1>1. Init => PInv  BY SafetyInit, SerialInit DEF PInv
<1>2. PInv /\ [SerialNext]_vars => PInv'  BY SerialStep
<1>3. PInv => SerialInv  BY DEF PInv
<1> QED  BY <1>1, <1>2, <1>3, PTL DEF SerialSpec

-----------------------------------------------------------------------------
(* The refinement mapping.                                                  *)

(* The abstract state while p's request is under way, and without one.      *)
LEMMA ServingOne ==
    ASSUME SerialInv, NEW p \in Procs, pc[p] # "idle"
    PROVE  Serving = want[p] /\ Answer = IF pc[p] \in {"touch", "ref"} THEN "ref" ELSE "open"
<1>1. Active = {p}
  <2>1. \A q \in Procs \ {p} : pc[q] = "idle"  BY Alone
  <2> QED  BY <2>1 DEF Active
<1>2. pc[p] \in {"touch", "ref"} => ~Precaching(p)
  BY DEF SerialInv, PlainRequests, Precaching
<1>3. (CHOOSE q \in Active : TRUE) = p  BY <1>1
<1>4. Serving = want[p]  BY <1>1, <1>3 DEF Serving
<1>5. Decided = IF pc[p] \in {"touch", "ref"} THEN {p} ELSE {}  BY <1>1, <1>2 DEF Decided
<1> QED  BY <1>4, <1>5 DEF Answer

(* Without a request under way, the abstract system serves none.            *)
LEMMA ServingNone ==
    ASSUME \A p \in Procs : pc[p] = "idle"
    PROVE  Serving = None /\ Answer = "open"
BY DEF Serving, Answer, Active, Decided

(* The same after a step.                                                   *)
LEMMA ServingOneNext ==
    ASSUME SerialInv', NEW p \in Procs, pc'[p] # "idle"
    PROVE  Serving' = want'[p] /\ Answer' = IF pc'[p] \in {"touch", "ref"} THEN "ref" ELSE "open"
<1>1. Active' = {p}
  BY DEF SerialInv, OneActivity, OneAtATime, Active
<1>2. pc'[p] \in {"touch", "ref"} => cur'[p] = want'[p]
  BY DEF SerialInv, PlainRequests
<1>3. (CHOOSE q \in Active' : TRUE) = p  BY <1>1
<1>4. Serving' = want'[p]  BY <1>1, <1>3 DEF Serving
<1>5. Decided' = IF pc'[p] \in {"touch", "ref"} THEN {p} ELSE {}
  BY <1>1, <1>2 DEF Decided, Precaching
<1> QED  BY <1>4, <1>5 DEF Answer

(* And so after a step.                                                     *)
LEMMA ServingNoneNext ==
    ASSUME \A p \in Procs : pc'[p] = "idle"
    PROVE  Serving' = None /\ Answer' = "open"
BY DEF Serving, Answer, Active, Decided

(* A request that begins is asked for.                                      *)
LEMMA StartAsks ==
    ASSUME PlainCli, PInv, SerialInv', NEW p \in Procs, Quiet, Start(p)
    PROVE  \E c \in Content : Perfect!Ask(c)
<1>1. PICK c \in Content : \/ \E tracked \in BOOLEAN : StartCompress(p, c, tracked)
                          \/ StartExpand(p, c)
  BY DEF Start, StartCall, PlainCli
<1>2. TypeOK  BY DEF PInv, BInv, TInv
<1>3. pc'[p] \in {"deps", "lookup"} /\ want'[p] = c /\ context' = context
  BY <1>1, <1>2 DEF TypeOK, StartCompress, StartExpand, Goto
<1>4. Serving = None /\ Answer = "open"  BY ServingNone DEF Quiet
<1>5. Serving' = c /\ Answer' = "open"  BY <1>3, ServingOneNext
<1> QED  BY <1>3, <1>4, <1>5 DEF Perfect!Ask

(* Every statement of a request is a step of PerfectCache, or none.         *)
LEMMA WorkImplements ==
    ASSUME PlainCli, PInv, SerialInv', NEW p \in Procs, Work(p)
    PROVE  \/ Perfect!ChooseRef \/ Perfect!SendRef \/ Perfect!SendFull \/ Perfect!SendNothing
           \/ UNCHANGED <<context, Serving, Answer>>
<1>1. TInv /\ TypeOK /\ SerialInv /\ PlainRequests /\ p \notin Servers
  BY DEF PInv, BInv, TInv, SerialInv, PlainCli
<1>2. pc[p] # "idle"
  <2>1. CASE pc[p] = "idle"
    BY <2>1, PlainWork DEF DependenciesDone, ReadAccessed, ReadMarker, TouchRef, SendRef, Compress,
       CompressUnstored, Save, RecordSent, SendFull, Lookup, LookupTouch
  <2> QED  BY <2>1
<1>3. /\ Serving = want[p]
      /\ Answer = IF pc[p] \in {"touch", "ref"} THEN "ref" ELSE "open"
  BY <1>1, <1>2, ServingOne
<1>4. Serving # None
  BY <1>1, <1>2, <1>3, NoneAssumption DEF TInv, LocalsConsistent
<1>5. ASSUME Idle(p) PROVE Serving' = None /\ Answer' = "open"
  <2>1. \A q \in Procs \ {p} : pc[q] = "idle"  BY <1>1, <1>2, Alone
  <2>2. \A q \in Procs : pc'[q] = "idle"  BY <1>1, <1>5, <2>1 DEF TypeOK, Idle, Goto
  <2> QED  BY <2>2, ServingNoneNext
<1>6. ASSUME NEW l, l # "idle", Goto(p, l), want' = want
      PROVE  Serving' = want[p] /\ Answer' = IF l \in {"touch", "ref"} THEN "ref" ELSE "open"
  <2>1. pc'[p] = l  BY <1>1, <1>6 DEF TypeOK, Goto
  <2> QED  BY <1>6, <2>1, ServingOneNext
<1>7. ASSUME NEW l \in {"accessed", "marker", "compress", "save", "sent", "reply", "unstored", "found"},
             Goto(p, l), want' = want, context' = context, pc[p] \notin {"touch", "ref"}
      PROVE  UNCHANGED <<context, Serving, Answer>>
  BY <1>3, <1>6, <1>7
<1>8. CASE DependenciesDone(p)
  <2>1. PICK l \in {"compress", "accessed"} : Goto(p, l)
    BY <1>8 DEF DependenciesDone
  <2> QED  BY <1>7, <1>8, <2>1 DEF DependenciesDone
<1>9. CASE ReadAccessed(p)
  <2>1. NotFresh(p) = "compress"  BY <1>1 DEF NotFresh
  <2> QED  BY <1>7, <1>9, <2>1 DEF ReadAccessed
<1>10. CASE ReadMarker(p)
  <2>1. NotFresh(p) = "compress"  BY <1>1 DEF NotFresh
  <2>2. CASE Fresh(seen[p])
    <3>1. Serving \in context /\ Answer = "open"
      BY <1>3, <1>10, <2>2, FreshIsSeen DEF ReadMarker
    <3>2. Serving' = Serving /\ Answer' = "ref" /\ context' = context
      BY <1>3, <1>6, <1>10, <2>2 DEF ReadMarker
    <3> QED  BY <3>1, <3>2 DEF Perfect!ChooseRef
  <2>3. CASE ~Fresh(seen[p])
    BY <1>7, <1>10, <2>1, <2>3 DEF ReadMarker
  <2> QED  BY <2>2, <2>3
<1>11. CASE TouchRef(p)
  <2>1. ~Precaching(p)  BY <1>1, <1>11 DEF Precaching, TouchRef, PlainRequests
  <2> QED  BY <1>3, <1>6, <1>11, <2>1 DEF TouchRef
<1>12. CASE SendRef(p)
  <2>1. Answer = "ref" /\ context' = context  BY <1>3, <1>12 DEF SendRef
  <2>2. Serving' = None /\ Answer' = "open"  BY <1>5, <1>12 DEF SendRef
  <2> QED  BY <2>1, <2>2 DEF Perfect!SendRef
<1>13. CASE Compress(p)
  BY <1>7, <1>13 DEF Compress
<1>14. CASE CompressUnstored(p)
  <2>1. ~Precaching(p)  BY <1>1, <1>14 DEF Precaching, CompressUnstored, PlainRequests
  <2> QED  BY <1>1, <1>7, <1>14, <2>1 DEF CompressUnstored
<1>15. CASE Save(p)
  BY <1>7, <1>15 DEF Save
<1>16. CASE RecordSent(p)
  <2>1. ~Precaching(p) /\ base[p] = None
    BY <1>1, <1>16 DEF Precaching, RecordSent, PlainRequests
  <2> QED  BY <1>7, <1>16, <2>1 DEF RecordSent
<1>17. CASE SendFull(p)
  <2>1. Answer = "open" /\ context' = context \cup {Serving}
    BY <1>3, <1>17 DEF SendFull, Deliver
  <2>2. Serving' = None /\ Answer' = "open"  BY <1>5, <1>17 DEF SendFull
  <2> QED  BY <1>4, <2>1, <2>2 DEF Perfect!SendFull
<1>18. CASE Lookup(p)
  <2>1. CASE Idle(p)
    <3>1. Answer = "open" /\ context' = context  BY <1>3, <1>18 DEF Lookup
    <3>2. Serving' = None /\ Answer' = "open"  BY <1>5, <2>1
    <3> QED  BY <1>4, <3>1, <3>2 DEF Perfect!SendNothing
  <2>2. CASE ~Idle(p)
    BY <1>7, <1>18, <2>2 DEF Lookup
  <2> QED  BY <2>1, <2>2
<1>19. CASE LookupTouch(p)
  BY <1>7, <1>19 DEF LookupTouch
<1> QED
  BY <1>8, <1>9, <1>10, <1>11, <1>12, <1>13, <1>14, <1>15, <1>16, <1>17, <1>18, <1>19, PlainWork

(* The steps that are no request's: the model forgets, or nothing happens.  *)
LEMMA OutsideImplements ==
    ASSUME PInv,
           \/ \E n \in Notifiers : (Quiet /\ ReadClock(n)) \/ WriteMarker(n) \/ HostCompacts(n)
           \/ Quiet /\ DeleteRows
           \/ DeleteMarker
           \/ Tick
           \/ Quiet /\ \E c \in Content : RollOver(c)
           \/ UNCHANGED vars
    PROVE  Perfect!Forget \/ UNCHANGED <<context, Serving, Answer>>
<1>1. SerialInv  BY DEF PInv
<1>2. ASSUME UNCHANGED <<pc, want, cur>> PROVE UNCHANGED <<Serving, Answer>>
  BY <1>2 DEF Serving, Answer, Active, Decided, Precaching
<1>3. ASSUME NEW n \in Notifiers, HostCompacts(n) PROVE Perfect!Forget
  <2>1. \A p \in Procs : pc[p] = "idle"
    BY <1>1, <1>3 DEF HostCompacts, SerialInv, OneActivity
  <2>2. Serving = None /\ UNCHANGED <<Serving, Answer>>
    BY <1>2, <1>3, <2>1, ServingNone DEF HostCompacts
  <2> QED  BY <1>3, <2>2 DEF HostCompacts, Perfect!Forget
<1>4. ASSUME NEW c \in Content, Quiet, RollOver(c) PROVE Perfect!Forget
  <2>1. Serving = None /\ UNCHANGED <<Serving, Answer>>
    BY <1>2, <1>4, ServingNone DEF RollOver, Quiet
  <2> QED  BY <1>4, <2>1 DEF RollOver, Perfect!Forget
<1>5. CASE \/ \E n \in Notifiers : ReadClock(n) \/ WriteMarker(n)
           \/ DeleteRows \/ DeleteMarker \/ Tick \/ UNCHANGED vars
  <2>1. UNCHANGED <<pc, want, cur, context>>
    BY <1>5 DEF ReadClock, WriteMarker, DeleteRows, DeleteMarker, Tick, vars
  <2> QED  BY <1>2, <2>1
<1> QED  BY <1>3, <1>4, <1>5

(* Used one request at a time, the cache sends again what the model has     *)
(* lost: every behaviour of the code is one of PerfectCache.               *)
THEOREM PerfectCorrect == ASSUME PlainCli PROVE SerialSpec => ImplementsPerfectCache
<1>1. Init => PInv  BY SafetyInit, SerialInit DEF PInv
<1>2. Init => Perfect!Init
  <2> SUFFICES ASSUME Init PROVE Perfect!Init
    OBVIOUS
  <2>1. context = {} /\ \A p \in Procs : pc[p] = "idle"  BY DEF Init
  <2> QED  BY <2>1, ServingNone DEF Perfect!Init
<1>3. PInv /\ [SerialNext]_vars => PInv'  BY SerialStep
<1>4. ASSUME PInv, PInv', [SerialNext]_vars PROVE [Perfect!Next]_Perfect!vars
  <2>1. SerialInv'  BY <1>4 DEF PInv
  <2>2. ASSUME NEW p \in Procs, Quiet, Start(p) PROVE Perfect!Next
    BY <1>4, <2>1, <2>2, StartAsks DEF Perfect!Next
  <2>3. ASSUME NEW p \in Procs, Work(p) PROVE [Perfect!Next]_Perfect!vars
    BY <1>4, <2>1, <2>3, WorkImplements DEF Perfect!Next, Perfect!vars
  <2>4. CASE \/ \E n \in Notifiers : (Quiet /\ ReadClock(n)) \/ WriteMarker(n) \/ HostCompacts(n)
             \/ Quiet /\ DeleteRows
             \/ DeleteMarker
             \/ Tick
             \/ Quiet /\ \E c \in Content : RollOver(c)
             \/ UNCHANGED vars
    BY <1>4, <2>4, OutsideImplements DEF Perfect!Next, Perfect!vars
  <2> QED  BY <1>4, <2>2, <2>3, <2>4 DEF SerialNext
<1> QED  BY <1>1, <1>2, <1>3, <1>4, PTL DEF SerialSpec, ImplementsPerfectCache, Perfect!Spec

(* And so no request is answered with a ref to what the model has lost.     *)
THEOREM NoDanglingRef == ASSUME PlainCli PROVE SerialSpec => RefsDoNotDangle
<1>1. Init => PInv  BY SafetyInit, SerialInit DEF PInv
<1>2. PInv /\ [SerialNext]_vars => PInv'  BY SerialStep
<1>3. ASSUME PInv, [SerialNext]_vars
      PROVE  [\A p \in Procs : Decides(p) /\ ~Precaching(p) => want[p] \in context]_vars
  <2> SUFFICES ASSUME NEW p \in Procs, Decides(p) PROVE want[p] \in context
    OBVIOUS
  <2>1. BInv /\ [Next]_vars  BY <1>3, SerialIsNext DEF PInv
  <2>2. SerialInv'  BY <1>3, SerialStep DEF PInv
  <2>3. pc'[p] = "touch"  BY DEF Decides
  <2>4. want'[p] \in context'  BY <2>2, <2>3 DEF SerialInv, PlainRequests
  <2>5. ReadMarker(p) \/ ReadMarkerFails(p)  BY <2>1, DecidingStep
  <2> QED  BY <2>4, <2>5 DEF ReadMarker, ReadMarkerFails
<1> QED  BY <1>1, <1>2, <1>3, PTL DEF SerialSpec, RefsDoNotDangle

=============================================================================
