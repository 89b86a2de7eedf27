------------------------- MODULE DedupCacheSafety -------------------------
(***************************************************************************)
(* Proofs about DedupCache, for every set of contents, processes, hooks,   *)
(* imports and near-duplicates, every age limit and every clock bound:     *)
(* that it is typed, and that it keeps IInv, so that what is_ref_fresh     *)
(* would accept, and what a request decides to answer with a ref to, is    *)
(* covered.                                                                *)
(*                                                                         *)
(* A process has some twenty statements, and the invariant is about one    *)
(* content at a time.  So each statement is first reduced to its Effect on *)
(* a content (left alone, pending afterwards, or sent), and Effect is      *)
(* shown once to keep the invariant.  The other actions keep it one by one.*)
(***************************************************************************)
EXTENDS DedupCache, TLAPS

USE DEF Procs, Notifiers, store, locals, notifier, ghosts

-----------------------------------------------------------------------------
(* What the building blocks of the actions do to the types.                 *)

(* A process that goes to a label stays within the labels.                  *)
LEMMA GotoType ==
    ASSUME TypeOK, NEW p \in Procs, NEW l \in PcLabels, Goto(p, l)
    PROVE  pc' \in [Procs -> PcLabels]
BY DEF TypeOK, Goto

(* A touch, of a row or of none, leaves every row a stamp.                  *)
LEMMA TouchType ==
    ASSUME TypeOK, NEW c, Touch(c)
    PROVE  accessedAt' \in [Content -> Nat]
BY DEF TypeOK, Touch

(* The part of TypeOK about what a request keeps between its statements.    *)
LocalTypes ==
    /\ want \in [Procs -> Content \cup {None}]
    /\ cur \in [Procs -> Content \cup {None}]
    /\ seen \in [Procs -> Nat]
    /\ deps \in [Procs -> SUBSET Content]
    /\ todo \in [Procs -> Seq(Content)]
    /\ base \in [Procs -> Content \cup {None}]

(* A request that ends leaves its process well typed.                       *)
LEMMA IdleType ==
    ASSUME TypeOK, NEW p \in Procs, Idle(p)
    PROVE  pc' \in [Procs -> PcLabels] /\ LocalTypes'
BY GotoType DEF TypeOK, Idle, LocalTypes, PcLabels

(* The rows that list_cache_entries_lru yields are contents.                *)
LEMMA MostRecentType == ASSUME NEW q \in MostRecent PROVE q \in Seq(Content)
BY BoundsAssumption DEF MostRecent, Present

(* Lowering the marker un-stales contents only.                             *)
LEMMA UnstaledType == ASSUME NEW m PROVE Unstaled(m) \subseteq Content
BY DEF Unstaled

(* Taking markers away from hooks leaves the hooks well typed.              *)
LEMMA LostType ==
    ASSUME TypeOK, NEW m
    PROVE  Lost(m) \in [Notifiers -> {"idle", "write", "compact", "lost"}]
BY DEF TypeOK, Lost


(* Types are inductive together with what a request knows of itself: a      *)
(* content while it works on one, a candidate while it tries one.           *)
TInv == TypeOK /\ LocalsConsistent

(* Every step keeps the types, one step of the proof per action of Next.    *)
LEMMA TypeStep == TInv /\ [Next]_vars => TypeOK'
<1> USE NoneAssumption
<1> SUFFICES ASSUME TypeOK, LocalsConsistent, [Next]_vars PROVE TypeOK'
  BY DEF TInv
<1>1. ASSUME NEW p \in Procs, NEW c \in Content, NEW tracked \in BOOLEAN, StartCompress(p, c, tracked)
      PROVE  TypeOK'
  BY <1>1, GotoType, DepsAssumption DEF StartCompress, TypeOK, PcLabels
<1>2. ASSUME NEW p \in Procs, NEW c \in Content, StartCall(p, c) \/ StartExpand(p, c)
      PROVE  TypeOK'
  <2>1. CASE StartCall(p, c)  BY <2>1, GotoType DEF StartCall, TypeOK, PcLabels
  <2>2. CASE StartExpand(p, c)  BY <2>2, GotoType DEF StartExpand, TypeOK, PcLabels
  <2> QED  BY <1>2, <2>1, <2>2
<1>3. ASSUME NEW p \in Procs, Work(p) PROVE TypeOK'
  <2>1. CASE NextDependency(p)
    <3>1. PICK d \in deps[p] : /\ cur' = [cur EXCEPT ![p] = d]
                              /\ deps' = [deps EXCEPT ![p] = @ \ {d}]
      BY <2>1 DEF NextDependency
    <3>2. d \in Content /\ deps[p] \ {d} \in SUBSET Content  BY DEF TypeOK
    <3>3. pc' \in [Procs -> PcLabels]  BY <2>1, GotoType DEF NextDependency, PcLabels
    <3>4. cur' \in [Procs -> Content \cup {None}] /\ deps' \in [Procs -> SUBSET Content]
      BY <3>1, <3>2 DEF TypeOK
    <3> QED  BY <2>1, <3>3, <3>4 DEF NextDependency, TypeOK
  <2>2. CASE DependenciesDone(p)
    BY <2>2, GotoType DEF DependenciesDone, TypeOK, PcLabels
  <2>3. CASE Exists(p)
    BY <2>3, GotoType DEF Exists, TypeOK, PcLabels
  <2>4. CASE ReadAccessed(p)
    <3>1. NotFresh(p) \in PcLabels  BY DEF NotFresh, PcLabels
    <3>2. pc' \in [Procs -> PcLabels]
      BY <2>4, <3>1, GotoType DEF ReadAccessed, PcLabels
    <3>3. accessedAt[cur[p]] \in Nat  BY <2>4 DEF ReadAccessed, TypeOK, LocalsConsistent
    <3>4. seen' \in [Procs -> Nat]  BY <2>4, <3>3 DEF ReadAccessed, TypeOK
    <3> QED  BY <2>4, <3>2, <3>4 DEF ReadAccessed, TypeOK
  <2>5. CASE ReadMarker(p)
    BY <2>5, GotoType DEF ReadMarker, TypeOK, PcLabels, NotFresh
  <2>6. CASE TouchRef(p)
    BY <2>6, GotoType, TouchType DEF TouchRef, TypeOK, PcLabels, LocalsConsistent
  <2>7. CASE SendRef(p)
    <3>1. want[p] \in Content  BY <2>7 DEF SendRef, LocalsConsistent
    <3>2. sentAt' \in [Content -> Nat] /\ unbacked' \subseteq Content
      <4>1. CASE RefRenews /\ want[p] \in context  BY ZenonT(30), <2>7, <3>1, <4>1 DEF SendRef, TypeOK
      <4>2. CASE ~(RefRenews /\ want[p] \in context)  BY <2>7, <3>1, <4>2 DEF SendRef, TypeOK
      <4> QED  BY <4>1, <4>2
    <3> QED  BY <2>7, <3>2, IdleType DEF SendRef, TypeOK, LocalTypes
  <2>8. CASE ListRecent(p)
    BY <2>8, GotoType, MostRecentType DEF ListRecent, TypeOK, PcLabels
  <2>9. CASE Probe(p)
    <3>1. pc' \in [Procs -> PcLabels] /\ todo' \in [Procs -> Seq(Content)]
      <4>1. CASE todo[p] = <<>>  BY <2>9, <4>1, GotoType DEF Probe, TypeOK, PcLabels
      <4>2. CASE todo[p] # <<>> /\ HasRow(Head(todo[p]))
        BY <2>9, <4>2, GotoType DEF Probe, TypeOK, PcLabels
      <4>3. CASE todo[p] # <<>> /\ ~HasRow(Head(todo[p]))
        <5>1. Tail(todo[p]) \in Seq(Content)  BY <4>3 DEF TypeOK
        <5> QED  BY ZenonT(30), <2>9, <4>3, <5>1 DEF Probe, TypeOK
      <4> QED  BY <4>1, <4>2, <4>3
    <3> QED  BY <2>9, <3>1 DEF Probe, TypeOK
  <2>10. CASE ProbeTouch(p)
    <3> DEFINE b == Head(todo[p])
    <3>1. b \in Content /\ Tail(todo[p]) \in Seq(Content) /\ <<>> \in Seq(Content)
      BY <2>10 DEF ProbeTouch, TypeOK, LocalsConsistent
    <3>2. accessedAt' \in [Content -> Nat]  BY <2>10, TouchType DEF ProbeTouch
    <3>3. unbacked' \subseteq Content  BY <2>10, <3>1 DEF ProbeTouch, TypeOK
    <3>4. /\ pc' \in [Procs -> PcLabels]
          /\ todo' \in [Procs -> Seq(Content)]
          /\ base' \in [Procs -> Content \cup {None}]
      <4>1. CASE <<b, want[p]>> \in Near
        <5>1. /\ Goto(p, "compress")
              /\ todo' = [todo EXCEPT ![p] = <<>>]
              /\ base' = [base EXCEPT ![p] = b]
          BY <2>10, <4>1 DEF ProbeTouch
        <5> QED  BY <3>1, <5>1, GotoType DEF TypeOK, PcLabels
      <4>2. CASE <<b, want[p]>> \notin Near
        <5>1. /\ Goto(p, "probe")
              /\ todo' = [todo EXCEPT ![p] = Tail(todo[p])]
              /\ base' = base
          BY <2>10, <4>2 DEF ProbeTouch
        <5> QED  BY <3>1, <5>1, GotoType DEF TypeOK, PcLabels
      <4> QED  BY <4>1, <4>2
    <3> QED  BY <2>10, <3>2, <3>3, <3>4 DEF ProbeTouch, TypeOK
  <2>11. CASE Compress(p)
    BY <2>11, GotoType DEF Compress, TypeOK, PcLabels
  <2>12. CASE CompressUnstored(p)
    BY <2>12, GotoType, IdleType DEF CompressUnstored, TypeOK, PcLabels, LocalTypes
  <2>13. CASE Save(p)
    BY <2>13, GotoType DEF Save, TypeOK, PcLabels, Upsert, LocalsConsistent
  <2>14. CASE RecordSent(p)
    BY <2>14, GotoType, TouchType DEF RecordSent, TypeOK, PcLabels, LocalsConsistent
  <2>15. CASE Recompress(p)
    BY <2>15, GotoType, IdleType DEF Recompress, TypeOK, PcLabels, LocalTypes
  <2>16. CASE Resend(p)
    BY <2>16, GotoType, TouchType DEF Resend, TypeOK, PcLabels
  <2>17. CASE SendFull(p)
    <3>1. want[p] \in Content  BY <2>17 DEF SendFull, LocalsConsistent
    <3>2. pc' \in [Procs -> PcLabels] /\ LocalTypes'  BY <2>17, IdleType DEF SendFull
    <3> QED  BY <2>17, <3>1, <3>2 DEF SendFull, TypeOK, LocalTypes, Deliver
  <2>18. CASE SendDelta(p)
    <3>1. want[p] \in Content  BY <2>18 DEF SendDelta, LocalsConsistent
    <3>2. pc' \in [Procs -> PcLabels] /\ LocalTypes'  BY <2>18, IdleType DEF SendDelta
    <3>3. context' \subseteq Content /\ sentAt' \in [Content -> Nat] /\ unbacked' \subseteq Content
      <4>1. CASE base[p] \in context
        <5>1. Deliver(want[p])  BY <2>18, <4>1 DEF SendDelta
        <5> QED  BY <3>1, <5>1 DEF TypeOK, Deliver
      <4>2. CASE base[p] \notin context  BY <2>18, <3>1, <4>2 DEF SendDelta, TypeOK
      <4> QED  BY <4>1, <4>2
    <3> QED  BY <2>18, <3>2, <3>3 DEF SendDelta, TypeOK, LocalTypes
  <2>19. CASE Lookup(p)
    BY <2>19, GotoType, IdleType DEF Lookup, TypeOK, PcLabels, LocalTypes
  <2>20. CASE LookupTouch(p)
    BY <2>20, GotoType, TouchType DEF LookupTouch, TypeOK, PcLabels
  <2>21. CASE Discard(p)
    BY ZenonT(30), <2>21, IdleType DEF Discard, Kill, InFlight, TypeOK, LocalTypes, LocalsConsistent
  <2> QED
    BY <1>3, <2>1, <2>2, <2>3, <2>4, <2>5, <2>6, <2>7, <2>8, <2>9, <2>10, <2>11,
       <2>12, <2>13, <2>14, <2>15, <2>16, <2>17, <2>18, <2>19, <2>20, <2>21
    DEF Work
<1>13. ASSUME NEW p \in Procs, ReadMarkerFails(p) PROVE TypeOK'
  BY <1>13, GotoType DEF ReadMarkerFails, TypeOK, PcLabels, LocalsConsistent
<1>4. ASSUME NEW p \in Procs, Kill(p) PROVE TypeOK'
  BY ZenonT(30), <1>4, IdleType DEF Kill, InFlight, TypeOK, LocalTypes, LocalsConsistent
<1>5. ASSUME NEW n \in Notifiers, ReadClock(n) PROVE TypeOK'
  BY <1>5 DEF ReadClock, TypeOK
<1>6. ASSUME NEW n \in Notifiers, WriteMarker(n) PROVE TypeOK'
  BY <1>6, LostType, UnstaledType DEF WriteMarker, TypeOK
<1>7. ASSUME NEW n \in Notifiers, NotifyFails(n) PROVE TypeOK'
  BY <1>7 DEF NotifyFails, TypeOK
<1>8. ASSUME NEW n \in Notifiers, HostCompacts(n) PROVE TypeOK'
  BY <1>8 DEF HostCompacts, TypeOK
<1>9. CASE DeleteRows \/ DeleteMarkerFails \/ Tick
  BY <1>9 DEF DeleteRows, DeleteMarkerFails, Tick, TypeOK
<1>10. CASE DeleteMarker
  BY <1>10, LostType, UnstaledType DEF DeleteMarker, TypeOK
<1>11. ASSUME NEW c \in Content, RollOver(c) PROVE TypeOK'
  BY <1>11 DEF RollOver, TypeOK
<1>12. CASE UNCHANGED vars
  BY <1>12 DEF vars, TypeOK
<1> QED
  BY <1>1, <1>2, <1>3, <1>4, <1>5, <1>6, <1>7, <1>8, <1>9, <1>10, <1>11, <1>12, <1>13 DEF Next, Start

(* Every step keeps what a request knows of itself.                         *)
LEMMA LocalsStep == TInv /\ [Next]_vars => LocalsConsistent'
<1> USE NoneAssumption DEF TypeOK, LocalsConsistent, Goto, Idle, PcLabels
<1> SUFFICES ASSUME TypeOK, LocalsConsistent, [Next]_vars PROVE LocalsConsistent'
  BY DEF TInv
<1>1. ASSUME NEW p \in Procs, NEW c \in Content, NEW tracked \in BOOLEAN, StartCompress(p, c, tracked)
      PROVE  LocalsConsistent'
  BY <1>1, ProcsAssumption DEF StartCompress
<1>2. ASSUME NEW p \in Procs, NEW c \in Content, StartCall(p, c) \/ StartExpand(p, c)
      PROVE  LocalsConsistent'
  <2>1. CASE StartCall(p, c)  BY <2>1 DEF StartCall
  <2>2. CASE StartExpand(p, c)  BY <2>2 DEF StartExpand
  <2> QED  BY <1>2, <2>1, <2>2
<1>3. ASSUME NEW p \in Procs, Work(p) PROVE LocalsConsistent'
  <2>1. CASE NextDependency(p)  BY <2>1 DEF NextDependency
  <2>2. CASE DependenciesDone(p)  BY <2>2 DEF DependenciesDone
  <2>3. CASE Exists(p)  BY <2>3 DEF Exists
  <2>4. CASE ReadAccessed(p)
    <3>1. CASE Goto(p, "marker") /\ seen' = [seen EXCEPT ![p] = accessedAt[cur[p]]] /\ HasRow(cur[p])
      BY <2>4, <3>1 DEF ReadAccessed, HasRow
    <3>2. CASE Goto(p, NotFresh(p)) /\ UNCHANGED seen
      BY <2>4, <3>2 DEF ReadAccessed, NotFresh
    <3> QED  BY <2>4, <3>1, <3>2 DEF ReadAccessed
  <2>5. CASE ReadMarker(p)  BY <2>5 DEF ReadMarker, NotFresh
  <2>6. CASE TouchRef(p)  BY <2>6 DEF TouchRef, Precaching
  <2>7. CASE SendRef(p)  BY <2>7 DEF SendRef
  <2>8. CASE ListRecent(p)  BY <2>8 DEF ListRecent
  <2>9. CASE Probe(p)
    <3>1. CASE todo[p] = <<>>  BY <2>9, <3>1 DEF Probe
    <3>2. CASE todo[p] # <<>> /\ HasRow(Head(todo[p]))  BY <2>9, <3>2 DEF Probe
    <3>3. CASE todo[p] # <<>> /\ ~HasRow(Head(todo[p]))  BY <2>9, <3>3 DEF Probe
    <3> QED  BY <3>1, <3>2, <3>3
  <2>10. CASE ProbeTouch(p)
    <3>1. CASE <<Head(todo[p]), want[p]>> \in Near
      <4>1. Head(todo[p]) \in Content  BY <2>10 DEF ProbeTouch
      <4> QED  BY ZenonT(30), <2>10, <3>1, <4>1 DEF ProbeTouch
    <3>2. CASE <<Head(todo[p]), want[p]>> \notin Near  BY ZenonT(30), <2>10, <3>2 DEF ProbeTouch
    <3> QED  BY <3>1, <3>2
  <2>11. CASE Compress(p)  BY <2>11 DEF Compress
  <2>12. CASE CompressUnstored(p)
    <3>1. CASE p \in Servers
      <4>1. Idle(p)  BY <2>12, <3>1 DEF CompressUnstored
      <4> QED  BY <4>1
    <3>2. CASE p \notin Servers /\ Goto(p, "deps")  BY <2>12, <3>2 DEF CompressUnstored
    <3>3. CASE p \notin Servers /\ Goto(p, "unstored")  BY <2>12, <3>3 DEF CompressUnstored
    <3> QED  BY <2>12, <3>1, <3>2, <3>3 DEF CompressUnstored
  <2>13. CASE Save(p)  BY <2>13 DEF Save
  <2>14. CASE RecordSent(p)  BY <2>14 DEF RecordSent, Precaching
  <2>15. CASE Recompress(p)
    <3>1. CASE Goto(p, "resend") /\ UNCHANGED locals  BY <2>15, <3>1 DEF Recompress
    <3>2. CASE Idle(p)  BY <3>2
    <3> QED  BY <2>15, <3>1, <3>2 DEF Recompress
  <2>16. CASE Resend(p)  BY <2>16 DEF Resend
  <2>17. CASE SendFull(p)  BY <2>17 DEF SendFull
  <2>18. CASE SendDelta(p)
    <3>1. Idle(p)  BY <2>18 DEF SendDelta
    <3> QED  BY <3>1
  <2>19. CASE Lookup(p)
    <3>1. CASE HasRow(cur[p])  BY <2>19, <3>1 DEF Lookup
    <3>2. CASE Idle(p)  BY <3>2
    <3> QED  BY <2>19, <3>1, <3>2 DEF Lookup
  <2>20. CASE LookupTouch(p)  BY <2>20 DEF LookupTouch
  <2>21. CASE Discard(p)  BY <2>21 DEF Discard, Kill
  <2> QED
    BY <1>3, <2>1, <2>2, <2>3, <2>4, <2>5, <2>6, <2>7, <2>8, <2>9, <2>10, <2>11,
       <2>12, <2>13, <2>14, <2>15, <2>16, <2>17, <2>18, <2>19, <2>20, <2>21
    DEF Work
<1>9. ASSUME NEW p \in Procs, ReadMarkerFails(p) PROVE LocalsConsistent'
  BY <1>9 DEF ReadMarkerFails
<1>4. ASSUME NEW p \in Procs, Kill(p) PROVE LocalsConsistent'
  BY <1>4 DEF Kill
<1>5. ASSUME NEW n \in Notifiers, ReadClock(n) \/ WriteMarker(n) \/ NotifyFails(n) \/ HostCompacts(n)
      PROVE  LocalsConsistent'
  BY <1>5 DEF ReadClock, WriteMarker, NotifyFails, HostCompacts
<1>6. CASE DeleteRows \/ DeleteMarker \/ DeleteMarkerFails \/ Tick
  BY <1>6 DEF DeleteRows, DeleteMarker, DeleteMarkerFails, Tick
<1>7. ASSUME NEW c \in Content, RollOver(c) PROVE LocalsConsistent'
  BY <1>7 DEF RollOver
<1>8. CASE UNCHANGED vars
  BY <1>8 DEF vars
<1> QED
  BY <1>1, <1>2, <1>3, <1>4, <1>5, <1>6, <1>7, <1>8, <1>9 DEF Next, Start

(* An empty store, with no request under way, is well typed.                *)
LEMMA TypeInit == Init => TInv
BY NoneAssumption DEF Init, TInv, TypeOK, LocalsConsistent, PcLabels

(* Every variable of the dedup cache keeps its type.                        *)
THEOREM TypeCorrect == Spec => []TypeOK
<1>1. Init => TInv  BY TypeInit
<1>2. TInv /\ [Next]_vars => TInv'  BY TypeStep, LocalsStep DEF TInv
<1>3. TInv => TypeOK  BY DEF TInv
<1> QED  BY <1>1, <1>2, <1>3, PTL DEF Spec

-----------------------------------------------------------------------------
(* A step of a process, seen from one content.                              *)

(* The step is p's, and leaves the clock, the marker and the notifiers.     *)
StepOf(p) ==
    /\ marker' = marker /\ now' = now /\ npc' = npc /\ stamp' = stamp
    /\ \A q \in Procs \ {p} :
          pc'[q] = pc[q] /\ want'[q] = want[q] /\ cur'[q] = cur[q] /\ seen'[q] = seen[q]

(* The step of p leaves c as it was, but for a stamp of c that p reads.     *)
Framed(p, c) ==
    /\ accessedAt'[c] = accessedAt[c] /\ sentAt'[c] = sentAt[c]
    /\ c \in context' <=> c \in context
    /\ c \in unbacked => c \in unbacked'
    /\ InFlight(p) /\ want[p] = c => (InFlight(p)' /\ want'[p] = c) \/ c \in unbacked'
    /\ pc'[p] = "marker" /\ cur'[p] = c => seen'[p] = accessedAt[c]

(* The step sends c to the model.                                           *)
Sent(c) == c \in context' /\ sentAt'[c] = now

(* What every step of a process amounts to: a stamp or a send is made now,  *)
(* and each content is left alone, or is pending after it, or is sent by it.*)
Effect(p) ==
    /\ StepOf(p)
    /\ seen'[p] <= now
    /\ \A c \in Content :
          /\ accessedAt'[c] \in {accessedAt[c], now}
          /\ sentAt'[c] \in {sentAt[c], now}
          /\ Framed(p, c) \/ Pending(c)' \/ Sent(c)

(* A step that writes neither rows nor ghosts leaves every content alone.   *)
LEMMA QuietEffect ==
    ASSUME TInv, NEW p \in Procs, StepOf(p), ClockAhead,
           UNCHANGED <<store, ghosts>>,
           ~InFlight(p), pc'[p] # "marker", seen'[p] \in {0, seen[p]}
    PROVE  Effect(p)
BY DEF TInv, TypeOK, ClockAhead, Effect, Framed

(* Ending a request changes no other process.                               *)
LEMMA IdleStep ==
    ASSUME TInv, NEW p \in Procs, Idle(p), marker' = marker, now' = now, npc' = npc, stamp' = stamp
    PROVE  StepOf(p) /\ pc'[p] = "idle" /\ seen'[p] = 0
BY DEF TInv, TypeOK, StepOf, Idle, Goto

(* Going to a label changes no other process, nor what p works on.          *)
LEMMA GotoStep ==
    ASSUME TInv, NEW p \in Procs, NEW l, Goto(p, l), UNCHANGED <<marker, now, notifier>>,
           UNCHANGED <<want, cur, seen>>
    PROVE  StepOf(p) /\ pc'[p] = l /\ want'[p] = want[p] /\ cur'[p] = cur[p] /\ seen'[p] = seen[p]
BY DEF TInv, TypeOK, StepOf, Goto

(* A step that stamps c and at the same time makes it pending.              *)
LEMMA TouchEffect ==
    ASSUME TInv, ClockAhead, NEW p \in Procs, NEW d \in Content, StepOf(p), Touch(d) \/ Upsert(d),
           UNCHANGED <<context, sentAt>>,
           unbacked \subseteq unbacked', Pending(d)',
           InFlight(p) => want[p] = d,
           pc'[p] # "marker", seen'[p] = seen[p]
    PROVE  Effect(p)
<1>1. ASSUME NEW c \in Content PROVE
          /\ accessedAt'[c] \in {accessedAt[c], now}
          /\ sentAt'[c] \in {sentAt[c], now}
          /\ Framed(p, c) \/ Pending(c)' \/ Sent(c)
  <2>1. CASE c = d  BY <2>1 DEF TInv, TypeOK, Touch, Upsert
  <2>2. CASE c # d  BY <2>2 DEF TInv, TypeOK, Touch, Upsert, Framed
  <2> QED  BY <2>1, <2>2
<1>2. seen'[p] <= now  BY DEF ClockAhead
<1> QED  BY <1>1, <1>2 DEF Effect

(* A step that sends p's content in full.                                   *)
LEMMA DeliverEffect ==
    ASSUME TInv, NEW p \in Procs, StepOf(p), pc'[p] = "idle", seen'[p] = 0,
           accessedAt' = accessedAt, Deliver(want[p])
    PROVE  Effect(p)
<1>1. ASSUME NEW c \in Content PROVE
          sentAt'[c] \in {sentAt[c], now} /\ (Framed(p, c) \/ Sent(c))
  BY DEF TInv, TypeOK, Deliver, Framed, Sent
<1> QED  BY <1>1 DEF Effect, TInv, TypeOK

(* A step that answers without giving the model p's content.                *)
LEMMA PendingEffect ==
    ASSUME TInv, NEW p \in Procs, StepOf(p), pc'[p] = "idle", seen'[p] = 0,
           accessedAt' = accessedAt, unbacked' = unbacked \cup {want[p]},
           UNCHANGED <<context, sentAt>>
    PROVE  Effect(p)
<1>1. \A c \in Content : Framed(p, c)  BY DEF Framed
<1> QED  BY <1>1 DEF Effect, TInv, TypeOK

(* A process that is killed, or whose output is discarded, leaves pending   *)
(* what it was about to send.                                              *)
LEMMA KillEffect ==
    ASSUME TInv, NEW p \in Procs, Kill(p)
    PROVE  Effect(p)
<1>1. StepOf(p) /\ pc'[p] = "idle" /\ seen'[p] = 0  BY IdleStep DEF Kill
<1>2. \A c \in Content : Framed(p, c)  BY <1>1 DEF Kill, Framed
<1> QED  BY <1>1, <1>2 DEF Kill, Effect, TInv, TypeOK

(* The effect of every process step.                                        *)
LEMMA ProcessEffect ==
    ASSUME TInv, ClockAhead, NEW p \in Procs,
           Start(p) \/ Work(p) \/ ReadMarkerFails(p) \/ Kill(p)
    PROVE  Effect(p)
<1>1. CASE Start(p)
  <2>1. PICK c \in Content : \/ \E tracked \in BOOLEAN : StartCompress(p, c, tracked)
                            \/ StartCall(p, c)
                            \/ StartExpand(p, c)
    BY <1>1 DEF Start
  <2>2. ~InFlight(p)  BY <2>1 DEF StartCompress, StartCall, StartExpand, InFlight
  <2>3. StepOf(p) /\ pc'[p] # "marker" /\ seen'[p] = seen[p]
    <3>1. CASE StartCall(p, c)  BY <3>1 DEF StartCall, TInv, TypeOK, StepOf, Goto
    <3>2. CASE StartExpand(p, c)  BY <3>2 DEF StartExpand, TInv, TypeOK, StepOf, Goto
    <3>3. ASSUME NEW tracked \in BOOLEAN, StartCompress(p, c, tracked)
          PROVE  StepOf(p) /\ pc'[p] # "marker" /\ seen'[p] = seen[p]
      BY <3>3 DEF StartCompress, TInv, TypeOK, StepOf, Goto
    <3> QED  BY <2>1, <3>1, <3>2, <3>3
  <2>4. UNCHANGED <<store, ghosts>>  BY <2>1 DEF StartCompress, StartCall, StartExpand
  <2> QED  BY <2>2, <2>3, <2>4, QuietEffect
<1>2. CASE Work(p)
  <2>1. CASE NextDependency(p)
    <3>1. StepOf(p) /\ seen'[p] \in {0, seen[p]} /\ pc'[p] # "marker"
      BY <2>1 DEF NextDependency, TInv, TypeOK, StepOf, Goto, NotFresh
    <3> QED  BY <2>1, <3>1, QuietEffect DEF NextDependency, InFlight
  <2>2. CASE DependenciesDone(p)
    <3>1. StepOf(p) /\ seen'[p] \in {0, seen[p]} /\ pc'[p] # "marker"
      BY <2>2 DEF DependenciesDone, TInv, TypeOK, StepOf, Goto, NotFresh
    <3> QED  BY <2>2, <3>1, QuietEffect DEF DependenciesDone, InFlight
  <2>3. CASE Exists(p)
    <3>1. StepOf(p) /\ seen'[p] \in {0, seen[p]} /\ pc'[p] # "marker"
      BY <2>3 DEF Exists, TInv, TypeOK, StepOf, Goto, NotFresh
    <3> QED  BY <2>3, <3>1, QuietEffect DEF Exists, InFlight
  <2>4. CASE ReadAccessed(p)
    <3>1. StepOf(p)  BY <2>4 DEF ReadAccessed, TInv, TypeOK, StepOf, Goto
    <3>2. ~InFlight(p)  BY <2>4 DEF ReadAccessed, InFlight
    <3>3. CASE UNCHANGED seen /\ Goto(p, NotFresh(p))
      <4>1. pc'[p] # "marker"  BY <3>3 DEF TInv, TypeOK, Goto, NotFresh
      <4> QED  BY <2>4, <3>1, <3>2, <3>3, <4>1, QuietEffect DEF ReadAccessed
    <3>4. CASE seen' = [seen EXCEPT ![p] = accessedAt[cur[p]]]
      <4>1. cur[p] \in Content /\ cur'[p] = cur[p] /\ seen'[p] = accessedAt[cur[p]]
        BY <2>4, <3>4 DEF ReadAccessed, TInv, TypeOK, LocalsConsistent
      <4>2. UNCHANGED <<accessedAt, ghosts>>  BY <2>4 DEF ReadAccessed
      <4>3. seen'[p] <= now  BY <4>1 DEF ClockAhead
      <4>4. \A c \in Content : Framed(p, c)  BY <3>2, <4>1, <4>2 DEF Framed
      <4> QED  BY <3>1, <4>2, <4>3, <4>4 DEF Effect
    <3> QED  BY <2>4, <3>3, <3>4 DEF ReadAccessed
  <2>5. CASE ReadMarker(p)
    <3>1. StepOf(p) /\ seen'[p] \in {0, seen[p]} /\ pc'[p] # "marker"
      BY <2>5 DEF ReadMarker, TInv, TypeOK, StepOf, Goto, NotFresh
    <3> QED  BY <2>5, <3>1, QuietEffect DEF ReadMarker, InFlight
  <2>6. CASE TouchRef(p)
    <3>1. cur[p] \in Content  BY <2>6 DEF TouchRef, TInv, LocalsConsistent
    <3>2. /\ StepOf(p) /\ pc'[p] # "marker"
          /\ seen'[p] = seen[p] /\ cur'[p] = cur[p] /\ want'[p] = want[p]
      BY <2>6 DEF TouchRef, TInv, TypeOK, StepOf, Goto
    <3>3. Pending(cur[p])'
      <4>1. CASE Precaching(p)  BY <2>6, <4>1 DEF TouchRef, Pending
      <4>2. CASE ~Precaching(p)
        <5>1. pc'[p] \in {"ref"}
          BY <2>6, <4>2 DEF TouchRef, TInv, TypeOK, Goto
        <5> QED  BY <3>2, <4>2, <5>1 DEF Precaching, InFlight, Pending
      <4> QED  BY <4>1, <4>2
    <3>4. InFlight(p) => want[p] = cur[p]  BY DEF InFlight
    <3>5. unbacked \subseteq unbacked'  BY <2>6 DEF TouchRef
    <3> QED  BY <2>6, <3>1, <3>2, <3>3, <3>4, <3>5, TouchEffect DEF TouchRef
  <2>7. CASE SendRef(p)
    <3>1. StepOf(p) /\ pc'[p] = "idle" /\ seen'[p] = 0  BY <2>7, IdleStep DEF SendRef
    <3>2. want[p] \in Content  BY <2>7 DEF SendRef, TInv, LocalsConsistent
    <3>3. ASSUME NEW c \in Content PROVE
              /\ accessedAt'[c] \in {accessedAt[c], now}
              /\ sentAt'[c] \in {sentAt[c], now}
              /\ Framed(p, c) \/ Pending(c)' \/ Sent(c)
      <4>1. CASE RefRenews /\ want[p] \in context
        <5>1. UNCHANGED <<accessedAt, context, unbacked>> /\ sentAt' = [sentAt EXCEPT ![want[p]] = now]
          BY <2>7, <4>1 DEF SendRef
        <5> QED  BY <3>1, <3>2, <4>1, <5>1 DEF TInv, TypeOK, Framed, Sent
      <4>2. CASE ~(RefRenews /\ want[p] \in context)
        <5>1. UNCHANGED <<accessedAt, context, sentAt>> /\ unbacked' = unbacked \cup {want[p]}
          BY <2>7, <4>2 DEF SendRef
        <5> QED  BY <3>1, <5>1 DEF Framed, Pending
      <4> QED  BY <4>1, <4>2
    <3> QED  BY <3>1, <3>3 DEF Effect, TInv, TypeOK
  <2>8. CASE ListRecent(p)
    <3>1. StepOf(p) /\ seen'[p] \in {0, seen[p]} /\ pc'[p] # "marker"
      BY <2>8 DEF ListRecent, TInv, TypeOK, StepOf, Goto, NotFresh
    <3> QED  BY <2>8, <3>1, QuietEffect DEF ListRecent, InFlight
  <2>9. CASE Probe(p)
    <3>1. StepOf(p) /\ seen'[p] \in {0, seen[p]} /\ pc'[p] # "marker"
      BY <2>9 DEF Probe, TInv, TypeOK, StepOf, Goto, NotFresh
    <3> QED  BY <2>9, <3>1, QuietEffect DEF Probe, InFlight
  <2>10. CASE ProbeTouch(p)
    <3>1. PICK b \in Content : b = Head(todo[p])
      BY <2>10 DEF ProbeTouch, TInv, TypeOK, LocalsConsistent
    <3>2. Goto(p, "compress") \/ Goto(p, "probe")  BY <2>10 DEF ProbeTouch
    <3>3. /\ UNCHANGED <<marker, now, notifier>> /\ UNCHANGED <<want, cur, seen>>
          /\ UNCHANGED <<context, sentAt>>
      BY <2>10 DEF ProbeTouch
    <3>4. StepOf(p) /\ pc'[p] # "marker" /\ seen'[p] = seen[p]
      <4>1. CASE Goto(p, "compress")  BY <3>3, <4>1, GotoStep
      <4>2. CASE Goto(p, "probe")  BY <3>3, <4>2, GotoStep
      <4> QED  BY <3>2, <4>1, <4>2
    <3>5. Touch(b) /\ unbacked' = unbacked \cup {b}  BY <2>10, <3>1 DEF ProbeTouch
    <3>6. ~InFlight(p)  BY <2>10 DEF ProbeTouch, InFlight
    <3>7. Pending(b)'  BY <3>5 DEF Pending
    <3> QED  BY <3>3, <3>4, <3>5, <3>6, <3>7, TouchEffect
  <2>11. CASE Compress(p)
    <3>1. StepOf(p) /\ seen'[p] \in {0, seen[p]} /\ pc'[p] # "marker"
      BY <2>11 DEF Compress, TInv, TypeOK, StepOf, Goto, NotFresh
    <3> QED  BY <2>11, <3>1, QuietEffect DEF Compress, InFlight
  <2>12. CASE CompressUnstored(p)
    <3>1. ~InFlight(p)  BY <2>12 DEF CompressUnstored, InFlight
    <3>2. CASE Idle(p)
      <4>1. StepOf(p) /\ pc'[p] = "idle" /\ seen'[p] = 0  BY <2>12, <3>2, IdleStep DEF CompressUnstored
      <4> QED  BY <2>12, <3>1, <4>1, QuietEffect DEF CompressUnstored
    <3>3. CASE ~Idle(p)
      <4>1. StepOf(p) /\ seen'[p] = seen[p] /\ pc'[p] # "marker"
        BY <2>12, <3>3 DEF CompressUnstored, TInv, TypeOK, StepOf, Goto
      <4> QED  BY <2>12, <3>1, <4>1, QuietEffect DEF CompressUnstored
    <3> QED  BY <3>2, <3>3
  <2>13. CASE Save(p)
    <3>1. cur[p] \in Content  BY <2>13 DEF Save, TInv, LocalsConsistent
    <3>2. /\ StepOf(p) /\ pc'[p] # "marker"
          /\ seen'[p] = seen[p] /\ cur'[p] = cur[p] /\ want'[p] = want[p]
      BY <2>13 DEF Save, TInv, TypeOK, StepOf, Goto
    <3>3. Pending(cur[p])'
      <4>1. CASE Precaching(p)  BY <2>13, <4>1 DEF Save, Pending
      <4>2. CASE ~Precaching(p)
        <5>1. pc'[p] \in {"sent"}
          BY <2>13, <4>2 DEF Save, TInv, TypeOK, Goto
        <5> QED  BY <3>2, <4>2, <5>1 DEF Precaching, InFlight, Pending
      <4> QED  BY <4>1, <4>2
    <3>4. InFlight(p) => want[p] = cur[p]  BY DEF InFlight
    <3>5. unbacked \subseteq unbacked'  BY <2>13 DEF Save
    <3> QED  BY <2>13, <3>1, <3>2, <3>3, <3>4, <3>5, TouchEffect DEF Save
  <2>14. CASE RecordSent(p)
    <3>1. cur[p] \in Content  BY <2>14 DEF RecordSent, TInv, LocalsConsistent
    <3>2. /\ StepOf(p) /\ pc'[p] # "marker"
          /\ seen'[p] = seen[p] /\ cur'[p] = cur[p] /\ want'[p] = want[p]
      BY <2>14 DEF RecordSent, TInv, TypeOK, StepOf, Goto
    <3>3. Pending(cur[p])'
      <4>1. CASE Precaching(p)  BY <2>14, <4>1 DEF RecordSent, Pending
      <4>2. CASE ~Precaching(p)
        <5>1. pc'[p] \in {"delta", "reply"}
          BY <2>14, <4>2 DEF RecordSent, TInv, TypeOK, Goto
        <5> QED  BY <3>2, <4>2, <5>1 DEF Precaching, InFlight, Pending
      <4> QED  BY <4>1, <4>2
    <3>4. InFlight(p) => want[p] = cur[p]  BY DEF InFlight
    <3>5. unbacked \subseteq unbacked'  BY <2>14 DEF RecordSent
    <3> QED  BY <2>14, <3>1, <3>2, <3>3, <3>4, <3>5, TouchEffect DEF RecordSent
  <2>15. CASE Recompress(p)
    <3>1. ~InFlight(p)  BY <2>15 DEF Recompress, InFlight
    <3>2. CASE Idle(p)
      <4>1. StepOf(p) /\ pc'[p] = "idle" /\ seen'[p] = 0  BY <2>15, <3>2, IdleStep DEF Recompress
      <4> QED  BY <2>15, <3>1, <4>1, QuietEffect DEF Recompress
    <3>3. CASE ~Idle(p)
      <4>1. StepOf(p) /\ seen'[p] = seen[p] /\ pc'[p] # "marker"
        BY <2>15, <3>3 DEF Recompress, TInv, TypeOK, StepOf, Goto
      <4> QED  BY <2>15, <3>1, <4>1, QuietEffect DEF Recompress
    <3> QED  BY <3>2, <3>3
  <2>16. CASE Resend(p)
    <3>1. cur[p] \in Content  BY <2>16 DEF Resend, TInv, LocalsConsistent
    <3>2. /\ StepOf(p) /\ pc'[p] # "marker"
          /\ seen'[p] = seen[p] /\ cur'[p] = cur[p] /\ want'[p] = want[p]
      BY <2>16 DEF Resend, TInv, TypeOK, StepOf, Goto
    <3>3. Pending(cur[p])'
      <4>1. pc'[p] = "reply"  BY <2>16 DEF Resend, TInv, TypeOK, Goto
      <4>2. cur[p] = want[p]  BY <2>16 DEF Resend, TInv, LocalsConsistent
      <4> QED  BY <3>2, <4>1, <4>2 DEF InFlight, Pending
    <3>4. InFlight(p) => want[p] = cur[p]  BY DEF InFlight
    <3>5. unbacked \subseteq unbacked'  BY <2>16 DEF Resend
    <3> QED  BY <2>16, <3>1, <3>2, <3>3, <3>4, <3>5, TouchEffect DEF Resend
  <2>17. CASE SendFull(p)
    <3>1. StepOf(p) /\ pc'[p] = "idle" /\ seen'[p] = 0  BY <2>17, IdleStep DEF SendFull, Deliver
    <3>2. accessedAt' = accessedAt /\ Deliver(want[p])  BY <2>17 DEF SendFull
    <3> QED  BY <3>1, <3>2, DeliverEffect
  <2>18. CASE SendDelta(p)
    <3>1. StepOf(p) /\ pc'[p] = "idle" /\ seen'[p] = 0  BY <2>18, IdleStep DEF SendDelta
    <3>2. accessedAt' = accessedAt  BY <2>18 DEF SendDelta
    <3>3. CASE Deliver(want[p])  BY <3>1, <3>2, <3>3, DeliverEffect
    <3>4. CASE unbacked' = unbacked \cup {want[p]} /\ UNCHANGED <<context, sentAt>>
      BY <3>1, <3>2, <3>4, PendingEffect
    <3> QED  BY <2>18, <3>3, <3>4 DEF SendDelta
  <2>19. CASE Lookup(p)
    <3>1. ~InFlight(p)  BY <2>19 DEF Lookup, InFlight
    <3>2. CASE Idle(p)
      <4>1. StepOf(p) /\ pc'[p] = "idle" /\ seen'[p] = 0  BY <2>19, <3>2, IdleStep DEF Lookup
      <4> QED  BY <2>19, <3>1, <4>1, QuietEffect DEF Lookup
    <3>3. CASE ~Idle(p)
      <4>1. StepOf(p) /\ seen'[p] = seen[p] /\ pc'[p] # "marker"
        BY <2>19, <3>3 DEF Lookup, TInv, TypeOK, StepOf, Goto
      <4> QED  BY <2>19, <3>1, <4>1, QuietEffect DEF Lookup
    <3> QED  BY <3>2, <3>3
  <2>20. CASE LookupTouch(p)
    <3>1. cur[p] \in Content  BY <2>20 DEF LookupTouch, TInv, LocalsConsistent
    <3>2. /\ StepOf(p) /\ pc'[p] # "marker"
          /\ seen'[p] = seen[p] /\ cur'[p] = cur[p] /\ want'[p] = want[p]
      BY <2>20 DEF LookupTouch, TInv, TypeOK, StepOf, Goto
    <3>3. Pending(cur[p])'
      <4>1. pc'[p] = "reply"  BY <2>20 DEF LookupTouch, TInv, TypeOK, Goto
      <4>2. cur[p] = want[p]  BY <2>20 DEF LookupTouch, TInv, LocalsConsistent
      <4> QED  BY <3>2, <4>1, <4>2 DEF InFlight, Pending
    <3>4. InFlight(p) => want[p] = cur[p]  BY DEF InFlight
    <3>5. unbacked \subseteq unbacked'  BY <2>20 DEF LookupTouch
    <3> QED  BY <2>20, <3>1, <3>2, <3>3, <3>4, <3>5, TouchEffect DEF LookupTouch
  <2>21. CASE Discard(p)
    BY <2>21, KillEffect DEF Discard
  <2> QED
    BY <1>2, <2>1, <2>2, <2>3, <2>4, <2>5, <2>6, <2>7, <2>8, <2>9, <2>10, <2>11,
       <2>12, <2>13, <2>14, <2>15, <2>16, <2>17, <2>18, <2>19, <2>20, <2>21
    DEF Work
<1>3. CASE ReadMarkerFails(p)
  <2>1. StepOf(p) /\ pc'[p] # "marker" /\ seen'[p] = 0
    BY <1>3 DEF ReadMarkerFails, TInv, TypeOK, StepOf, Goto
  <2>2. \A c \in Content : Framed(p, c)
    BY <1>3, <2>1 DEF ReadMarkerFails, Framed, InFlight
  <2> QED  BY <1>3, <2>1, <2>2 DEF ReadMarkerFails, Effect, TInv, TypeOK
<1>4. CASE Kill(p)
  BY <1>4, KillEffect
<1> QED  BY <1>1, <1>2, <1>3, <1>4

-----------------------------------------------------------------------------
(* StampsAreBacked and FreshIsCovered, for one content.                     *)
Backed(c) ==
    \A a \in Stamps(c) :
        /\ c \in context => a <= sentAt[c] \/ Pending(c)
        /\ a # 0 /\ Fresh(a) => Covered(c)

(* A content that a step leaves alone stays backed.                         *)
LEMMA FramedBacked ==
    ASSUME TInv, NEW p \in Procs, NEW c \in Content, StepOf(p), Framed(p, c), Backed(c)
    PROVE  Backed(c)'
<1>1. ASSUME NEW a \in Stamps(c)' PROVE a \in Stamps(c)
  <2>1. CASE a = accessedAt'[c]  BY <2>1 DEF Stamps, Framed
  <2>2. ASSUME NEW q \in Procs, pc'[q] = "marker", cur'[q] = c, seen'[q] = a
        PROVE  a \in Stamps(c)
    <3>1. CASE q = p  BY <2>2, <3>1 DEF Stamps, Framed
    <3>2. CASE q # p  BY <2>2, <3>2 DEF Stamps, StepOf
    <3> QED  BY <3>1, <3>2
  <2> QED  BY <1>1, <2>1, <2>2 DEF Stamps
<1>2. Pending(c) => Pending(c)'
  <2>1. ASSUME NEW q \in Procs, InFlight(q), want[q] = c PROVE Pending(c)'
    <3>1. CASE q = p  BY <2>1, <3>1 DEF Framed, Pending
    <3>2. CASE q # p  BY <2>1, <3>2 DEF StepOf, InFlight, Pending
    <3> QED  BY <3>1, <3>2
  <2> QED  BY <2>1 DEF Framed, Pending
<1>3. \A a : Fresh(a)' <=> Fresh(a)  BY DEF StepOf, Fresh
<1>4. sentAt'[c] = sentAt[c] /\ (c \in context' <=> c \in context)  BY DEF Framed
<1> QED  BY <1>1, <1>2, <1>3, <1>4 DEF Backed, Covered

(* A pending content is backed, whatever its stamps.                        *)
LEMMA PendingBacked ==
    ASSUME NEW c \in Content, Pending(c)'
    PROVE  Backed(c)'
BY DEF Backed, Covered

(* A content sent now is backed: no stamp is later than now.                *)
LEMMA SentBacked ==
    ASSUME TInv', ClockAhead', NEW c \in Content, Sent(c), now' = now
    PROVE  Backed(c)'
<1>1. \A a \in Stamps(c)' : a <= now'
  BY DEF TInv, TypeOK, ClockAhead, Stamps
<1> QED  BY <1>1 DEF Backed, Covered, Sent

(* The inductive invariant: IInv, with its two parts about stamps stated    *)
(* content by content.                                                      *)
BInv ==
    /\ TInv
    /\ ClockAhead
    /\ MarkerKept
    /\ \A c \in Content : Backed(c)

(* No step of a request breaks the invariant, by its effect.                *)
LEMMA ProcessKeeps ==
    ASSUME BInv, TInv', NEW p \in Procs,
           Start(p) \/ Work(p) \/ ReadMarkerFails(p) \/ Kill(p)
    PROVE  BInv'
<1>1. Effect(p)  BY ProcessEffect DEF BInv
<1>2. ClockAhead'
  <2>1. /\ now \in Nat /\ now' = now /\ marker' = marker /\ stamp' = stamp
        /\ ClockAhead /\ seen'[p] <= now
        /\ \A q \in Procs \ {p} : seen'[q] = seen[q]
    BY <1>1 DEF BInv, TInv, TypeOK, Effect, StepOf
  <2>2. \A c \in Content : accessedAt'[c] \in {accessedAt[c], now} /\ sentAt'[c] \in {sentAt[c], now}
    BY <1>1 DEF Effect
  <2>3. \A c \in Content : accessedAt'[c] <= now' /\ sentAt'[c] <= now'
    BY <2>1, <2>2 DEF ClockAhead
  <2>4. \A q \in Procs : seen'[q] <= now'
    BY <2>1 DEF ClockAhead
  <2> QED  BY <2>1, <2>3, <2>4 DEF ClockAhead
<1>3. MarkerKept'  BY <1>1 DEF BInv, MarkerKept, Effect, StepOf
<1>4. ASSUME NEW c \in Content PROVE Backed(c)'
  <2>1. CASE Framed(p, c)  BY <1>1, <2>1, FramedBacked DEF BInv, Effect
  <2>2. CASE Pending(c)'  BY <2>2, PendingBacked
  <2>3. CASE Sent(c)  BY <1>1, <1>2, <2>3, SentBacked DEF Effect, StepOf
  <2> QED  BY <1>1, <2>1, <2>2, <2>3 DEF Effect
<1> QED  BY <1>2, <1>3, <1>4 DEF BInv

-----------------------------------------------------------------------------
(* The steps that are no process's.                                         *)

(* What a step of the clock, a notifier, a reset or the host leaves alone.  *)
LEMMA OutsideStamps ==
    ASSUME UNCHANGED <<pc, cur, seen>>, NEW c \in Content,
           accessedAt'[c] \in {accessedAt[c], 0}
    PROVE  \A a \in Stamps(c)' : a \in Stamps(c) \/ a = 0
BY DEF Stamps

(* What was pending stays pending while no request moves.                   *)
LEMMA OutsidePending ==
    ASSUME UNCHANGED <<pc, cur, want>>, NEW c \in Content, unbacked \subseteq unbacked'
    PROVE  Pending(c) => Pending(c)'
BY DEF Pending, InFlight

(* Every stamp is an instant.                                               *)
LEMMA StampType ==
    ASSUME TInv, NEW c \in Content, NEW a \in Stamps(c)
    PROVE  a \in Nat
BY DEF TInv, TypeOK, Stamps

(* Time passing makes no stamp fresh.                                       *)
LEMMA TimePasses ==
    ASSUME BInv, TInv', UNCHANGED <<accessedAt, marker, pc, locals, ghosts>>, now' = now + 1
    PROVE  \A c \in Content : Backed(c)'
<1> SUFFICES ASSUME NEW c \in Content PROVE Backed(c)'
  OBVIOUS
<1>1. Stamps(c)' = Stamps(c)  BY DEF Stamps
<1>2. Pending(c)' <=> Pending(c)  BY DEF Pending, InFlight
<1>3. ASSUME NEW a \in Stamps(c), Fresh(a)' PROVE Fresh(a)
  BY <1>3, StampType, BoundsAssumption DEF BInv, TInv, TypeOK, Fresh
<1> QED  BY <1>1, <1>2, <1>3 DEF BInv, Backed, Covered

(* A marker lowered, or raised, to m.                                       *)
LEMMA MarkerChanges ==
    ASSUME BInv, TInv', NEW m \in Nat, marker' = m, unbacked' = unbacked \cup Unstaled(m),
           UNCHANGED <<accessedAt, now, pc, locals, context, sentAt>>
    PROVE  \A c \in Content : Backed(c)'
<1> SUFFICES ASSUME NEW c \in Content PROVE Backed(c)'
  OBVIOUS
<1>1. Stamps(c)' = Stamps(c)  BY DEF Stamps
<1>2. Pending(c) => Pending(c)'  BY OutsidePending
<1>3. ASSUME NEW a \in Stamps(c), a # 0, Fresh(a)' PROVE Covered(c)'
  <2>1. CASE Fresh(a)
    <3>1. Covered(c)  BY <1>3, <2>1 DEF BInv, Backed
    <3> QED  BY <1>2, <3>1 DEF Covered
  <2>2. CASE ~Fresh(a)
    <3>1. a < marker /\ ~(a < m)  BY <1>3, <2>2 DEF Fresh
    <3>2. CASE c \in context  BY <3>2 DEF Covered
    <3>3. CASE c \notin context
      <4>1. c \in Unstaled(m)  BY <1>3, <3>1, <3>3 DEF Unstaled
      <4> QED  BY <4>1 DEF Covered, Pending
    <3> QED  BY <3>2, <3>3
  <2> QED  BY <2>1, <2>2
<1> QED  BY <1>1, <1>2, <1>3 DEF BInv, Backed

(* After Lost(m) and a marker m, no hook trusts a marker that is not there. *)
LEMMA LostKeepsMarker ==
    ASSUME TInv, NEW m \in Nat, NEW h \in Notifiers, Lost(m)[h] = "compact"
    PROVE  npc[h] = "compact" /\ stamp[h] <= m
BY DEF TInv, TypeOK, Lost

(* notify_compaction reading the clock lets time pass and nothing else.     *)
LEMMA ReadClockKeeps ==
    ASSUME BInv, TInv', NEW n \in Notifiers, ReadClock(n)
    PROVE  BInv'
<1>1. ClockAhead'  BY DEF ReadClock, BInv, TInv, TypeOK, ClockAhead
<1>2. MarkerKept'  BY DEF ReadClock, BInv, TInv, TypeOK, MarkerKept
<1>3. \A c \in Content : Backed(c)'  BY TimePasses DEF ReadClock
<1> QED  BY <1>1, <1>2, <1>3 DEF BInv

(* Writing the marker, even one older than the marker there, keeps the      *)
(* invariant: what it un-stales is recorded, and so is the hook it overtakes.*)
LEMMA WriteMarkerKeeps ==
    ASSUME BInv, TInv', NEW n \in Notifiers, WriteMarker(n)
    PROVE  BInv'
<1>1. stamp[n] \in Nat /\ stamp[n] <= now /\ stamp' = stamp /\ marker' = stamp[n]
  BY DEF WriteMarker, BInv, TInv, TypeOK, ClockAhead
<1>2. ClockAhead'  BY <1>1 DEF WriteMarker, BInv, ClockAhead
<1>3. ASSUME NEW h \in Notifiers, npc'[h] = "compact" PROVE stamp'[h] <= marker'
  <2>1. CASE h = n  BY <1>1, <2>1
  <2>2. CASE h # n
    <3>1. Lost(stamp[n])[h] = "compact"
      BY <1>3, <2>2 DEF WriteMarker, Lost
    <3> QED  BY <1>1, <3>1, LostKeepsMarker DEF BInv
  <2> QED  BY <2>1, <2>2
<1>4. \A c \in Content : Backed(c)'  BY <1>1, MarkerChanges DEF WriteMarker
<1> QED  BY <1>2, <1>3, <1>4 DEF BInv, MarkerKept

(* A notification that fails keeps the invariant: no one relies on it.      *)
LEMMA NotifyFailsKeeps ==
    ASSUME BInv, TInv', NEW n \in Notifiers, NotifyFails(n)
    PROVE  BInv'
<1>1. ClockAhead'  BY DEF NotifyFails, BInv, ClockAhead
<1>2. MarkerKept'  BY DEF NotifyFails, BInv, TInv, TypeOK, MarkerKept
<1>3. ASSUME NEW c \in Content PROVE Backed(c)'
  <2>1. Stamps(c)' = Stamps(c) /\ (Pending(c)' <=> Pending(c))
    BY DEF NotifyFails, Stamps, Pending, InFlight
  <2>2. \A a : Fresh(a)' <=> Fresh(a)  BY DEF NotifyFails, Fresh
  <2> QED  BY <2>1, <2>2 DEF NotifyFails, BInv, Backed, Covered
<1> QED  BY <1>1, <1>2, <1>3 DEF BInv

(* The host takes the context away: a stamp that is fresh afterwards was    *)
(* made after the marker, or the content was not in the context before.    *)
LEMMA HostCompactsKeeps ==
    ASSUME BInv, TInv', NEW n \in Notifiers, HostCompacts(n)
    PROVE  BInv'
<1>1. ClockAhead'  BY DEF HostCompacts, BInv, TInv, TypeOK, ClockAhead
<1>2. MarkerKept'  BY DEF HostCompacts, BInv, TInv, TypeOK, MarkerKept
<1>3. ASSUME NEW c \in Content PROVE Backed(c)'
  <2>1. Stamps(c)' = Stamps(c)  BY DEF HostCompacts, Stamps
  <2>2. Pending(c) => Pending(c)'  BY OutsidePending DEF HostCompacts
  <2>3. \A a : Fresh(a)' <=> Fresh(a)  BY DEF HostCompacts, Fresh
  <2>4. ASSUME NEW a \in Stamps(c), a # 0, Fresh(a) PROVE Pending(c)'
    <3>1. CASE c \in context /\ npc[n] = "lost"
      BY <3>1 DEF HostCompacts, Pending
    <3>2. CASE c \in context /\ npc[n] = "compact"
      <4>1. a >= stamp[n]
        <5>1. stamp[n] <= marker  BY <3>2 DEF BInv, MarkerKept
        <5> QED  BY <2>4, <5>1, StampType DEF BInv, TInv, TypeOK, Fresh
      <4>2. c \in unbacked'  BY <3>2, <4>1 DEF HostCompacts
      <4> QED  BY <4>2 DEF Pending
    <3>3. CASE c \notin context
      <4>1. Covered(c)  BY <2>4 DEF BInv, Backed
      <4> QED  BY <2>2, <3>3, <4>1 DEF Covered
    <3> QED  BY <3>1, <3>2, <3>3 DEF HostCompacts
  <2>5. c \notin context'  BY DEF HostCompacts
  <2> QED  BY <2>1, <2>3, <2>4, <2>5 DEF Backed, Covered
<1> QED  BY <1>1, <1>2, <1>3 DEF BInv

(* clear_cache deleting the rows leaves fewer stamps to back.               *)
LEMMA DeleteRowsKeeps ==
    ASSUME BInv, TInv', DeleteRows
    PROVE  BInv'
<1>1. ClockAhead'  BY DEF DeleteRows, BInv, TInv, TypeOK, ClockAhead
<1>2. MarkerKept'  BY DEF DeleteRows, BInv, MarkerKept
<1>3. ASSUME NEW c \in Content PROVE Backed(c)'
  <2>1. \A a \in Stamps(c)' : a \in Stamps(c) \/ a = 0  BY OutsideStamps DEF DeleteRows
  <2>2. Pending(c)' <=> Pending(c)  BY DEF DeleteRows, Pending, InFlight
  <2>3. \A a : Fresh(a)' <=> Fresh(a)  BY DEF DeleteRows, Fresh
  <2>4. 0 <= sentAt'[c] /\ UNCHANGED <<context, sentAt>>  BY DEF DeleteRows, TInv, TypeOK
  <2> QED  BY <2>1, <2>2, <2>3, <2>4 DEF BInv, Backed, Covered
<1> QED  BY <1>1, <1>2, <1>3 DEF BInv

(* clear_cache deleting the marker un-stales what it recorded, if anything. *)
LEMMA DeleteMarkerKeeps ==
    ASSUME BInv, TInv', DeleteMarker
    PROVE  BInv'
<1>1. ClockAhead'  BY DEF DeleteMarker, BInv, TInv, TypeOK, ClockAhead
<1>2. ASSUME NEW h \in Notifiers, npc'[h] = "compact" PROVE stamp'[h] <= marker'
  BY <1>2, LostKeepsMarker DEF DeleteMarker, BInv
<1>3. \A c \in Content : Backed(c)'  BY MarkerChanges DEF DeleteMarker
<1> QED  BY <1>1, <1>2, <1>3 DEF BInv, MarkerKept

(* The clock keeps the invariant: stamps only age.                          *)
LEMMA TickKeeps ==
    ASSUME BInv, TInv', Tick
    PROVE  BInv'
<1>1. ClockAhead'  BY DEF Tick, BInv, TInv, TypeOK, ClockAhead
<1>2. MarkerKept'  BY DEF Tick, BInv, MarkerKept
<1>3. \A c \in Content : Backed(c)'  BY TimePasses DEF Tick
<1> QED  BY <1>1, <1>2, <1>3 DEF BInv

(* The window rolls over d only when every stamp a delivery backs is old.   *)
LEMMA RollOverKeeps ==
    ASSUME BInv, TInv', NEW d \in Content, RollOver(d)
    PROVE  BInv'
<1>1. ClockAhead'  BY DEF RollOver, BInv, ClockAhead
<1>2. MarkerKept'  BY DEF RollOver, BInv, MarkerKept
<1>3. ASSUME NEW c \in Content PROVE Backed(c)'
  <2>1. Stamps(c)' = Stamps(c) /\ (Pending(c)' <=> Pending(c))
    BY DEF RollOver, Stamps, Pending, InFlight
  <2>2. \A a : Fresh(a)' <=> Fresh(a)  BY DEF RollOver, Fresh
  <2>3. CASE c # d
    <3>1. c \in context' <=> c \in context  BY <2>3 DEF RollOver
    <3> QED  BY <2>1, <2>2, <3>1 DEF RollOver, BInv, Backed, Covered
  <2>4. CASE c = d
    <3>1. c \notin context'  BY <2>4 DEF RollOver
    <3>2. ASSUME NEW a \in Stamps(c), Fresh(a) PROVE Pending(c)
      <4>1. a <= sentAt[c] \/ Pending(c)  BY <2>4 DEF RollOver, BInv, Backed
      <4>2. now - sentAt[c] >= MaxRefAge  BY <2>4 DEF RollOver
      <4>3. a \in Nat /\ now \in Nat /\ sentAt[c] \in Nat /\ MaxRefAge \in Nat
        BY <3>2, StampType, BoundsAssumption DEF BInv, TInv, TypeOK
      <4>4. now - a < MaxRefAge  BY <3>2 DEF Fresh
      <4>5. ~(a <= sentAt[c])  BY <4>2, <4>3, <4>4
      <4> QED  BY <4>1, <4>5
    <3> QED  BY <2>1, <2>2, <3>1, <3>2 DEF Backed, Covered
  <2> QED  BY <2>3, <2>4
<1> QED  BY <1>1, <1>2, <1>3 DEF BInv

(* Nothing is stamped at first.                                             *)
LEMMA SafetyInit == Init => BInv
<1> SUFFICES ASSUME Init PROVE BInv
  OBVIOUS
<1>1. TInv  BY TypeInit
<1>2. ClockAhead /\ MarkerKept  BY DEF Init, ClockAhead, MarkerKept
<1>3. ASSUME NEW c \in Content, NEW a \in Stamps(c) PROVE a = 0
  BY <1>3 DEF Init, Stamps
<1>4. \A c \in Content : Backed(c)  BY <1>3 DEF Init, Backed
<1> QED  BY <1>1, <1>2, <1>4 DEF BInv

(* Every step keeps the invariant, one step of the proof per action of Next.*)
LEMMA SafetyStep == BInv /\ [Next]_vars => BInv'
<1> SUFFICES ASSUME BInv, [Next]_vars PROVE BInv'
  OBVIOUS
<1>1. TInv'  BY TypeStep, LocalsStep DEF BInv, TInv
<1>2. CASE \E p \in Procs : Start(p) \/ Work(p) \/ ReadMarkerFails(p) \/ Kill(p)
  BY <1>1, <1>2, ProcessKeeps
<1>3. CASE \E n \in Notifiers : ReadClock(n) \/ WriteMarker(n) \/ NotifyFails(n) \/ HostCompacts(n)
  BY <1>1, <1>3, ReadClockKeeps, WriteMarkerKeeps, NotifyFailsKeeps, HostCompactsKeeps
<1>4. CASE DeleteRows \/ DeleteMarker
  BY <1>1, <1>4, DeleteRowsKeeps, DeleteMarkerKeeps
<1>5. CASE DeleteMarkerFails \/ UNCHANGED vars
  <2>1. UNCHANGED <<store, now, pc, locals, notifier, ghosts>>
    BY <1>5 DEF DeleteMarkerFails, vars
  <2>2. ClockAhead' /\ MarkerKept'  BY <2>1 DEF BInv, ClockAhead, MarkerKept
  <2>3. ASSUME NEW c \in Content PROVE Backed(c)'
    <3>1. Stamps(c)' = Stamps(c) /\ (Pending(c)' <=> Pending(c))
      BY <2>1 DEF Stamps, Pending, InFlight
    <3>2. \A a : Fresh(a)' <=> Fresh(a)  BY <2>1 DEF Fresh
    <3> QED  BY <2>1, <3>1, <3>2 DEF BInv, Backed, Covered
  <2> QED  BY <1>1, <2>2, <2>3 DEF BInv
<1>6. CASE Tick  BY <1>1, <1>6, TickKeeps
<1>7. CASE \E c \in Content : RollOver(c)  BY <1>1, <1>7, RollOverKeeps
<1> QED  BY <1>2, <1>3, <1>4, <1>5, <1>6, <1>7 DEF Next

(* BInv is the inductive invariant that the runs check as IInv.             *)
THEOREM InvCorrect == Spec => []IInv
<1>1. BInv => IInv
  <2> SUFFICES ASSUME BInv PROVE IInv
    OBVIOUS
  <2>1. StampsAreBacked  BY DEF BInv, TInv, TypeOK, Backed, StampsAreBacked
  <2>2. FreshIsCovered  BY DEF BInv, Backed, FreshIsCovered
  <2> QED  BY <2>1, <2>2 DEF BInv, TInv, IInv
<1> QED  BY <1>1, SafetyInit, SafetyStep, PTL DEF Spec

(* A stamp that is_ref_fresh would accept, in whatever order the statements *)
(* of requests, hooks, compactions and resets interleave, is one of a       *)
(* content that the model has, is about to be sent, or was stamped by       *)
(* something that sends nothing.                                           *)
THEOREM FreshCorrect == Spec => []FreshIsCovered
<1>1. IInv => FreshIsCovered  BY DEF IInv
<1> QED  BY <1>1, InvCorrect, PTL

(* Only the two outcomes of reading the marker decide for a ref.            *)
LEMMA DecidingStep ==
    ASSUME BInv, [Next]_vars, NEW p \in Procs, Decides(p)
    PROVE  ReadMarker(p) \/ ReadMarkerFails(p)
<1>1. pc[p] = "marker" /\ pc'[p] = "touch"  BY DEF Decides
<1>2. ASSUME NEW q \in Procs, Start(q) \/ Work(q) \/ ReadMarkerFails(q) \/ Kill(q)
      PROVE  ReadMarker(p) \/ ReadMarkerFails(p)
  <2>1. CASE q # p
    <3>1. StepOf(q)  BY <1>2, ProcessEffect DEF BInv, Effect
    <3> QED  BY <1>1, <2>1, <3>1 DEF StepOf
  <2>2. CASE q = p /\ Start(p)
    BY <1>1, <2>2 DEF Start, StartCompress, StartCall, StartExpand
  <2>3. CASE q = p /\ Work(p)
    BY <1>1, <2>3 DEF Work, NextDependency, DependenciesDone, Exists, ReadAccessed, TouchRef,
       SendRef, ListRecent, Probe, ProbeTouch, Compress, CompressUnstored, Save, RecordSent,
       Recompress, Resend, SendFull, SendDelta, Lookup, LookupTouch, Discard
  <2>4. CASE q = p /\ Kill(p)
    <3>1. pc'[p] = "idle"  BY <2>4 DEF Kill, Idle, Goto, BInv, TInv, TypeOK
    <3> QED  BY <1>1, <3>1
  <2> QED  BY <1>2, <2>1, <2>2, <2>3, <2>4
<1>3. ASSUME pc' = pc PROVE FALSE
  BY <1>1, <1>3
<1>4. ASSUME NEW n \in Notifiers, ReadClock(n) \/ WriteMarker(n) \/ NotifyFails(n) \/ HostCompacts(n)
      PROVE  pc' = pc
  BY <1>4 DEF ReadClock, WriteMarker, NotifyFails, HostCompacts
<1>5. ASSUME DeleteRows \/ DeleteMarker \/ DeleteMarkerFails \/ Tick
      PROVE  pc' = pc
  BY <1>5 DEF DeleteRows, DeleteMarker, DeleteMarkerFails, Tick
<1>6. ASSUME NEW c \in Content, RollOver(c) PROVE pc' = pc
  BY <1>6 DEF RollOver
<1>7. ASSUME UNCHANGED vars PROVE pc' = pc
  BY <1>7 DEF vars
<1> QED  BY <1>2, <1>3, <1>4, <1>5, <1>6, <1>7 DEF Next

(* A request decides to answer with a ref only for such a content.          *)
THEOREM RefsCorrect == Spec => RefsAreCovered
<1>1. ASSUME BInv, [Next]_vars PROVE [\A p \in Procs : Decides(p) => Covered(cur[p])']_vars
  <2> SUFFICES ASSUME NEW p \in Procs, Decides(p) PROVE Covered(cur[p])'
    OBVIOUS
  <2>1. CASE ReadMarker(p)
    <3>1. pc[p] = "marker" /\ cur' = cur /\ want' = want /\ UNCHANGED ghosts
      BY <2>1 DEF ReadMarker
    <3>2. cur[p] \in Content /\ seen[p] # 0
      <4>1. LocalsConsistent  BY <1>1 DEF BInv, TInv
      <4> QED  BY <3>1, <4>1 DEF LocalsConsistent
    <3>3. seen[p] \in Stamps(cur[p])  BY <3>1 DEF Stamps
    <3>4. Fresh(seen[p])
      <4>1. pc'[p] = IF Fresh(seen[p]) THEN "touch" ELSE NotFresh(p)
        <5>1. p \in DOMAIN pc  BY <1>1 DEF BInv, TInv, TypeOK
        <5> QED  BY <2>1, <5>1 DEF ReadMarker, Goto
      <4>2. NotFresh(p) # "touch"  BY DEF NotFresh
      <4> QED  BY <4>1, <4>2 DEF Decides
    <3>5. Covered(cur[p])  BY <1>1, <3>2, <3>3, <3>4 DEF BInv, Backed
    <3>6. ASSUME NEW q \in Procs, InFlight(q) PROVE InFlight(q)'
      <4>1. q # p  BY <3>1, <3>6 DEF InFlight
      <4>2. pc'[q] = pc[q]  BY <2>1, <4>1 DEF ReadMarker, Goto
      <4> QED  BY <3>1, <3>6, <4>2 DEF InFlight
    <3> QED  BY <3>1, <3>5, <3>6 DEF Covered, Pending
  <2>2. CASE ReadMarkerFails(p)
    <3>1. cur' = cur /\ unbacked' = unbacked \cup {cur[p]}  BY <2>2 DEF ReadMarkerFails
    <3> QED  BY <3>1 DEF Covered, Pending
  <2> QED  BY <1>1, <2>1, <2>2, DecidingStep
<1> QED  BY <1>1, SafetyInit, SafetyStep, PTL DEF Spec, RefsAreCovered

(* The system of one request at a time, with hooks, compactions, resets and *)
(* kills in between, takes no step that the full one cannot, so what is     *)
(* fresh is covered there, too, and so is what is decided.                  *)
THEOREM AloneCorrect == AloneSpec => []FreshIsCovered /\ RefsAreCovered
<1>1. [AloneNext]_vars => [Next]_vars  BY DEF AloneNext, Next
<1>2. AloneSpec => Spec  BY <1>1, PTL DEF AloneSpec, Spec
<1> QED  BY <1>2, FreshCorrect, RefsCorrect

=============================================================================
