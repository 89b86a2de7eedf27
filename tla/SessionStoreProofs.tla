------------------------- MODULE SessionStoreProofs -------------------------
(* Proofs about SessionStore: its types and its inductive invariant.         *)
EXTENDS SessionStore, TLAPS

(* At first no engine has opened anything, and what is written is exact.     *)
LEMMA Start0 == Init => TypeOK /\ IInv
<1> SUFFICES ASSUME Init PROVE TypeOK /\ IInv  OBVIOUS
<1> USE BoundsAssumption, NoneAssumption, ExportsAssumption
<1>1. PICK r \in Exports \cup {None} : row = [f \in Files |-> IF f = path THEN r ELSE None]
  BY DEF Init
<1>2. r \in Sessions \cup {None} /\ (r # None => r.pins = r.flags)
  BY <1>1
<1>3. row \in [Files -> Sessions \cup {None}] /\ PinsAreFlagged
  BY <1>1, <1>2 DEF PinsAreFlagged
<1>4. path \in 0..MaxFiles /\ made = path
  BY DEF Init
<1>5. TypeOK
  BY <1>3, <1>4 DEF Init, TypeOK, Labels, Counters, Stores, Files
<1>6. IInv
  BY <1>3, <1>4 DEF Init, IInv, UpdatesAreExact, OneDatabase, FilesConsistent, AllOpened,
     ReadsAreCurrent, SessionsAreKept, Counters, Stores, Files
<1> QED  BY <1>5, <1>6

(* An engine that is in a call works on three database files.               *)
LEMMA Connected ==
    ASSUME TypeOK, AllOpened, NEW e \in Engines,
           pc[e] \in {"idle", "counting", "pinning", "unpinning"}
    PROVE  \A s \in Stores : conn[e][s] \in Files
BY BoundsAssumption DEF TypeOK, AllOpened, Files

(* pin and unpin make a session of a session, and change pins and flags     *)
(* alike.                                                                    *)
LEMMA ChangedSession ==
    ASSUME NEW e \in Engines, NEW s \in Sessions, arg[e] \in Turns
    PROVE  /\ Changed(e, s) \in Sessions
           /\ s.pins = s.flags => Changed(e, s).pins = Changed(e, s).flags
BY DEF Changed, Pinned, Unpinned, Sessions

(* A connection that is opened is one to a file, and the third is the last.  *)
LEMMA ConnectTypes ==
    ASSUME TypeOK, AllOpened, NEW e \in Engines, NEW f \in Files, Connect(e, f)
    PROVE  /\ conn' \in [Engines -> [Stores -> 0..MaxFiles]]
           /\ pc' \in [Engines -> Labels]
           /\ pc'[e] \in {"open", "idle"} /\ \A o \in Engines \ {e} : pc'[o] = pc[o]
           /\ AllOpened'
           /\ \A o \in Engines : \A s \in Stores : conn'[o][s] \in {conn[o][s], f}
<1> USE BoundsAssumption
<1>1. PICK s \in Stores :
          /\ conn[e][s] = 0 /\ \A r \in Stores : r < s => conn[e][r] # 0
          /\ conn' = [conn EXCEPT ![e][s] = f]
          /\ Goto(e, IF s = pin_store THEN "idle" ELSE "open")
  BY DEF Connect
<1>2. conn \in [Engines -> [Stores -> 0..MaxFiles]] /\ pc \in [Engines -> Labels]
  BY DEF TypeOK
<1>3. f \in 0..MaxFiles /\ f # 0
  BY DEF Files
<1>4. conn' \in [Engines -> [Stores -> 0..MaxFiles]]
  BY <1>1, <1>2, <1>3
<1>5. pc' \in [Engines -> Labels] /\ pc'[e] = (IF s = pin_store THEN "idle" ELSE "open")
         /\ \A o \in Engines \ {e} : pc'[o] = pc[o]
  BY <1>1, <1>2 DEF Goto, Labels
<1>6. \A o \in Engines \ {e} : conn'[o] = conn[o]
  BY <1>1, <1>2
<1>7. conn'[e][s] = f /\ \A r \in Stores \ {s} : conn'[e][r] = conn[e][r]
  BY <1>1, <1>2
<1>8. s = pin_store => \A r \in Stores : conn'[e][r] # 0
  BY <1>1, <1>3, <1>7 DEF Stores, pin_store
<1>9. AllOpened'
  BY <1>5, <1>6, <1>8 DEF AllOpened
<1> QED  BY <1>4, <1>5, <1>6, <1>7, <1>9

(* Every step keeps the types, given that engines in a call are connected.  *)
LEMMA TypesNext ==
    TypeOK /\ AllOpened /\ SessionsAreKept /\ [Next]_vars => TypeOK' /\ AllOpened'
<1> SUFFICES ASSUME TypeOK, AllOpened, SessionsAreKept, [Next]_vars
             PROVE  TypeOK' /\ AllOpened'
  OBVIOUS
<1> USE BoundsAssumption, NoneAssumption, ExportsAssumption
<1>1. ASSUME NEW e \in Engines, Start(e) PROVE TypeOK' /\ AllOpened'
  BY <1>1 DEF Start, Goto, Kept, call, TypeOK, AllOpened, Labels
<1>2. ASSUME NEW e \in Engines, Open(e) PROVE TypeOK' /\ AllOpened'
  <2>1. PICK f \in Files : Connect(e, f) /\ path' = f /\ made' \in 0..MaxFiles
    <3>1. CASE path # 0 /\ path \notin corrupt /\ Connect(e, path) /\ UNCHANGED <<path, made>>
      BY <3>1 DEF TypeOK, Files
    <3>2. CASE path = 0 /\ made < MaxFiles /\ made' = made + 1 /\ path' = made' /\ Connect(e, made')
      <4>1. made + 1 \in Files
        BY <3>2 DEF TypeOK, Files
      <4> QED  BY <3>2, <4>1 DEF Files
    <3> QED  BY <1>2, <3>1, <3>2 DEF Open
  <2>2. path' \in 0..MaxFiles /\ made' \in 0..MaxFiles
    BY <2>1 DEF Files
  <2>3. UNCHANGED <<corrupt, failedOn, removed, counters, row, counted, acked, overlapped,
                    count, session, arg, calls>>
    BY <1>2 DEF Open, Kept, call
  <2>4. /\ conn' \in [Engines -> [Stores -> 0..MaxFiles]] /\ pc' \in [Engines -> Labels]
        /\ pc'[e] \in {"open", "idle"} /\ \A o \in Engines \ {e} : pc'[o] = pc[o]
        /\ AllOpened'
    BY <2>1, ConnectTypes
  <2> QED  BY <2>2, <2>3, <2>4 DEF TypeOK
<1>3. ASSUME NEW e \in Engines, OpenFails(e) PROVE TypeOK' /\ AllOpened'
  BY <1>3 DEF OpenFails, Goto, Kept, call, TypeOK, AllOpened, Labels
<1>4. ASSUME NEW e \in Engines, Remove(e) PROVE TypeOK' /\ AllOpened'
  BY <1>4 DEF Remove, Goto, Kept, call, TypeOK, AllOpened, Labels, Files
<1>5. ASSUME NEW e \in Engines, RemoveFails(e) PROVE TypeOK' /\ AllOpened'
  BY <1>5 DEF RemoveFails, Goto, Kept, call, TypeOK, AllOpened, Labels
<1>6. ASSUME NEW e \in Engines, Quit(e) PROVE TypeOK' /\ AllOpened'
  BY <1>6 DEF Quit, EndCall, Goto, disk, history, TypeOK, AllOpened, Labels
<1>7. ASSUME NEW e \in Engines, NEW k \in Counters, ReadCounter(e, k) PROVE TypeOK' /\ AllOpened'
  <2>1. conn[e][cache_store] \in Files
    BY <1>7, Connected DEF ReadCounter, Begin, Stores, cache_store
  <2> QED
    BY <1>7, <2>1 DEF ReadCounter, Begin, Goto, Same, TypeOK, AllOpened, Labels
<1>8. ASSUME NEW e \in Engines, NEW k \in Counters, ReadCounterFails(e, k) PROVE TypeOK' /\ AllOpened'
  <2>1. conn[e][cache_store] \in Files
    BY <1>8, Connected DEF ReadCounterFails, Begin, Stores, cache_store
  <2> QED
    BY <1>8, <2>1 DEF ReadCounterFails, Begin, Goto, Same, TypeOK, AllOpened, Labels
<1>9. ASSUME NEW e \in Engines, NEW t \in Turns, NEW l \in {"pinning", "unpinning"}, Load(e, t, l)
      PROVE TypeOK' /\ AllOpened'
  <2>1. conn[e][pin_store] \in Files
    BY <1>9, Connected DEF Load, Begin, Stores, pin_store
  <2>2. row[conn[e][pin_store]] \in Sessions
    BY <1>9, <2>1 DEF Load, TypeOK
  <2> QED
    BY <1>9, <2>1, <2>2 DEF Load, Begin, Goto, Same, TypeOK, AllOpened, Labels
<1>10. ASSUME NEW e \in Engines, WriteCounter(e) PROVE TypeOK' /\ AllOpened'
  <2> DEFINE f == conn[e][cache_store]
             k == arg[e]
  <2>1. f \in Files /\ k \in Counters /\ count[e] + 1 \in Nat
    BY <1>10, Connected DEF WriteCounter, TypeOK, Stores, cache_store
  <2>2. counters' \in [Files -> [Counters -> Nat]] /\ counted' \in [Files -> [Counters -> Nat]]
    BY <1>10, <2>1 DEF WriteCounter, TypeOK
  <2>3. overlapped' \subseteq Files \X (Counters \cup {"session"})
    BY <1>10, <2>1 DEF WriteCounter, Overlap, TypeOK
  <2> QED
    BY <1>10, <2>2, <2>3 DEF WriteCounter, EndCall, Goto, Same, TypeOK, AllOpened, Labels
<1>11. ASSUME NEW e \in Engines, Save(e) PROVE TypeOK' /\ AllOpened'
  <2> DEFINE f == conn[e][pin_store]
  <2>1. f \in Files /\ session[e] \in Sessions /\ arg[e] \in Turns
    BY <1>11, Connected DEF Save, TypeOK, Stores, pin_store
  <2>2. Changed(e, session[e]) \in Sessions
    BY <2>1, ChangedSession
  <2>3. row' \in [Files -> Sessions \cup {None}]
    BY <1>11, <2>2 DEF Save, TypeOK
  <2>4. acked[f] \in Sessions
    BY <1>11, <2>1 DEF Save, TypeOK, SessionsAreKept
  <2>5. Changed(e, acked[f]) \in Sessions
    BY <2>1, <2>4, ChangedSession
  <2>6. acked' \in [Files -> Sessions \cup {None}]
    BY <1>11, <2>5 DEF Save, TypeOK
  <2>7. overlapped' \subseteq Files \X (Counters \cup {"session"})
    BY <1>11, <2>1 DEF Save, Overlap, TypeOK
  <2> QED
    BY <1>11, <2>3, <2>6, <2>7 DEF Save, EndCall, Goto, Same, TypeOK, AllOpened, Labels
<1>12. ASSUME NEW e \in Engines, NEW s \in Exports, Import(e, s) PROVE TypeOK' /\ AllOpened'
  <2>1. conn[e][session_store] \in Files
    BY <1>12, Connected DEF Import, Begin, Stores, session_store
  <2>2. s \in Sessions
    OBVIOUS
  <2> QED
    BY <1>12, <2>1, <2>2 DEF Import, Begin, Overlap, Same, call, TypeOK, AllOpened
<1>13. ASSUME NEW e \in Engines, WriteFails(e) PROVE TypeOK' /\ AllOpened'
  BY <1>13 DEF WriteFails, EndCall, Goto, disk, history, TypeOK, AllOpened, Labels
<1>14. CASE Corrupt
  BY <1>14 DEF Corrupt, Kept, call, TypeOK, AllOpened, Files
<1>15. CASE UNCHANGED vars
  BY <1>15 DEF vars, disk, call, history, TypeOK, AllOpened
<1> QED
  BY <1>1, <1>2, <1>3, <1>4, <1>5, <1>6, <1>7, <1>8, <1>9, <1>10, <1>11, <1>12, <1>13, <1>14,
     <1>15 DEF Next

(* Every step keeps the part of the invariant that is about the files and    *)
(* who is connected to which.                                                *)
LEMMA FilesNext ==
    TypeOK /\ AllOpened /\ OneDatabase /\ FilesConsistent /\ [Next]_vars
        => OneDatabase' /\ FilesConsistent'
<1> SUFFICES ASSUME TypeOK, AllOpened, OneDatabase, FilesConsistent, [Next]_vars
             PROVE  OneDatabase' /\ FilesConsistent'
  OBVIOUS
<1> USE BoundsAssumption DEF OneDatabase, FilesConsistent
<1>1. ASSUME UNCHANGED <<path, made, conn, failedOn, removed>>,
             \A o \in Engines : pc'[o] = "recover" => pc[o] = "recover"
      PROVE  OneDatabase' /\ FilesConsistent'
  BY <1>1
<1>2. ASSUME NEW e \in Engines, Open(e) PROVE OneDatabase' /\ FilesConsistent'
  <2>1. UNCHANGED <<failedOn, removed>> /\ pc[e] # "recover"
    BY <1>2 DEF Open
  <2>2. CASE path # 0 /\ path \notin corrupt /\ Connect(e, path) /\ UNCHANGED <<path, made>>
    <3>1. path \in Files
      BY <2>2 DEF TypeOK, Files
    <3>2. /\ pc'[e] # "recover" /\ \A o \in Engines \ {e} : pc'[o] = pc[o]
          /\ \A o \in Engines : \A s \in Stores : conn'[o][s] \in {conn[o][s], path}
      BY <2>2, <3>1, ConnectTypes
    <3> QED  BY <2>1, <2>2, <3>2
  <2>3. CASE path = 0 /\ made < MaxFiles /\ made' = made + 1 /\ path' = made' /\ Connect(e, made')
    <3>1. made' \in Files /\ made \in Nat
      BY <2>3 DEF TypeOK, Files
    <3>2. /\ pc'[e] # "recover" /\ \A o \in Engines \ {e} : pc'[o] = pc[o]
          /\ \A o \in Engines : \A s \in Stores : conn'[o][s] \in {conn[o][s], made'}
      BY <2>3, <3>1, ConnectTypes
    <3>3. \A f \in removed : f \in Nat
      BY DEF TypeOK, Files
    <3>4. FilesConsistent' /\ path' \notin removed'
      BY <2>1, <2>3, <3>1, <3>3
    <3> QED  BY <2>1, <2>3, <3>2, <3>4
  <2> QED  BY <1>2, <2>2, <2>3 DEF Open
<1>3. ASSUME NEW e \in Engines, OpenFails(e) PROVE OneDatabase' /\ FilesConsistent'
  BY <1>3 DEF OpenFails, Goto, TypeOK
<1>4. ASSUME NEW e \in Engines, Remove(e) PROVE OneDatabase' /\ FilesConsistent'
  <2>1. 0 \notin removed
    BY DEF TypeOK, Files
  <2> QED  BY <1>4, <2>1 DEF Remove, Goto, TypeOK
<1>5. ASSUME NEW e \in Engines, RemoveFails(e) PROVE OneDatabase' /\ FilesConsistent'
  BY <1>5 DEF RemoveFails, Goto, TypeOK
<1>6. ASSUME NEW e \in Engines, Quit(e) PROVE OneDatabase' /\ FilesConsistent'
  BY <1>6 DEF Quit, EndCall, Goto, disk, history, TypeOK
<1>7. ASSUME NEW e \in Engines, Start(e) PROVE OneDatabase' /\ FilesConsistent'
  BY <1>7, <1>1 DEF Start, Goto, TypeOK
<1>8. ASSUME NEW e \in Engines, NEW k \in Counters, ReadCounter(e, k) \/ ReadCounterFails(e, k)
      PROVE  OneDatabase' /\ FilesConsistent'
  BY <1>8, <1>1 DEF ReadCounter, ReadCounterFails, Goto, Same, TypeOK
<1>9. ASSUME NEW e \in Engines, NEW t \in Turns, NEW l \in {"pinning", "unpinning"}, Load(e, t, l)
      PROVE  OneDatabase' /\ FilesConsistent'
  BY <1>9, <1>1 DEF Load, Goto, Same, TypeOK
<1>10. ASSUME NEW e \in Engines, WriteCounter(e) \/ Save(e) PROVE OneDatabase' /\ FilesConsistent'
  BY <1>10, <1>1 DEF WriteCounter, Save, EndCall, Goto, Same, TypeOK
<1>11. ASSUME NEW e \in Engines, NEW s \in Exports, Import(e, s) PROVE OneDatabase' /\ FilesConsistent'
  BY <1>11, <1>1 DEF Import, Same
<1>12. ASSUME NEW e \in Engines, WriteFails(e) PROVE OneDatabase' /\ FilesConsistent'
  BY <1>12, <1>1 DEF WriteFails, EndCall, Goto, disk, history, TypeOK
<1>13. CASE Corrupt \/ UNCHANGED vars
  BY <1>13, <1>1 DEF Corrupt, vars, disk, history
<1> QED
  BY <1>2, <1>3, <1>4, <1>5, <1>6, <1>7, <1>8, <1>9, <1>10, <1>11, <1>12, <1>13 DEF Next

(* A step that writes nothing and reads nothing keeps what is exact, whether *)
(* calls end or not; the connections of an engine in a call stay.            *)
LEMMA IdleKeepsData ==
    ASSUME TypeOK, AllOpened, UpdatesAreExact, PinsAreFlagged, SessionsAreKept, ReadsAreCurrent,
           UNCHANGED <<counters, row, counted, acked, overlapped>>,
           \A o \in Engines : pc'[o] \in {"counting", "pinning", "unpinning"} =>
               pc'[o] = pc[o] /\ conn'[o] = conn[o] /\ count'[o] = count[o]
               /\ session'[o] = session[o] /\ arg'[o] = arg[o]
    PROVE  UpdatesAreExact' /\ PinsAreFlagged' /\ SessionsAreKept' /\ ReadsAreCurrent'
<1>1. UpdatesAreExact' /\ PinsAreFlagged'
  BY DEF UpdatesAreExact, PinsAreFlagged
<1>2. SessionsAreKept'
  BY DEF SessionsAreKept
<1>3. ReadsAreCurrent'
  BY DEF ReadsAreCurrent
<1> QED  BY <1>1, <1>2, <1>3

(* Every step keeps the part of the invariant that is about what is in the   *)
(* files: a read brings what is there, and a write either finds that no      *)
(* other engine holds the item, or declares it overlapped.                   *)
LEMMA DataNext ==
    TypeOK /\ IInv /\ [Next]_vars =>
        UpdatesAreExact' /\ PinsAreFlagged' /\ SessionsAreKept' /\ ReadsAreCurrent'
<1> SUFFICES ASSUME TypeOK, IInv, [Next]_vars
             PROVE  UpdatesAreExact' /\ PinsAreFlagged' /\ SessionsAreKept' /\ ReadsAreCurrent'
  OBVIOUS
<1> DEFINE Data == UpdatesAreExact /\ PinsAreFlagged /\ SessionsAreKept /\ ReadsAreCurrent
<1>a. Data /\ AllOpened
  BY DEF IInv
<1>1. ASSUME NEW e \in Engines,
             Start(e) \/ OpenFails(e) \/ Remove(e) \/ RemoveFails(e)
      PROVE  Data'
  BY <1>1, <1>a, IdleKeepsData DEF Start, OpenFails, Remove, RemoveFails, Goto, Kept, call, TypeOK
<1>2. ASSUME NEW e \in Engines, Open(e) PROVE Data'
  <2>1. UNCHANGED <<counters, row, counted, acked, overlapped, count, session, arg>>
    BY <1>2 DEF Open, Kept, call
  <2>2. PICK f : Connect(e, f)
    BY <1>2 DEF Open
  <2>3. /\ \A o \in Engines \ {e} : pc'[o] = pc[o] /\ conn'[o] = conn[o]
        /\ pc'[e] \in {"open", "idle"}
    BY <2>2 DEF Connect, Goto, TypeOK
  <2> QED  BY <2>1, <2>3, <1>a, IdleKeepsData
<1>3. ASSUME NEW e \in Engines, Quit(e) PROVE Data'
  BY <1>3, <1>a, IdleKeepsData DEF Quit, EndCall, Goto, disk, history, TypeOK
<1>4. ASSUME NEW e \in Engines, WriteFails(e) PROVE Data'
  BY <1>4, <1>a, IdleKeepsData DEF WriteFails, EndCall, Goto, disk, history, TypeOK
<1>5. CASE Corrupt \/ UNCHANGED vars
  BY <1>5, <1>a, IdleKeepsData DEF Corrupt, Kept, vars, disk, history, call
<1>6. ASSUME NEW e \in Engines, NEW k \in Counters, ReadCounter(e, k) PROVE Data'
  <2> DEFINE f == conn[e][cache_store]
  <2>1. f \in Files
    BY <1>6, <1>a, Connected DEF ReadCounter, Begin, Stores, cache_store
  <2>2. /\ UNCHANGED <<counters, row, counted, acked, overlapped, conn, session>>
        /\ pc' = [pc EXCEPT ![e] = "counting"] /\ count' = [count EXCEPT ![e] = counters[f][k]]
        /\ arg' = [arg EXCEPT ![e] = k]
    BY <1>6 DEF ReadCounter, Goto, Same
  <2>3. counters[f][k] <= counted[f][k]
    BY <2>1, <1>a DEF UpdatesAreExact
  <2>4. UpdatesAreExact' /\ PinsAreFlagged' /\ SessionsAreKept'
    BY <2>2, <1>a DEF UpdatesAreExact, PinsAreFlagged, SessionsAreKept, TypeOK
  <2>5. ReadsAreCurrent'
    BY <2>2, <2>3, <1>a DEF ReadsAreCurrent, TypeOK
  <2> QED  BY <2>4, <2>5
<1>7. ASSUME NEW e \in Engines, NEW k \in Counters, ReadCounterFails(e, k) PROVE Data'
  <2> DEFINE f == conn[e][cache_store]
  <2>1. f \in Files
    BY <1>7, <1>a, Connected DEF ReadCounterFails, Begin, Stores, cache_store
  <2>2. /\ UNCHANGED <<counters, row, counted, acked, conn, session>>
        /\ pc' = [pc EXCEPT ![e] = "counting"] /\ count' = [count EXCEPT ![e] = 0]
        /\ arg' = [arg EXCEPT ![e] = k] /\ overlapped' = overlapped \cup {<<f, k>>}
    BY <1>7 DEF ReadCounterFails, Goto, Same
  <2>3. 0 <= counted[f][k]
    BY <2>1 DEF TypeOK
  <2>4. UpdatesAreExact' /\ PinsAreFlagged' /\ SessionsAreKept'
    BY <2>2, <1>a DEF UpdatesAreExact, PinsAreFlagged, SessionsAreKept, TypeOK
  <2>5. ReadsAreCurrent'
    BY <2>2, <2>3, <1>a DEF ReadsAreCurrent, TypeOK
  <2> QED  BY <2>4, <2>5
<1>8. ASSUME NEW e \in Engines, NEW t \in Turns, NEW l \in {"pinning", "unpinning"}, Load(e, t, l)
      PROVE  Data'
  <2> DEFINE f == conn[e][pin_store]
  <2>1. f \in Files
    BY <1>8, <1>a, Connected DEF Load, Begin, Stores, pin_store
  <2>2. /\ UNCHANGED <<counters, row, counted, acked, overlapped, conn, count>>
        /\ pc' = [pc EXCEPT ![e] = l] /\ session' = [session EXCEPT ![e] = row[f]]
        /\ row[f] # None
    BY <1>8 DEF Load, Goto, Same
  <2>3. arg' = [arg EXCEPT ![e] = t]
    BY <1>8 DEF Load
  <2>4. UpdatesAreExact' /\ PinsAreFlagged' /\ SessionsAreKept'
    BY <2>2, <1>a DEF UpdatesAreExact, PinsAreFlagged, SessionsAreKept, TypeOK
  <2>5. row[f].pins = row[f].flags
    BY <2>1, <2>2, <1>a DEF PinsAreFlagged
  <2>6. ReadsAreCurrent'
    BY <2>2, <2>3, <2>5, <1>a DEF ReadsAreCurrent, TypeOK
  <2> QED  BY <2>4, <2>6
<1>9. ASSUME NEW e \in Engines, WriteCounter(e) PROVE Data'
  <2> DEFINE f == conn[e][cache_store]
             k == arg[e]
  <2>1. f \in Files /\ k \in Counters /\ count[e] \in Nat /\ pc[e] = "counting"
    BY <1>9, <1>a, Connected DEF WriteCounter, TypeOK, Stores, cache_store
  <2>2. /\ UNCHANGED <<row, acked, conn>> /\ EndCall(e, "idle")
        /\ counters' = [counters EXCEPT ![f][k] = count[e] + 1]
        /\ counted' = [counted EXCEPT ![f][k] = @ + 1]
        /\ Overlap(e, f, k)
    BY <1>9 DEF WriteCounter, Same
  <2>3. /\ count[e] <= counted[f][k]
        /\ <<f, k>> \notin overlapped => count[e] = counters[f][k] /\ counters[f][k] = counted[f][k]
    BY <2>1, <1>a DEF ReadsAreCurrent, UpdatesAreExact
  <2>4. overlapped \subseteq overlapped' /\ \A x \in overlapped' : x \in overlapped \/ x = <<f, k>>
    BY <2>2 DEF Overlap
  <2>5. k # "session"
    BY <2>1 DEF Counters
  <2>6. /\ counters'[f][k] = count[e] + 1 /\ counted'[f][k] = counted[f][k] + 1
        /\ \A g \in Files : \A c \in Counters : g # f \/ c # k =>
              counters'[g][c] = counters[g][c] /\ counted'[g][c] = counted[g][c]
    BY <2>1, <2>2 DEF TypeOK
  <2>7. \A g \in Files : \A c \in Counters : counted[g][c] \in Nat /\ counters[g][c] \in Nat
    BY DEF TypeOK
  <2>8. UpdatesAreExact'
    <3>1. ASSUME NEW g \in Files, NEW c \in Counters
          PROVE  /\ counters'[g][c] <= counted'[g][c]
                 /\ <<g, c>> \notin overlapped' => counters'[g][c] = counted'[g][c]
      <4>1. CASE g = f /\ c = k
        BY <4>1, <2>1, <2>3, <2>4, <2>6, <2>7
      <4>2. CASE g # f \/ c # k
        BY ZenonT(30), <4>2, <2>4, <2>6, <1>a DEF UpdatesAreExact
      <4> QED  BY <4>1, <4>2
    <3>2. ASSUME NEW g \in Files, <<g, "session">> \notin overlapped' PROVE row'[g] = acked'[g]
      BY <3>2, <2>2, <2>4, <1>a DEF UpdatesAreExact
    <3> QED  BY <3>1, <3>2 DEF UpdatesAreExact
  <2>9. PinsAreFlagged' /\ SessionsAreKept'
    BY <2>2, <1>a DEF PinsAreFlagged, SessionsAreKept, EndCall, Goto, TypeOK
  <2>10. ASSUME NEW o \in Engines \ {e}, pc[o] = "counting"
         PROVE  LET g == conn[o][cache_store]
                    c == arg[o]
                IN  /\ count[o] <= counted'[g][c]
                    /\ <<g, c>> \notin overlapped' => count[o] = counters'[g][c]
    <3> DEFINE g == conn[o][cache_store]
               c == arg[o]
    <3>1. g \in Files /\ c \in Counters /\ count[o] \in Nat
      BY <2>10, <1>a, Connected DEF TypeOK, Stores, cache_store
    <3>2. count[o] <= counted[g][c] /\ (<<g, c>> \notin overlapped => count[o] = counters[g][c])
      BY <2>10, <1>a DEF ReadsAreCurrent
    <3>3. CASE g = f /\ c = k
      <4>1. <<f, k>> \in overlapped'
        BY <2>2, <2>10, <3>3 DEF Overlap, Holds
      <4> QED  BY <3>1, <3>2, <3>3, <4>1, <2>6, <2>7
    <3>4. CASE g # f \/ c # k
      BY <3>1, <3>2, <3>4, <2>4, <2>6
    <3> QED  BY <3>3, <3>4
  <2>11. /\ \A o \in Engines \ {e} : pc'[o] = pc[o] /\ count'[o] = count[o]
                                     /\ session'[o] = session[o] /\ arg'[o] = arg[o]
         /\ pc'[e] = "idle"
    BY <2>2 DEF EndCall, Goto, TypeOK
  <2>12. ReadsAreCurrent'
    BY SMTT(30), <2>2, <2>4, <2>10, <2>11, <1>a DEF ReadsAreCurrent
  <2> QED  BY <2>8, <2>9, <2>12
<1>10. ASSUME NEW e \in Engines, NEW f \in Files, NEW r \in Sessions, NEW a \in Sessions,
              pc'[e] = "idle", \A o \in Engines \ {e} : pc'[o] = pc[o] /\ count'[o] = count[o]
                                     /\ session'[o] = session[o] /\ arg'[o] = arg[o],
              UNCHANGED <<counters, counted, conn>>,
              row' = [row EXCEPT ![f] = r], acked' = [acked EXCEPT ![f] = a],
              r.pins = r.flags, <<f, "session">> \notin overlapped => r = a,
              Overlap(e, f, "session")
       PROVE  Data'
  <2>1. overlapped \subseteq overlapped'
        /\ \A x \in overlapped' : x \in overlapped \/ x = <<f, "session">>
    BY <1>10 DEF Overlap
  <2>2. /\ row'[f] = r /\ acked'[f] = a
        /\ \A g \in Files \ {f} : row'[g] = row[g] /\ acked'[g] = acked[g]
    BY <1>10 DEF TypeOK
  <2>3. r # None /\ a # None
    BY NoneAssumption
  <2>4. UpdatesAreExact'
    <3>1. ASSUME NEW g \in Files, NEW c \in Counters
          PROVE  /\ counters'[g][c] <= counted'[g][c]
                 /\ <<g, c>> \notin overlapped' => counters'[g][c] = counted'[g][c]
      BY <1>10, <2>1, <1>a DEF UpdatesAreExact
    <3>2. ASSUME NEW g \in Files, <<g, "session">> \notin overlapped' PROVE row'[g] = acked'[g]
      BY <3>2, <1>10, <2>1, <2>2, <1>a DEF UpdatesAreExact
    <3> QED  BY <3>1, <3>2 DEF UpdatesAreExact
  <2>5. PinsAreFlagged'
    BY <1>10, <2>2, <1>a DEF PinsAreFlagged
  <2>6. ASSUME NEW o \in Engines \ {e}, pc[o] \in {"pinning", "unpinning"}
        PROVE  /\ row'[conn[o][pin_store]] # None
               /\ session[o].pins = session[o].flags
               /\ <<conn[o][pin_store], "session">> \notin overlapped' =>
                      session[o] = row'[conn[o][pin_store]]
    <3> DEFINE g == conn[o][pin_store]
    <3>1. g \in Files /\ row[g] # None
      BY <2>6, <1>a, Connected DEF SessionsAreKept, Stores, pin_store
    <3>2. /\ session[o].pins = session[o].flags
          /\ <<g, "session">> \notin overlapped => session[o] = row[g]
      BY <2>6, <1>a DEF ReadsAreCurrent
    <3>3. CASE g = f
      <4>1. <<f, "session">> \in overlapped'
        BY <1>10, <2>6, <3>3 DEF Overlap, Holds
      <4> QED  BY <3>2, <3>3, <4>1, <2>2, <2>3
    <3>4. CASE g # f
      BY <3>1, <3>2, <3>4, <2>1, <2>2
    <3> QED  BY <3>3, <3>4
  <2>7. SessionsAreKept'
    <3>1. \A g \in Files : row'[g] = None <=> acked'[g] = None
      BY <2>2, <2>3, <1>a DEF SessionsAreKept
    <3> QED  BY <3>1, <1>10, <2>6 DEF SessionsAreKept
  <2>8. ReadsAreCurrent'
    BY SMTT(30), <1>10, <2>1, <2>6, <1>a DEF ReadsAreCurrent
  <2> QED  BY <2>4, <2>5, <2>7, <2>8
<1>11. ASSUME NEW e \in Engines, Save(e) PROVE Data'
  <2> DEFINE f == conn[e][pin_store]
  <2>1. f \in Files /\ session[e] \in Sessions /\ arg[e] \in Turns
    BY <1>11, <1>a, Connected DEF Save, TypeOK, Stores, pin_store
  <2>2. acked[f] \in Sessions
    BY <1>11, <1>a, <2>1 DEF Save, TypeOK, SessionsAreKept
  <2>3. /\ Changed(e, session[e]) \in Sessions /\ Changed(e, acked[f]) \in Sessions
        /\ Changed(e, session[e]).pins = Changed(e, session[e]).flags
    BY <1>11, <1>a, <2>1, <2>2, ChangedSession DEF Save, ReadsAreCurrent
  <2>4. <<f, "session">> \notin overlapped => session[e] = acked[f]
    BY <1>11, <1>a, <2>1 DEF Save, ReadsAreCurrent, UpdatesAreExact
  <2>5. /\ row' = [row EXCEPT ![f] = Changed(e, session[e])]
        /\ acked' = [acked EXCEPT ![f] = Changed(e, acked[f])]
        /\ Overlap(e, f, "session") /\ EndCall(e, "idle") /\ UNCHANGED <<counters, counted, conn>>
    BY <1>11 DEF Save, Same
  <2>6. /\ pc'[e] = "idle"
        /\ \A o \in Engines \ {e} : pc'[o] = pc[o] /\ count'[o] = count[o]
              /\ session'[o] = session[o] /\ arg'[o] = arg[o]
    BY <2>5 DEF EndCall, Goto, TypeOK
  <2> QED  BY <2>1, <2>3, <2>4, <2>5, <2>6, <1>10
<1>12. ASSUME NEW e \in Engines, NEW s \in Exports, Import(e, s) PROVE Data'
  <2> DEFINE f == conn[e][session_store]
  <2>1. f \in Files /\ s \in Sessions /\ s.pins = s.flags
    BY <1>12, <1>a, Connected, ExportsAssumption DEF Import, Begin, Stores, session_store
  <2>2. /\ row' = [row EXCEPT ![f] = s] /\ acked' = [acked EXCEPT ![f] = s]
        /\ Overlap(e, f, "session") /\ UNCHANGED <<counters, counted, conn, pc, count, session, arg>>
        /\ pc[e] = "idle"
    BY <1>12 DEF Import, Begin, Same, call
  <2> QED  BY <2>1, <2>2, <1>10
<1> QED
  BY <1>1, <1>2, <1>3, <1>4, <1>5, <1>6, <1>7, <1>8, <1>9, <1>11, <1>12 DEF Next

(* The invariant is inductive, with the types.                              *)
LEMMA InvInductive == Spec => [](TypeOK /\ IInv)
<1>1. TypeOK /\ IInv /\ [Next]_vars => TypeOK' /\ IInv'
  BY TypesNext, FilesNext, DataNext DEF IInv
<1> QED  BY <1>1, Start0, PTL DEF Spec

(* Every variable of the store and of its engines keeps its type, however    *)
(* many engines open, recover, update and end.                              *)
THEOREM TypeCorrect == Spec => []TypeOK
BY InvInductive, PTL

(* Counters and pins are exact unless a write overlapped another engine's    *)
(* update, pins and flags agree, and engines share one file until a recovery *)
(* removes it.                                                              *)
THEOREM InvCorrect == Spec => []IInv
BY InvInductive, PTL
=============================================================================
