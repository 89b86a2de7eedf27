---------------------------- MODULE SessionStore ----------------------------
(* The database file ~/.sqz/sessions.db as several sqz processes use it: how *)
(* a process opens it and recovers from an open that fails, and the updates  *)
(* that read a row, change it and write it back in two statements:           *)
(* record_cache_hit, record_cache_miss, pin and unpin.  What DedupCache.tla  *)
(* models of the same file, the stamps and the marker, is left out here.     *)
EXTENDS Naturals

CONSTANTS Engines,   \* processes that make a SqzEngine
          Turns,     \* turns that a session may have
          Exports,   \* the sessions that .ctx files hold
          MaxFiles,  \* bound: how often a database file is created
          MaxCalls,  \* bound: how many counted requests are begun
          None       \* no session row, nothing loaded

Counters == {"cache_hits", "cache_misses"}
Sessions == [turns : SUBSET Turns, pins : SUBSET Turns, flags : SUBSET Turns]
Files == 1..MaxFiles

\* The three connections of an engine, in the order they are opened.
session_store == 1
cache_store == 2
pin_store == 3
Stores == 1..3

ASSUME BoundsAssumption == MaxFiles \in Nat \ {0} /\ MaxCalls \in Nat
ASSUME NoneAssumption == None \notin Sessions
\* A .ctx file was exported by sqz, so its pins and its flags agree.
ASSUME ExportsAssumption == Exports \subseteq {s \in Sessions : s.pins = s.flags}

VARIABLES path,      \* the file that has the database's name, 0 if none has
          made,      \* how many files were created
          corrupt,   \* the files that are not databases any more
          counters,  \* metadata: the two counters, in each file
          row,       \* sessions: the row of the session, in each file
          conn,      \* the connections an engine has opened so far, 0 before
          pc,        \* what an engine does next
          count,     \* the counter it has read, to write it back increased
          session,   \* the session it has loaded, to save it changed
          arg,       \* the counter or the turn it changes
          calls,     \* how many updates were begun
          failedOn,  \* history: the file an engine has just failed to open
          removed,   \* history: the files that a recovery has removed
          counted,   \* history: the increments written, in each file
          acked,     \* history: the session if every update were one step
          overlapped \* history: what was written while another engine was
                     \* between its read and its write, or after a failed read

disk == <<path, made, corrupt, counters, row>>
history == <<removed, counted, acked, overlapped>>
call == <<count, session, arg>>
vars == <<disk, conn, pc, call, failedOn, history, calls>>

Labels == {"off", "open", "recover", "reopen", "idle", "counting", "pinning", "unpinning"}

TypeOK ==
    /\ path \in 0..MaxFiles /\ made \in 0..MaxFiles
    /\ corrupt \subseteq Files /\ removed \subseteq Files
    /\ counters \in [Files -> [Counters -> Nat]] /\ counted \in [Files -> [Counters -> Nat]]
    /\ row \in [Files -> Sessions \cup {None}] /\ acked \in [Files -> Sessions \cup {None}]
    /\ conn \in [Engines -> [Stores -> 0..MaxFiles]]
    /\ pc \in [Engines -> Labels]
    /\ count \in [Engines -> Nat]
    /\ session \in [Engines -> Sessions \cup {None}]
    /\ arg \in [Engines -> Counters \cup Turns \cup {None}]
    /\ \A e \in Engines :
          /\ pc[e] = "counting" => arg[e] \in Counters
          /\ pc[e] \in {"pinning", "unpinning"} => session[e] \in Sessions /\ arg[e] \in Turns
    /\ failedOn \in [Engines -> 0..MaxFiles]
    /\ calls \in 0..MaxCalls
    /\ overlapped \subseteq Files \X (Counters \cup {"session"})

\* There is no database yet, or one that may have the session.
Init ==
    /\ path \in {0, 1} /\ made = path
    /\ corrupt = {} /\ removed = {} /\ overlapped = {} /\ calls = 0
    /\ counters = [f \in Files |-> [k \in Counters |-> 0]] /\ counted = counters
    /\ \E r \in Exports \cup {None} :
          row = [f \in Files |-> IF f = path THEN r ELSE None]
    /\ acked = row
    /\ conn = [e \in Engines |-> [s \in Stores |-> 0]]
    /\ pc = [e \in Engines |-> "off"]
    /\ count = [e \in Engines |-> 0]
    /\ session = [e \in Engines |-> None] /\ arg = session
    /\ failedOn = [e \in Engines |-> 0]

-----------------------------------------------------------------------------
(* Opening.  An engine opens its three connections one after the other, each *)
(* with open_or_create.                                                      *)

Goto(e, l) == pc' = [pc EXCEPT ![e] = l]
EndCall(e, l) ==
    /\ Goto(e, l)
    /\ count' = [count EXCEPT ![e] = 0]
    /\ session' = [session EXCEPT ![e] = None] /\ arg' = [arg EXCEPT ![e] = None]
Kept == UNCHANGED <<counters, row, counted, acked, overlapped, call, calls>>

Start(e) ==
    /\ pc[e] = "off" /\ Goto(e, "open")
    /\ Kept /\ UNCHANGED <<path, made, corrupt, conn, failedOn, removed>>

Connect(e, f) ==
    \E s \in Stores :
        /\ conn[e][s] = 0 /\ \A r \in Stores : r < s => conn[e][r] # 0
        /\ conn' = [conn EXCEPT ![e][s] = f]
        /\ Goto(e, IF s = pin_store THEN "idle" ELSE "open")

\* open_connection: the file that has the name, or a new one.
Open(e) ==
    /\ pc[e] \in {"open", "reopen"}
    /\ \/ path # 0 /\ path \notin corrupt /\ Connect(e, path) /\ UNCHANGED <<path, made>>
       \/ path = 0 /\ made < MaxFiles /\ made' = made + 1 /\ path' = made' /\ Connect(e, made')
    /\ Kept /\ UNCHANGED <<corrupt, failedOn, removed>>

\* The file is corrupt, or locked by another engine: every error is the same.
OpenFails(e) ==
    /\ pc[e] = "open" /\ Goto(e, "recover")
    /\ failedOn' = [failedOn EXCEPT ![e] = path]
    /\ Kept /\ UNCHANGED <<path, made, corrupt, conn, removed>>

\* remove_file removes what has the name now.
Remove(e) ==
    /\ pc[e] = "recover" /\ Goto(e, "reopen")
    /\ path' = 0 /\ removed' = removed \cup ({path} \ {0})
    /\ failedOn' = [failedOn EXCEPT ![e] = 0]
    /\ Kept /\ UNCHANGED <<made, corrupt, conn>>

\* An error of remove_file is ignored.
RemoveFails(e) ==
    /\ pc[e] = "recover" /\ Goto(e, "reopen")
    /\ failedOn' = [failedOn EXCEPT ![e] = 0]
    /\ Kept /\ UNCHANGED <<path, made, corrupt, conn, removed>>

\* The second open has failed, and with it the engine; or the process ends,
\* by itself or killed, wherever it is.
Quit(e) ==
    /\ pc[e] # "off" /\ EndCall(e, "off")
    /\ conn' = [conn EXCEPT ![e] = [s \in Stores |-> 0]]
    /\ failedOn' = [failedOn EXCEPT ![e] = 0]
    /\ UNCHANGED <<disk, history, calls>>

-----------------------------------------------------------------------------
(* Updates.  Another engine is in the way of a write to an item of a file if *)
(* it has read the item and has not written it back.                         *)

Holds(e, f, i) ==
    \/ pc[e] = "counting" /\ conn[e][cache_store] = f /\ arg[e] = i
    \/ pc[e] \in {"pinning", "unpinning"} /\ conn[e][pin_store] = f /\ i = "session"

Overlap(e, f, i) ==
    overlapped' = IF \E o \in Engines \ {e} : Holds(o, f, i)
                  THEN overlapped \cup {<<f, i>>} ELSE overlapped

Begin(e) == pc[e] = "idle" /\ calls < MaxCalls /\ calls' = calls + 1
Same == UNCHANGED <<path, made, corrupt, conn, failedOn, removed>>

\* record_cache_hit and record_cache_miss: the SELECT, whose errors count as 0.
ReadCounter(e, k) ==
    LET f == conn[e][cache_store] IN
    /\ Begin(e) /\ f \notin corrupt
    /\ count' = [count EXCEPT ![e] = counters[f][k]]
    /\ arg' = [arg EXCEPT ![e] = k] /\ Goto(e, "counting")
    /\ Same /\ UNCHANGED <<session, counters, row, counted, acked, overlapped>>

ReadCounterFails(e, k) ==
    /\ Begin(e)
    /\ count' = [count EXCEPT ![e] = 0]
    /\ arg' = [arg EXCEPT ![e] = k] /\ Goto(e, "counting")
    /\ overlapped' = overlapped \cup {<<conn[e][cache_store], k>>}
    /\ Same /\ UNCHANGED <<session, counters, row, counted, acked>>

WriteHits(e) ==
    LET f == conn[e][cache_store]
        k == arg[e]
    IN
    /\ pc[e] = "counting" /\ f \notin corrupt /\ EndCall(e, "idle")
    /\ counters' = [counters EXCEPT ![f]["cache_hits"] = count[e] + 1]
    /\ counted' = [counted EXCEPT ![f][k] = @ + 1]
    /\ Overlap(e, f, k)
    /\ Same /\ UNCHANGED <<row, acked, calls>>

WriteCounter(e) ==
    LET f == conn[e][cache_store]
        k == arg[e]
    IN
    /\ pc[e] = "counting" /\ f \notin corrupt /\ EndCall(e, "idle")
    /\ counters' = [counters EXCEPT ![f][k] = count[e] + 1]
    /\ counted' = [counted EXCEPT ![f][k] = @ + 1]
    /\ Overlap(e, f, k)
    /\ Same /\ UNCHANGED <<row, acked, calls>>

\* pin and unpin load the session; there may be none, or no such turn to pin.
LoadUnchecked(e, t, l) ==
    LET f == conn[e][pin_store] IN
    /\ Begin(e) /\ f \notin corrupt
    /\ session' = [session EXCEPT ![e] = row[f]]
    /\ arg' = [arg EXCEPT ![e] = t] /\ Goto(e, l)
    /\ Same /\ UNCHANGED <<count, counters, row, counted, acked, overlapped>>

Load(e, t, l) ==
    LET f == conn[e][pin_store] IN
    /\ Begin(e) /\ f \notin corrupt /\ row[f] # None
    /\ l = "pinning" => t \in row[f].turns
    /\ session' = [session EXCEPT ![e] = row[f]]
    /\ arg' = [arg EXCEPT ![e] = t] /\ Goto(e, l)
    /\ Same /\ UNCHANGED <<count, counters, row, counted, acked, overlapped>>

Pinned(s, t) == [s EXCEPT !.pins = @ \cup {t}, !.flags = @ \cup {t}]

UnpinnedInPart(s, t) == [s EXCEPT !.pins = @ \ {t}]
Unpinned(s, t) == [s EXCEPT !.pins = @ \ {t}, !.flags = @ \ {t}]

Changed(e, s) == IF pc[e] = "pinning" THEN Pinned(s, arg[e]) ELSE Unpinned(s, arg[e])

\* save_session writes the whole row.
Save(e) ==
    LET f == conn[e][pin_store] IN
    /\ pc[e] \in {"pinning", "unpinning"} /\ f \notin corrupt
    /\ row' = [row EXCEPT ![f] = Changed(e, session[e])]
    /\ acked' = [acked EXCEPT ![f] = Changed(e, @)]
    /\ Overlap(e, f, "session") /\ EndCall(e, "idle")
    /\ Same /\ UNCHANGED <<counters, counted, calls>>

\* import_ctx: a session is saved as the file has it.
Import(e, s) ==
    LET f == conn[e][session_store] IN
    /\ Begin(e) /\ f \notin corrupt
    /\ row' = [row EXCEPT ![f] = s] /\ acked' = [acked EXCEPT ![f] = s]
    /\ Overlap(e, f, "session")
    /\ Same /\ UNCHANGED <<pc, call, counters, counted>>

\* A write fails: it is swallowed, or it ends the call.
WriteFails(e) ==
    /\ pc[e] \in {"counting", "pinning", "unpinning"} /\ EndCall(e, "idle")
    /\ UNCHANGED <<disk, conn, failedOn, history, calls>>

\* The disk.
Corrupt ==
    /\ path # 0 /\ corrupt' = corrupt \cup {path}
    /\ Kept /\ UNCHANGED <<path, made, conn, pc, failedOn, removed>>

Next ==
    \/ \E e \in Engines :
        \/ Start(e) \/ Open(e) \/ OpenFails(e) \/ Remove(e) \/ RemoveFails(e) \/ Quit(e)
        \/ \E k \in Counters : ReadCounter(e, k) \/ ReadCounterFails(e, k)
        \/ \E t \in Turns : Load(e, t, "pinning") \/ Load(e, t, "unpinning")
        \/ \E s \in Exports : Import(e, s)
        \/ WriteCounter(e) \/ Save(e) \/ WriteFails(e)
    \/ Corrupt

Spec == Init /\ [][Next]_vars
-----------------------------------------------------------------------------
(* Properties.                                                              *)

\* The increments that were written are all counted, and the session is as
\* if every pin, unpin and import were one step, in a file in which no write
\* came between another engine's read and its write.  The counters never
\* count too much.
UpdatesAreExact ==
    \A f \in Files :
        /\ \A k \in Counters :
              /\ counters[f][k] <= counted[f][k]
              /\ <<f, k>> \notin overlapped => counters[f][k] = counted[f][k]
        /\ <<f, "session">> \notin overlapped => row[f] = acked[f]

\* A turn is flagged if and only if it has a pin entry, overlapped or not.
PinsAreFlagged == \A f \in Files : row[f] # None => row[f].pins = row[f].flags

\* Every connection is to the file with the database's name, or to one that a
\* recovery has taken it from: as long as none has, all engines share a file.
\* An engine that recovers removes the file that it could not open, unless
\* another recovery was faster.
OneDatabase ==
    /\ path \notin removed
    /\ \A e \in Engines :
          /\ \A s \in Stores : conn[e][s] \in {0, path} \cup removed
          /\ pc[e] = "recover" => failedOn[e] \in {0, path} \cup removed

\* What they need to be inductive: the newest file has the name, if any has;
\* an engine works with three connections; a session stays; and an engine has
\* read what is still there.
FilesConsistent ==
    path \in {0, made} /\ \A f \in removed : f <= made

SessionsAreKept ==
    /\ \A f \in Files : row[f] = None <=> acked[f] = None
    /\ \A e \in Engines : pc[e] \in {"pinning", "unpinning"} => row[conn[e][pin_store]] # None

AllOpened ==
    \A e \in Engines : pc[e] \in {"idle", "counting", "pinning", "unpinning"} =>
        \A s \in Stores : conn[e][s] # 0

ReadsAreCurrent ==
    \A e \in Engines :
        /\ pc[e] = "counting" =>
              LET f == conn[e][cache_store]
                  k == arg[e]
              IN  /\ count[e] <= counted[f][k]
                  /\ <<f, k>> \notin overlapped => count[e] = counters[f][k]
        /\ pc[e] \in {"pinning", "unpinning"} =>
              LET f == conn[e][pin_store]
              IN  /\ session[e].pins = session[e].flags
                  /\ <<f, "session">> \notin overlapped => session[e] = row[f]

IInv ==
    /\ UpdatesAreExact /\ PinsAreFlagged /\ OneDatabase
    /\ FilesConsistent /\ AllOpened /\ SessionsAreKept /\ ReadsAreCurrent
=============================================================================
