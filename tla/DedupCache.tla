----------------------------- MODULE DedupCache -----------------------------
(***************************************************************************)
(* The dedup cache of sqz: CacheManager (cache_manager.rs) over the rows   *)
(* and the compaction marker that SessionStore (session_store.rs) keeps in *)
(* one SQLite file, used at the same time by                               *)
(*   - `sqz compress` processes, one per intercepted command (CliProxy),   *)
(*     or per document that VS Code opens,                                 *)
(*   - MCP servers (CacheManager::get_or_compress),                        *)
(*   - `sqz expand`,                                                       *)
(*   - `sqz hook precompact` and `sqz compact` (notify_compaction),        *)
(*   - `sqz reset` (clear_cache).                                          *)
(* No method opens a transaction, so one SQL statement is one step and the *)
(* statements of different processes interleave.                           *)
(*                                                                         *)
(* A content stands for itself and for its SHA-256 row.  A row is its      *)
(* accessed_at stamp; 0 is "no row", and a marker of 0 is "no marker": no  *)
(* stamp is before it, which is what the code's absent marker means.       *)
(*                                                                         *)
(* The hit and miss counters and the compression log are only written on   *)
(* these paths, never read, and are left out, as are the in-process L1 set *)
(* (a CLI process serves one request) and the in-memory marker (the        *)
(* processes that set it exit right after).                                *)
(*                                                                         *)
(* context, sentAt and unbacked are not in the code: they record what the  *)
(* language model can see, so that the cache's answers can be judged.      *)
(***************************************************************************)
EXTENDS Naturals, Sequences, FiniteSets

CONSTANTS
    Content,     \* the distinct byte strings that tools output
    Clis,        \* `sqz compress` processes
    Editors,     \* those of them that the VS Code extension runs
    Servers,     \* MCP servers
    Hooks,       \* `sqz hook precompact` processes
    Compacts,    \* `sqz compact` processes
    Deps,        \* Deps[c]: the files that file c imports and that exist on disk
    Near,        \* <<b, c>>: the delta of c against b is smaller than c
    ProbeLimit,  \* how many recent rows try_delta_encode looks at (10)
    MinKeep,     \* EvictionConfig::min_keep, for `sqz compact`
    MaxRefAge,   \* max_ref_age, in clock ticks
    RefRenews,   \* does a ref keep the content it names in the context?
    MaxTime,     \* bound on the clock
    None

(* The processes that answer requests, and those that announce compactions. *)
Procs == Clis \cup Servers
Notifiers == Hooks \cup Compacts

ASSUME ProcsAssumption ==
    Clis \cap Servers = {} /\ Editors \subseteq Clis /\ Hooks \cap Compacts = {}
ASSUME DepsAssumption ==
    Deps \in [Content -> SUBSET Content] /\ \A c \in Content : c \notin Deps[c]
ASSUME NearAssumption == Near \subseteq Content \X Content
ASSUME BoundsAssumption ==
    /\ ProbeLimit \in Nat /\ MinKeep \in Nat /\ MaxTime \in Nat
    /\ MaxRefAge \in Nat \ {0}
ASSUME RefRenewsAssumption == RefRenews \in BOOLEAN
ASSUME NoneAssumption == None \notin Content

VARIABLES
    accessedAt,  \* cache_entries.accessed_at of each content, 0 without a row
    marker,      \* metadata 'last_compaction_at', 0 without one
    now,         \* the wall clock
    pc,          \* the next statement of each process
    want,        \* the content it was asked for
    cur,         \* the content it is checking: want, or a dependency of it
    seen,        \* the accessed_at it has read
    deps,        \* the dependencies it has still to pre-cache
    todo,        \* the rows it has still to try as a delta base
    base,        \* the row it encodes against
    npc,         \* the next step of each notifier
    stamp,       \* the instant a notifier has read
    rpc,         \* the next step of `sqz reset`
    context,     \* contents the language model can see
    sentAt,      \* when each was last sent to it
    unbacked     \* contents whose stamp no delivery backs

store == <<accessedAt, marker>>
locals == <<want, cur, seen, deps, todo, base>>
notifier == <<npc, stamp>>
ghosts == <<context, sentAt, unbacked>>
vars == <<accessedAt, marker, now, pc, want, cur, seen, deps, todo, base,
          npc, stamp, rpc, context, sentAt, unbacked>>

-----------------------------------------------------------------------------
(* The statements of SessionStore.                                         *)

HasRow(c) == accessedAt[c] # 0
Present == {c \in Content : HasRow(c)}

(* touch_cache_entry, and the touch inside get_cache_entry and              *)
(* get_cache_entry_by_prefix: an UPDATE that matches no row does nothing,  *)
(* and its errors are swallowed.                                           *)
Touch(c) ==
    \/ /\ HasRow(c)
       /\ accessedAt' = [accessedAt EXCEPT ![c] = now]
    \/ UNCHANGED accessedAt

(* save_cache_entry_with_original: INSERT ... ON CONFLICT DO UPDATE.        *)
Upsert(c) == accessedAt' = [accessedAt EXCEPT ![c] = now]

(* list_cache_entries_lru, the last ProbeLimit of its rows, latest first.   *)
MostRecent ==
    {q \in UNION {[1..n -> Present] : n \in 0..ProbeLimit} :
        LET tried == {q[i] : i \in DOMAIN q}
        IN  /\ Len(q) = ProbeLimit \/ tried = Present
            /\ \A i, j \in DOMAIN q : i < j =>
                  q[i] # q[j] /\ accessedAt[q[j]] <= accessedAt[q[i]]
            /\ \A b \in tried, c \in Present \ tried : accessedAt[c] <= accessedAt[b]}

(* CacheManager::is_ref_fresh, given the accessed_at it read before.       *)
Fresh(a) == ~(a < marker) /\ now - a < MaxRefAge

-----------------------------------------------------------------------------
(* The contents that are no longer backed by a delivery when the marker is *)
(* lowered to m: the marker held a stamp of theirs stale.                  *)

Stamps(c) == {accessedAt[c]} \cup {seen[p] : p \in {q \in Procs : pc[q] = "marker" /\ cur[q] = c}}

Unstaled(m) ==
    {c \in Content \ context : \E a \in Stamps(c) : a # 0 /\ a < marker /\ ~(a < m)}

-----------------------------------------------------------------------------
Goto(p, l) == pc' = [pc EXCEPT ![p] = l]

Idle(p) ==
    /\ Goto(p, "idle")
    /\ want' = [want EXCEPT ![p] = None]
    /\ cur' = [cur EXCEPT ![p] = None]
    /\ seen' = [seen EXCEPT ![p] = 0]
    /\ deps' = [deps EXCEPT ![p] = {}]
    /\ todo' = [todo EXCEPT ![p] = <<>>]
    /\ base' = [base EXCEPT ![p] = None]

Precaching(p) == cur[p] # want[p]

Init ==
    /\ accessedAt = [c \in Content |-> 0]
    /\ marker = 0
    /\ now = 1
    /\ pc = [p \in Procs |-> "idle"]
    /\ want = [p \in Procs |-> None]
    /\ cur = [p \in Procs |-> None]
    /\ seen = [p \in Procs |-> 0]
    /\ deps = [p \in Procs |-> {}]
    /\ todo = [p \in Procs |-> <<>>]
    /\ base = [p \in Procs |-> None]
    /\ npc = [n \in Notifiers |-> "idle"]
    /\ stamp = [n \in Notifiers |-> 0]
    /\ rpc = "idle"
    /\ context = {}
    /\ sentAt = [c \in Content |-> 0]
    /\ unbacked = {}
-----------------------------------------------------------------------------
(* A tool's output c reaches sqz.                                           *)

(* intercept_output: a command that prints a file has its dependencies      *)
(* pre-cached first (track_file); `tracked` says whether it is one.        *)
StartCompress(p, c, tracked) ==
    /\ p \in Clis /\ pc[p] = "idle"
    /\ tracked => p \notin Editors
    /\ Goto(p, "deps")
    /\ want' = [want EXCEPT ![p] = c]
    /\ deps' = [deps EXCEPT ![p] = IF tracked THEN Deps[c] ELSE {}]
    /\ UNCHANGED <<store, now, cur, seen, todo, base, notifier, rpc, ghosts>>

(* A call of an MCP tool that goes through compress_cached.                 *)
StartCall(p, c) ==
    /\ p \in Servers /\ pc[p] = "idle"
    /\ Goto(p, "exists")
    /\ want' = [want EXCEPT ![p] = c]
    /\ cur' = [cur EXCEPT ![p] = c]
    /\ UNCHANGED <<store, now, seen, deps, todo, base, notifier, rpc, ghosts>>

(* `sqz expand <prefix>` or the MCP tool `expand`.                          *)
StartExpand(p, c) ==
    /\ p \notin Editors /\ pc[p] = "idle"
    /\ Goto(p, "lookup")
    /\ want' = [want EXCEPT ![p] = c]
    /\ cur' = [cur EXCEPT ![p] = c]
    /\ UNCHANGED <<store, now, seen, deps, todo, base, notifier, rpc, ghosts>>

-----------------------------------------------------------------------------
(* predictive_precache: the next dependency, then the output itself.        *)

NextDependency(p) ==
    /\ pc[p] = "deps"
    /\ \E d \in deps[p] :
          /\ cur' = [cur EXCEPT ![p] = d]
          /\ deps' = [deps EXCEPT ![p] = @ \ {d}]
    /\ Goto(p, "accessed")
    /\ UNCHANGED <<store, now, want, seen, todo, base, notifier, rpc, ghosts>>

(* With no_cache the output is compressed without a lookup.                 *)
DependenciesDone(p) ==
    /\ pc[p] = "deps" /\ deps[p] = {}
    /\ cur' = [cur EXCEPT ![p] = want[p]]
    /\ \E no_cache \in BOOLEAN : Goto(p, IF no_cache THEN "compress" ELSE "accessed")
    /\ UNCHANGED <<store, now, want, seen, deps, todo, base, notifier, rpc, ghosts>>

-----------------------------------------------------------------------------
(* check_dedup and the lookup of get_or_compress.                           *)

(* Mutant of Exists: it asks get_cache_entry, which stamps the row.         *)
ExistsTouching(p) ==
    /\ pc[p] = "exists"
    /\ Touch(cur[p])
    /\ Goto(p, IF HasRow(cur[p]) THEN "accessed" ELSE "list")
    /\ UNCHANGED <<marker, now, locals, notifier, rpc, ghosts>>

(* cache_entry_exists *)
Exists(p) ==
    /\ pc[p] = "exists"
    /\ Goto(p, IF HasRow(cur[p]) THEN "accessed" ELSE "list")
    /\ UNCHANGED <<store, now, locals, notifier, rpc, ghosts>>

NotFresh(p) == IF p \in Servers THEN "stale" ELSE "compress"

(* get_cache_entry_accessed_at; an error counts as no row.                  *)
ReadAccessed(p) ==
    /\ pc[p] = "accessed"
    /\ \/ /\ HasRow(cur[p])
          /\ seen' = [seen EXCEPT ![p] = accessedAt[cur[p]]]
          /\ Goto(p, "marker")
       \/ /\ Goto(p, NotFresh(p))
          /\ UNCHANGED seen
    /\ UNCHANGED <<store, now, want, cur, deps, todo, base, notifier, rpc, ghosts>>

(* Mutants of ReadMarker: only one of the two checks is made.               *)
ReadMarkerUnused(p) ==
    /\ pc[p] = "marker"
    /\ Goto(p, IF now - seen[p] < MaxRefAge THEN "touch" ELSE NotFresh(p))
    /\ seen' = [seen EXCEPT ![p] = 0]
    /\ UNCHANGED <<store, now, want, cur, deps, todo, base, notifier, rpc, ghosts>>

ReadMarkerOnly(p) ==
    /\ pc[p] = "marker"
    /\ Goto(p, IF ~(seen[p] < marker) THEN "touch" ELSE NotFresh(p))
    /\ seen' = [seen EXCEPT ![p] = 0]
    /\ UNCHANGED <<store, now, want, cur, deps, todo, base, notifier, rpc, ghosts>>

(* get_metadata, and the verdict of is_ref_fresh.                           *)
ReadMarker(p) ==
    /\ pc[p] = "marker"
    /\ Goto(p, IF Fresh(seen[p]) THEN "touch" ELSE NotFresh(p))
    /\ seen' = [seen EXCEPT ![p] = 0]
    /\ UNCHANGED <<store, now, want, cur, deps, todo, base, notifier, rpc, ghosts>>

(* get_metadata fails: only the age is checked.                             *)
ReadMarkerFails(p) ==
    /\ pc[p] = "marker"
    /\ seen[p] < marker /\ now - seen[p] < MaxRefAge
    /\ Goto(p, "touch")
    /\ seen' = [seen EXCEPT ![p] = 0]
    /\ unbacked' = unbacked \cup {cur[p]}
    /\ UNCHANGED <<store, now, want, cur, deps, todo, base, notifier, rpc, context, sentAt>>

(* record_ref_sent before a ref; a dependency found fresh gets no ref.      *)
TouchRef(p) ==
    /\ pc[p] = "touch"
    /\ Touch(cur[p])
    /\ Goto(p, IF Precaching(p) THEN "deps" ELSE "ref")
    /\ unbacked' = IF Precaching(p) THEN unbacked \cup {cur[p]} ELSE unbacked
    /\ UNCHANGED <<marker, now, locals, notifier, rpc, context, sentAt>>

(* The ref reaches the model.  It backs the stamp only if the model still   *)
(* has the content it names and keeps it because of the ref.               *)
SendRef(p) ==
    /\ p \notin Editors /\ pc[p] = "ref"
    /\ IF RefRenews /\ want[p] \in context
       THEN /\ sentAt' = [sentAt EXCEPT ![want[p]] = now]
            /\ UNCHANGED unbacked
       ELSE /\ unbacked' = unbacked \cup {want[p]}
            /\ UNCHANGED sentAt
    /\ Idle(p)
    /\ UNCHANGED <<store, now, notifier, rpc, context>>

-----------------------------------------------------------------------------
(* try_delta_encode.                                                        *)

ListRecent(p) ==
    /\ pc[p] = "list"
    /\ \E q \in MostRecent : todo' = [todo EXCEPT ![p] = q]
    /\ Goto(p, "probe")
    /\ UNCHANGED <<store, now, want, cur, seen, deps, base, notifier, rpc, ghosts>>

(* The SELECT of get_cache_entry; a row deleted meanwhile is skipped.       *)
Probe(p) ==
    /\ pc[p] = "probe"
    /\ IF todo[p] = <<>>
       THEN Goto(p, "compress") /\ UNCHANGED todo
       ELSE IF HasRow(Head(todo[p]))
            THEN Goto(p, "probed") /\ UNCHANGED todo
            ELSE todo' = [todo EXCEPT ![p] = Tail(@)] /\ UNCHANGED pc
    /\ UNCHANGED <<store, now, want, cur, seen, deps, base, notifier, rpc, ghosts>>

(* The UPDATE of get_cache_entry stamps the candidate, used or not; the     *)
(* first candidate whose delta is smaller ends the search.                 *)
ProbeTouch(p) ==
    /\ pc[p] = "probed"
    /\ LET b == Head(todo[p])
       IN  /\ Touch(b)
           /\ unbacked' = unbacked \cup {b}
           /\ IF <<b, want[p]>> \in Near
              THEN /\ base' = [base EXCEPT ![p] = b]
                   /\ todo' = [todo EXCEPT ![p] = <<>>]
                   /\ Goto(p, "compress")
              ELSE /\ todo' = [todo EXCEPT ![p] = Tail(@)]
                   /\ Goto(p, "probe")
                   /\ UNCHANGED base
    /\ UNCHANGED <<marker, now, want, cur, seen, deps, notifier, rpc, context, sentAt>>

-----------------------------------------------------------------------------
(* Compressing, storing and sending.                                        *)

Compress(p) ==
    /\ pc[p] = "compress"
    /\ Goto(p, "save")
    /\ UNCHANGED <<store, now, locals, notifier, rpc, ghosts>>

(* The pipeline fails, or the router picks Safe mode for the output (never  *)
(* asked for a dependency), or the INSERT fails: the CLI sends its output   *)
(* all the same, skips a dependency, and the server answers with an error. *)
CompressUnstored(p) ==
    /\ pc[p] \in {"compress", "save"}
    /\ IF p \in Servers
       THEN Idle(p)
       ELSE /\ Goto(p, IF Precaching(p) THEN "deps" ELSE "unstored")
            /\ UNCHANGED locals
    /\ UNCHANGED <<store, now, notifier, rpc, ghosts>>

Save(p) ==
    /\ pc[p] = "save"
    /\ Upsert(cur[p])
    /\ Goto(p, "sent")
    /\ unbacked' = IF Precaching(p) THEN unbacked \cup {cur[p]} ELSE unbacked
    /\ UNCHANGED <<marker, now, locals, notifier, rpc, context, sentAt>>

(* record_ref_sent after the INSERT.                                        *)
RecordSent(p) ==
    /\ pc[p] = "sent"
    /\ Touch(cur[p])
    /\ Goto(p, IF Precaching(p) THEN "deps" ELSE IF base[p] # None THEN "delta" ELSE "reply")
    /\ unbacked' = IF Precaching(p) THEN unbacked \cup {cur[p]} ELSE unbacked
    /\ UNCHANGED <<marker, now, locals, notifier, rpc, context, sentAt>>

(* Mutant of Recompress: the row is stamped before the pipeline can fail.   *)
RecompressTouched(p) ==
    /\ pc[p] = "stale"
    /\ Touch(cur[p])
    /\ \/ Goto(p, "resend") /\ UNCHANGED locals
       \/ Idle(p)
    /\ UNCHANGED <<marker, now, notifier, rpc, ghosts>>

(* get_or_compress on a stale row: compress again, touch, send in full.     *)
Recompress(p) ==
    /\ pc[p] = "stale"
    /\ \/ Goto(p, "resend") /\ UNCHANGED locals
       \/ Idle(p)
    /\ UNCHANGED <<store, now, notifier, rpc, ghosts>>

Resend(p) ==
    /\ pc[p] = "resend"
    /\ Touch(cur[p])
    /\ Goto(p, "reply")
    /\ UNCHANGED <<marker, now, locals, notifier, rpc, ghosts>>

(* The model receives c in full.                                            *)
Deliver(c) ==
    /\ context' = context \cup {c}
    /\ sentAt' = [sentAt EXCEPT ![c] = now]
    /\ unbacked' = unbacked \ {c}

SendFull(p) ==
    /\ p \notin Editors /\ pc[p] \in {"reply", "unstored"}
    /\ Deliver(want[p])
    /\ Idle(p)
    /\ UNCHANGED <<store, now, notifier, rpc>>

(* A delta says what the content is only to a model that has the base.      *)
SendDelta(p) ==
    /\ p \notin Editors /\ pc[p] = "delta"
    /\ IF base[p] \in context
       THEN Deliver(want[p])
       ELSE /\ unbacked' = unbacked \cup {want[p]}
            /\ UNCHANGED <<context, sentAt>>
    /\ Idle(p)
    /\ UNCHANGED <<store, now, notifier, rpc>>

-----------------------------------------------------------------------------
(* expand_prefix.                                                           *)

(* The SELECT of get_cache_entry_by_prefix: no row, nothing to send.        *)
Lookup(p) ==
    /\ pc[p] = "lookup"
    /\ IF HasRow(cur[p])
       THEN Goto(p, "found") /\ UNCHANGED locals
       ELSE Idle(p)
    /\ UNCHANGED <<store, now, notifier, rpc, ghosts>>

(* Its UPDATE; then the original bytes are read, or, for a row without any, *)
(* the compressed form is used: either way the content is sent.            *)
LookupTouch(p) ==
    /\ pc[p] = "found"
    /\ Touch(cur[p])
    /\ Goto(p, "reply")
    /\ UNCHANGED <<marker, now, locals, notifier, rpc, ghosts>>

-----------------------------------------------------------------------------
(* A process is killed, or a statement fails and the call answers with an   *)
(* error.  What it has stamped for a send does not arrive.                 *)

InFlight(p) == cur[p] = want[p] /\ pc[p] \in {"ref", "sent", "reply", "delta"}

Kill(p) ==
    /\ pc[p] # "idle"
    /\ unbacked' = IF InFlight(p) THEN unbacked \cup {want[p]} ELSE unbacked
    /\ Idle(p)
    /\ UNCHANGED <<store, now, notifier, rpc, context, sentAt>>

(* VS Code looks at the length of an output only: the model gets none of    *)
(* it, ref or not.                                                         *)
Discard(p) ==
    /\ p \in Editors
    /\ pc[p] \in {"ref", "reply", "unstored", "delta"}
    /\ Kill(p)

-----------------------------------------------------------------------------
(* notify_compaction: read the clock, then write the marker.                *)

(* Reading the clock takes a tick, so that what was stamped before and what *)
(* is stamped after are told apart.  `sqz compact` gets this far only when  *)
(* evict() finds something to evict.                                       *)
ReadClock(n) ==
    /\ npc[n] = "idle" /\ now < MaxTime
    /\ n \in Compacts => Cardinality(Present) > MinKeep
    /\ now' = now + 1
    /\ stamp' = [stamp EXCEPT ![n] = now + 1]
    /\ npc' = [npc EXCEPT ![n] = "write"]
    /\ UNCHANGED <<store, pc, locals, rpc, ghosts>>

(* The other hooks that have written a marker later than m have lost it.    *)
Lost(m) == [h \in Notifiers |-> IF npc[h] = "compact" /\ m < stamp[h] THEN "lost" ELSE npc[h]]

(* Mutant of WriteMarker: the marker stays in the memory of the notifier.   *)
WriteMarkerInMemory(n) ==
    /\ npc[n] = "write"
    /\ npc' = [npc EXCEPT ![n] = IF n \in Hooks THEN "compact" ELSE "idle"]
    /\ UNCHANGED <<store, now, pc, locals, stamp, rpc, ghosts>>

(* set_metadata('last_compaction_at').                                      *)
WriteMarker(n) ==
    /\ npc[n] = "write"
    /\ marker' = stamp[n]
    /\ npc' = [Lost(stamp[n]) EXCEPT ![n] = IF n \in Hooks THEN "compact" ELSE "idle"]
    /\ unbacked' = unbacked \cup Unstaled(stamp[n])
    /\ UNCHANGED <<accessedAt, now, pc, locals, stamp, rpc, context, sentAt>>

(* The write fails and the error is swallowed, or the hook cannot open the  *)
(* store: the host compacts all the same.                                  *)
NotifyFails(n) ==
    /\ npc[n] = "write" \/ (n \in Hooks /\ npc[n] = "idle")
    /\ npc' = [npc EXCEPT ![n] = IF n \in Hooks THEN "lost" ELSE "idle"]
    /\ UNCHANGED <<store, now, pc, locals, stamp, rpc, ghosts>>

(* The host compacts the context after the hook: the model loses all of it. *)
(* What was stamped after the hook read the clock, or everything if the    *)
(* hook left no marker, still looks fresh.                                 *)
HostCompacts(n) ==
    /\ npc[n] \in {"compact", "lost"}
    /\ context' = {}
    /\ unbacked' = unbacked \cup
          IF npc[n] = "lost" THEN context
          ELSE {c \in context : \E a \in Stamps(c) : a >= stamp[n]}
    /\ npc' = [npc EXCEPT ![n] = "idle"]
    /\ stamp' = [stamp EXCEPT ![n] = 0]
    /\ UNCHANGED <<store, now, pc, locals, rpc, sentAt>>

-----------------------------------------------------------------------------
(* clear_cache: two DELETEs; the second may fail, which is swallowed.       *)

(* Mutant of DeleteRows: the stamps are nulled, the rows stay.              *)
NullRows ==
    /\ rpc = "idle"
    /\ accessedAt' = [c \in Content |-> None]
    /\ rpc' = "marker"
    /\ UNCHANGED <<marker, now, pc, locals, notifier, ghosts>>

DeleteRows ==
    /\ rpc = "idle"
    /\ accessedAt' = [c \in Content |-> 0]
    /\ rpc' = "marker"
    /\ UNCHANGED <<marker, now, pc, locals, notifier, ghosts>>

DeleteMarker ==
    /\ rpc = "marker"
    /\ rpc' = "idle"
    /\ marker' = 0
    /\ npc' = Lost(0)
    /\ unbacked' = unbacked \cup Unstaled(0)
    /\ UNCHANGED <<accessedAt, now, pc, locals, stamp, context, sentAt>>

DeleteMarkerFails ==
    /\ rpc = "marker"
    /\ rpc' = "idle"
    /\ UNCHANGED <<store, now, pc, locals, notifier, ghosts>>

-----------------------------------------------------------------------------
(* Time passes, and the model's window rolls over: the code assumes that it *)
(* keeps what it was sent less than max_ref_age ago, and no longer.        *)

Tick ==
    /\ now < MaxTime
    /\ now' = now + 1
    /\ UNCHANGED <<store, pc, locals, notifier, rpc, ghosts>>

RollOver(c) ==
    /\ c \in context
    /\ now - sentAt[c] >= MaxRefAge
    /\ context' = context \ {c}
    /\ UNCHANGED <<store, now, pc, locals, notifier, rpc, sentAt, unbacked>>
-----------------------------------------------------------------------------
Start(p) ==
    \E c \in Content :
        \/ \E tracked \in BOOLEAN : StartCompress(p, c, tracked)
        \/ StartCall(p, c)
        \/ StartExpand(p, c)

Work(p) ==
    \/ NextDependency(p) \/ DependenciesDone(p)
    \/ Exists(p) \/ ReadAccessed(p) \/ ReadMarker(p) \/ TouchRef(p) \/ SendRef(p)
    \/ ListRecent(p) \/ Probe(p) \/ ProbeTouch(p)
    \/ Compress(p) \/ CompressUnstored(p) \/ Save(p) \/ RecordSent(p)
    \/ Recompress(p) \/ Resend(p) \/ SendFull(p) \/ SendDelta(p)
    \/ Lookup(p) \/ LookupTouch(p) \/ Discard(p)

Next ==
    \/ \E p \in Procs : Start(p) \/ Work(p) \/ ReadMarkerFails(p) \/ Kill(p)
    \/ \E n \in Notifiers : ReadClock(n) \/ WriteMarker(n) \/ NotifyFails(n) \/ HostCompacts(n)
    \/ DeleteRows \/ DeleteMarker \/ DeleteMarkerFails
    \/ Tick
    \/ \E c \in Content : RollOver(c)

Spec == Init /\ [][Next]_vars

(* The same system without two requests at a time; hooks, compactions,      *)
(* resets and kills still come between any two statements of one.           *)
AloneNext ==
    \/ \E p \in Procs :
        \/ (\A q \in Procs : pc[q] = "idle") /\ Start(p)
        \/ Work(p) \/ ReadMarkerFails(p) \/ Kill(p)
    \/ \E n \in Notifiers : ReadClock(n) \/ WriteMarker(n) \/ NotifyFails(n) \/ HostCompacts(n)
    \/ DeleteRows \/ DeleteMarker \/ DeleteMarkerFails
    \/ Tick
    \/ \E c \in Content : RollOver(c)

AloneSpec == Init /\ [][AloneNext]_vars

(***************************************************************************)
(* The same system, used one request at a time: a request, a hook with the *)
(* compaction it announces, and a reset begin only when nothing else is    *)
(* under way, none of them is killed, and the marker's statements succeed. *)
(***************************************************************************)
Quiet ==
    /\ \A p \in Procs : pc[p] = "idle"
    /\ \A n \in Notifiers : npc[n] = "idle"
    /\ rpc = "idle"

SerialNext ==
    \/ \E p \in Procs : (Quiet /\ Start(p)) \/ Work(p)
    \/ \E n \in Notifiers : (Quiet /\ ReadClock(n)) \/ WriteMarker(n) \/ HostCompacts(n)
    \/ Quiet /\ DeleteRows
    \/ DeleteMarker
    \/ Tick
    \/ Quiet /\ \E c \in Content : RollOver(c)

SerialSpec == Init /\ [][SerialNext]_vars

(* What the cache then promises: the request that is under way, and whether *)
(* its answer is known to be a ref.                                         *)
Active == {p \in Procs : pc[p] # "idle"}
Serving == IF Active = {} THEN None ELSE want[CHOOSE p \in Active : TRUE]
Decided == {p \in Active : pc[p] \in {"touch", "ref"} /\ ~Precaching(p)}
Answer == IF Decided = {} THEN "open" ELSE "ref"

Perfect == INSTANCE PerfectCache WITH serving <- Serving, answer <- Answer

-----------------------------------------------------------------------------
PcLabels ==
    {"idle", "deps", "exists", "accessed", "marker", "touch", "ref", "stale", "resend",
     "list", "probe", "probed", "compress", "save", "sent", "reply", "unstored", "delta",
     "lookup", "found"}

(* Every variable holds a value of its type.                                *)
TypeOK ==
    /\ accessedAt \in [Content -> Nat]
    /\ marker \in Nat
    /\ now \in Nat \ {0}
    /\ pc \in [Procs -> PcLabels]
    /\ want \in [Procs -> Content \cup {None}]
    /\ cur \in [Procs -> Content \cup {None}]
    /\ seen \in [Procs -> Nat]
    /\ deps \in [Procs -> SUBSET Content]
    /\ todo \in [Procs -> Seq(Content)]
    /\ base \in [Procs -> Content \cup {None}]
    /\ npc \in [Notifiers -> {"idle", "write", "compact", "lost"}]
    /\ stamp \in [Notifiers -> Nat]
    /\ rpc \in {"idle", "marker"}
    /\ context \subseteq Content
    /\ sentAt \in [Content -> Nat]
    /\ unbacked \subseteq Content

Pending(c) == c \in unbacked \/ \E p \in Procs : InFlight(p) /\ want[p] = c

(* A ref to c is safe to hand out: the model has c, or another process is   *)
(* about to send it c or a ref to it, or c is one of the contents whose     *)
(* stamp was renewed by something that sends nothing.                      *)
Covered(c) ==
    \/ c \in context
    \/ Pending(c)

(* Whatever is_ref_fresh would call fresh - by a row, or by a stamp that a  *)
(* process has read and not yet judged - is covered.  The ways to a         *)
(* dangling ref are therefore exactly those that put a content into         *)
(* `unbacked`: the marker and the age check of is_ref_fresh let no other    *)
(* content that the model has lost through, in any interleaving of the      *)
(* statements of requests, hooks, compactions and resets.                   *)
FreshIsCovered ==
    \A c \in Content : \A a \in Stamps(c) : a # 0 /\ Fresh(a) => Covered(c)

(* What FreshIsCovered needs to be inductive.                               *)

(* A process handles the content it was asked for, except while a CLI       *)
(* process goes through dependencies.                                      *)
LocalsConsistent ==
    \A p \in Procs :
        /\ pc[p] # "idle" => want[p] \in Content
        /\ pc[p] \notin {"idle", "deps"} => cur[p] \in Content
        /\ pc[p] = "deps" => p \notin Servers
        /\ (p \in Servers /\ pc[p] # "idle") => cur[p] = want[p]
        /\ pc[p] \in {"stale", "resend", "lookup", "found"} => cur[p] = want[p]
        /\ pc[p] = "marker" => seen[p] # 0
        /\ pc[p] = "probed" => todo[p] # <<>>
        /\ pc[p] = "delta" => base[p] \in Content

(* No stamp, send or marker is ahead of the clock.                          *)
ClockAhead ==
    /\ marker <= now
    /\ \A c \in Content : accessedAt[c] <= now /\ sentAt[c] <= now
    /\ \A p \in Procs : seen[p] <= now
    /\ \A n \in Notifiers : stamp[n] <= now

(* A hook that the host trusts to have left its marker has left it, or a    *)
(* later one.                                                              *)
MarkerKept == \A n \in Notifiers : npc[n] = "compact" => stamp[n] <= marker

(* A stamp of a content that the model has is no later than the last time   *)
(* it was sent, unless a process has yet to send what it stamped.          *)
StampsAreBacked ==
    \A c \in context : \A a \in Stamps(c) : a <= sentAt[c] \/ Pending(c)

IInv ==
    /\ TypeOK
    /\ LocalsConsistent
    /\ ClockAhead
    /\ MarkerKept
    /\ StampsAreBacked
    /\ FreshIsCovered

Decides(p) == pc[p] = "marker" /\ pc'[p] = "touch"

(* The decision to answer with a ref, taken on a stamp and a marker read at *)
(* two different times, is taken only for a covered content.               *)
RefsAreCovered == [][\A p \in Procs : Decides(p) => Covered(cur[p])']_vars

(* "so we re-send the full version instead of a dangling ref"               *)
(* (cache_manager.rs:114), "Next read of the same content re-sends the full *)
(* compressed body instead of a dangling ref" (main.rs:2402): whenever a    *)
(* request decides to answer with a ref, the model has the content.         *)
RefsDoNotDangle ==
    [][\A p \in Procs : Decides(p) /\ ~Precaching(p) => want[p] \in context]_vars

(* The constants with which the serial system keeps that promise: no delta  *)
(* search, no pre-caching, no editor, and refs that keep what they name.    *)
PlainCli ==
    /\ Servers = {} /\ Editors = {}
    /\ \A c \in Content : Deps[c] = {}
    /\ RefRenews

(* Then nothing renews a stamp without a delivery.                          *)
NothingUnbacked == unbacked = {}

(* What the serial system adds to the invariants above.  One request, one   *)
(* notification or one reset is under way.                                  *)
OneAtATime == \A p, q \in Procs : p # q /\ pc[p] # "idle" => pc[q] = "idle"

OneActivity ==
    /\ OneAtATime
    /\ \A n \in Notifiers : npc[n] # "idle" =>
          /\ \A p \in Procs : pc[p] = "idle"
          /\ \A m \in Notifiers \ {n} : npc[m] = "idle"
          /\ rpc = "idle"
    /\ rpc # "idle" =>
          /\ \A p \in Procs : pc[p] = "idle"
          /\ \A n \in Notifiers : npc[n] = "idle"

(* A request works on its own content, and has decided for a ref only to    *)
(* what the model has.                                                      *)
PlainRequests ==
    \A p \in Procs :
        /\ pc[p] \in {"idle", "deps", "accessed", "marker", "touch", "ref", "compress",
                      "save", "sent", "reply", "unstored", "lookup", "found"}
        /\ pc[p] \notin {"idle", "deps"} => cur[p] = want[p]
        /\ deps[p] = {} /\ base[p] = None
        /\ pc[p] \in {"touch", "ref"} => want[p] \in context

(* Nothing is stamped between a notifier's look at the clock and the end of *)
(* what it announces, nor between the two statements of a reset.            *)
StampsPrecede ==
    /\ \A n \in Notifiers : npc[n] # "idle" =>
          /\ npc[n] # "lost"
          /\ marker <= stamp[n]
          /\ \A c \in Content : accessedAt[c] < stamp[n]
    /\ rpc # "idle" => \A c \in Content : accessedAt[c] = 0

SerialInv == OneActivity /\ PlainRequests /\ StampsPrecede /\ NothingUnbacked

(* Used one request at a time, the cache is one that sends every content    *)
(* again that the model has lost: each step of the code is a step of        *)
(* PerfectCache or changes nothing that it tells apart.                     *)
ImplementsPerfectCache == Perfect!Spec

=============================================================================
