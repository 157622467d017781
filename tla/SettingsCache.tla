---------------------------- MODULE SettingsCache ----------------------------
(***************************************************************************)
(* The instance settings of background work: the accessor of               *)
(* db/src/always-on-settings.ts, with the reads and writes that            *)
(* db/src/store.ts gives it, as the scheduler, the webhooks and the        *)
(* settings routes of several processes call it.                           *)
(*                                                                         *)
(* A process answers from its cache for a while.  A patch reads the        *)
(* settings, merges and writes them all, one row after the other, and      *)
(* nothing keeps two patches apart.  Reading a row and using what was read *)
(* are steps of their own.  Numbers stand for the values of every setting, *)
(* a patch may hold a value of the wrong type, and so may a row.           *)
(***************************************************************************)
EXTENDS Naturals, Sequences, FiniteSets, SequencesExt

CONSTANTS
  Processes, Calls,
  By,          \* [Calls -> Processes]
  Patch,       \* what a call sets: a function on some keys; on none for a read
  Keys,        \* the keys, in the order in which they are written
  Defaults,    \* ALWAYS_ON_DEFAULTS
  Lowest, Highest, \* the range numbers are clamped to
  CacheTime,   \* ALWAYS_ON_CACHE_MS, in ticks of the clock
  Wrong,       \* a value of the wrong type
  Anything,    \* stands for a value that is not followed
  Stored,      \* the rows at first
  MaxTime, MaxRestarts \* bounds

Settings == Range(Keys)
InRange == Lowest .. Highest
Values == InRange \cup {Highest + 1, Wrong}   \* and one that is out of range
Reads == {c \in Calls : DOMAIN Patch[c] = {}}
Updates == Calls \ Reads

ASSUME SettingsCallsAssumption ==
  /\ By \in [Calls -> Processes] /\ Keys \in Seq(Settings)
  /\ \A c \in Calls : DOMAIN Patch[c] \subseteq Settings /\ Range(Patch[c]) \subseteq Values
ASSUME SettingsValuesAssumption ==
  /\ Lowest \in Nat /\ Highest \in Nat /\ Lowest <= Highest /\ {Wrong, Anything} \cap Nat = {}
  /\ Defaults \in [Settings -> InRange] /\ Stored \in [Settings -> Values]
ASSUME SettingsBoundsAssumption == {CacheTime, MaxTime, MaxRestarts} \subseteq Nat

VARIABLES
  settings,  \* the rows of the settings table
  cache,     \* of each process: [at, value], nothing before its first call
  call,      \* where each call is: [stage, stamp, value, left], `left` the keys to write
  clock, restarts,
  quietSince,\* when an update last did anything
  kept       \* what the last update of each key set it to, where no other interfered

settingsVars == <<settings, cache, call, clock, restarts, quietSince, kept>>

Nothing == <<>>
Value == [Settings -> InRange]

SettingsTypeOK ==
  /\ settings \in [Settings -> Values]
  /\ cache \in [Processes -> {Nothing} \cup [at : 0 .. MaxTime, value : Value]]
  /\ call \in [Calls -> [stage : {"out", "reading", "read", "writing", "done"},
                         stamp : 0 .. MaxTime, value : Value, left : Seq(Settings),
                         alone : BOOLEAN]]
  /\ clock \in 0 .. MaxTime /\ quietSince \in 0 .. MaxTime /\ restarts \in 0 .. MaxRestarts
  /\ kept \in [Settings -> InRange \cup {Anything}]

\* A call that holds nothing: it is not made yet, or over.
Idle(stage) ==
  [stage |-> stage, stamp |-> 0, value |-> Defaults, left |-> <<>>, alone |-> TRUE]

SettingsInit ==
  /\ settings = Stored
  /\ cache = [p \in Processes |-> Nothing]
  /\ call = [c \in Calls |-> Idle("out")]
  /\ clock = 0 /\ restarts = 0 /\ quietSince = 0
  /\ kept = [k \in Settings |-> Anything]

\* A mutant of Clamp: numbers have no upper end.
ClampBelow(v) == IF v < Lowest THEN Lowest ELSE v
Clamp(v) == IF v < Lowest THEN Lowest ELSE IF v > Highest THEN Highest ELSE v

\* normalizeAlwaysOn: a row of the wrong type counts as absent.
Normalize(raw) == [k \in Settings |-> IF raw[k] = Wrong THEN Defaults[k] ELSE Clamp(raw[k])]

\* applyAlwaysOnPatch, which throws when a value has the wrong type.
Merged(value, patch) ==
  [k \in Settings |-> IF k \in DOMAIN patch THEN Clamp(patch[k]) ELSE value[k]]
Throws(patch) == Wrong \in Range(patch)

Fresh(p) == cache[p] # Nothing /\ clock - cache[p].at < CacheTime

\* get: answers from the cache, or reads.
Get(c) ==
  /\ c \in Reads /\ call[c].stage = "out"
  /\ call' = [call EXCEPT ![c] = IF Fresh(By[c]) THEN Idle("done")
                                 ELSE [Idle("reading") EXCEPT !.stamp = clock]]
  /\ UNCHANGED <<settings, cache, clock, restarts, quietSince, kept>>

ReadRows(c) ==
  /\ c \in Reads /\ call[c].stage = "reading"
  /\ call' = [call EXCEPT ![c].stage = "read", ![c].value = Normalize(settings)]
  /\ UNCHANGED <<settings, cache, clock, restarts, quietSince, kept>>

\* A mutant of Cached: the stamp is the time after the read.
CachedNow(c) == [at |-> clock, value |-> call[c].value]
\* The stamp is the time before the read.
Cached(c) == [at |-> call[c].stamp, value |-> call[c].value]
GotRows(c) ==
  /\ c \in Reads /\ call[c].stage = "read"
  /\ cache' = [cache EXCEPT ![By[c]] = Cached(c)]
  /\ call' = [call EXCEPT ![c] = Idle("done")]
  /\ UNCHANGED <<settings, clock, restarts, quietSince, kept>>

Writing == {c \in Updates : call[c].stage = "writing"}

\* A mutant of Current: a patch starts from the cache.
CurrentIfCached(c) == IF Fresh(By[c]) THEN cache[By[c]].value ELSE Normalize(settings)
\* update starts from the rows, never from the cache.
Current(c) == Normalize(settings)
ReadToPatch(c) ==
  /\ c \in Updates /\ call[c].stage = "out"
  /\ call' = IF Throws(Patch[c]) THEN [call EXCEPT ![c] = Idle("done")]
             ELSE [d \in Calls |->
                     CASE d = c -> [stage |-> "writing", stamp |-> 0,
                                    value |-> Merged(Current(c), Patch[c]), left |-> Keys,
                                    alone |-> Writing = {}]
                       [] d \in Writing -> [call[d] EXCEPT !.alone = FALSE]
                       [] OTHER -> call[d]]
  /\ quietSince' = clock
  /\ UNCHANGED <<settings, cache, clock, restarts, kept>>

WriteRow(c) ==
  /\ c \in Writing /\ call[c].left # <<>>
  /\ settings' = [settings EXCEPT ![Head(call[c].left)] = call[c].value[Head(call[c].left)]]
  /\ call' = [call EXCEPT ![c].left = Tail(@)]
  /\ quietSince' = clock
  /\ UNCHANGED <<cache, clock, restarts, kept>>

Wrote(c) ==
  /\ c \in Writing /\ call[c].left = <<>>
  /\ cache' = [cache EXCEPT ![By[c]] = [at |-> clock, value |-> call[c].value]]
  /\ call' = [call EXCEPT ![c] = Idle("done")]
  /\ quietSince' = clock
  /\ kept' = [k \in Settings |->
                CASE ~call[c].alone -> Anything
                  [] call[c].alone /\ k \in DOMAIN Patch[c] -> Clamp(Patch[c][k])
                  [] OTHER -> kept[k]]
  /\ UNCHANGED <<settings, clock, restarts>>

\* A write throws: the rows before it are written, those after it are not, the
\* cache keeps what it had, and nothing is followed of the updates so far.
WriteFails(c) ==
  /\ c \in Writing /\ call' = [call EXCEPT ![c] = Idle("done")]
  /\ quietSince' = clock
  /\ kept' = [k \in Settings |-> Anything]
  /\ UNCHANGED <<settings, cache, clock, restarts>>

\* A process stops and starts again: what it was doing is left as it is.
Restart(p) ==
  /\ restarts < MaxRestarts /\ restarts' = restarts + 1
  /\ cache' = [cache EXCEPT ![p] = Nothing]
  /\ call' = [c \in Calls |->
                IF By[c] = p /\ call[c].stage # "out" THEN Idle("done") ELSE call[c]]
  /\ kept' = IF \E c \in Writing : By[c] = p THEN [k \in Settings |-> Anything] ELSE kept
  /\ quietSince' = clock
  /\ UNCHANGED <<settings, clock>>

Tick == /\ clock < MaxTime /\ clock' = clock + 1
        /\ UNCHANGED <<settings, cache, call, restarts, quietSince, kept>>

SettingsNext ==
  \/ \E c \in Calls : \/ Get(c) \/ ReadRows(c) \/ GotRows(c)
                      \/ ReadToPatch(c) \/ WriteRow(c) \/ Wrote(c) \/ WriteFails(c)
  \/ \E p \in Processes : Restart(p)
  \/ Tick

SettingsSpec == SettingsInit /\ [][SettingsNext]_settingsVars

-----------------------------------------------------------------------------
\* "A short cache lets a change apply without a restart": once no update has run
\* for the time of the cache, what any process answers from its cache is what the
\* rows hold, however its reads and the updates overlapped and wherever a write
\* failed.  A read that began before an update and ended after it may put the old
\* settings back, and of two updates the cache may keep the one the rows do not:
\* neither outlives this time.
ChangesApply ==
  Writing = {} /\ clock - quietSince >= CacheTime
    => \A p \in Processes : Fresh(p) => cache[p].value = Normalize(settings)

\* An update that no other overlapped is not lost: until its keys are updated
\* again, or updates overlap, the rows hold what it set, whatever the processes
\* had in their caches and whichever other keys were updated since.
UpdatesAreKept ==
  Writing = {} => \A k \in Settings : kept[k] # Anything => settings[k] = kept[k]

\* Settings settle: every process comes to see the last of them, and none is lost.
SettingsSettle == ChangesApply /\ UpdatesAreKept
=============================================================================
