------------------------------ MODULE DSettings ------------------------------
(***************************************************************************)
(* DSettings (src/settings): options live in the caller's thread, and each *)
(* backend in a thread of its own, to which changes are posted.  Some      *)
(* backends (GSettingsBackend) report every change of their store back,    *)
(* their own writes and those of other programs; the others                *)
(* (QSettingBackend, DSettingsDConfigBackend) report nothing.              *)
(*                                                                         *)
(* Both threads only meet in queues; a blocking call waits for the         *)
(* backend's thread to come to it.                                         *)
(***************************************************************************)
EXTENDS Integers, FiniteSets, Sequences, Functions

CONSTANTS
    Options,      \* keys of the options
    Resettable,   \* those with canReset
    OptionValues, \* values options can have
    Default,      \* Default[k]: the option's default value
    Backends,     \* backend objects
    Reporting,    \* those that report changes
    MaxPending,   \* bound: changes posted or reported when another begins
    None

DSettingsAssumption ==
    /\ IsFiniteSet(Options) /\ Resettable \subseteq Options
    /\ Default \in [Options -> OptionValues]
    /\ Reporting \subseteq Backends
    /\ MaxPending \in Nat
    /\ None \notin OptionValues \cup Backends

VARIABLES
    option,    \* option[k]: DSettingsOptionPrivate::value, None if not valid
    backend,   \* DSettingsPrivate::backend
    threads,   \* backends whose thread runs
    store,     \* store[b][k]: what the backend has stored, None if nothing
    posted,    \* posted[b]: events of the backend's thread
    reported,  \* optionChanged calls posted to the caller's thread
    syncing,   \* the caller waits in sync()
    touched    \* history: options changed since the backend was set

vars == <<option, backend, threads, store, posted, reported, syncing, touched>>

(* DSettingsOption::value                                                  *)
Shown(k) == IF option[k] = None THEN Default[k] ELSE option[k]

SetCall(k, v) == [call |-> "doSetOption", key |-> k, value |-> v]
SyncCall      == [call |-> "doSync"]

-----------------------------------------------------------------------------
(* DSettingsOption::setValue for the options in ks: those whose value      *)
(* differs from new[k] change, and the slot DSettings connects to each     *)
(* posts the change to the backend.                                        *)
Differing(ks, new) == {k \in ks : new[k] # Shown(k)}

SetOptions(ks, new) ==
    /\ option' = [k \in Options |-> IF k \in Differing(ks, new) THEN new[k] ELSE option[k]]
    /\ touched' = IF backend = None THEN touched ELSE touched \cup Differing(ks, new)

Listed(S) == CHOOSE f \in [1 .. Cardinality(S) -> S] : IsInjective(f)

Calls(ks, new) ==
    LET keys == Listed(Differing(ks, new)) IN
    [i \in DOMAIN keys |-> SetCall(keys[i], new[keys[i]])]

PostTo(b, calls) ==
    IF b = None THEN UNCHANGED posted
    ELSE posted' = [posted EXCEPT ![b] = @ \o calls]

(* The caller runs, and little is under way.                               *)
Pending == UNION {{<<b, i>> : i \in {j \in DOMAIN posted[b] : posted[b][j] # SyncCall}}
                     : b \in Backends}

Free == ~syncing /\ Len(reported) + Cardinality(Pending) < MaxPending

SetOption(k, v) ==
    LET new == [x \in {k} |-> v] IN
    /\ Free
    /\ SetOptions({k}, new)
    /\ PostTo(backend, Calls({k}, new))
    /\ UNCHANGED <<backend, threads, store, reported, syncing>>

(* reset: every option that can be, then a queued sync.                    *)
Reset ==
    /\ Free
    /\ SetOptions(Resettable, Default)
    /\ PostTo(backend, Calls(Resettable, Default) \o
          (IF backend # None /\ SyncCall \notin Range(posted[backend]) THEN <<SyncCall>> ELSE <<>>))
    /\ UNCHANGED <<backend, threads, store, reported, syncing>>

(* setBackend: what the backend has is loaded with signals blocked before  *)
(* its thread starts.  A backend set before goes on, and reports.  Nothing *)
(* is loaded from GSettingsBackend, which lists its keys with other names  *)
(* than the options have.                                                  *)
SetBackend(b) ==
    /\ ~syncing
    /\ b \notin threads
    /\ backend' = b
    /\ option' = [k \in Options |->
                     IF b \notin Reporting /\ store[b][k] # None /\ store[b][k] # Shown(k)
                     THEN store[b][k] ELSE option[k]]
    /\ touched' = {}
    /\ threads' = threads \cup {b}
    /\ UNCHANGED <<store, posted, reported, syncing>>

(* sync: a blocking queued call of doSync.                                 *)
Sync ==
    /\ Free /\ backend # None
    /\ PostTo(backend, <<[call |-> "answer"]>>)
    /\ syncing' = TRUE
    /\ UNCHANGED <<option, backend, threads, store, reported, touched>>

(* The slot connected to optionChanged, of whatever backend.               *)
OnOptionChanged ==
    LET c == Head(reported)
        new == [x \in {c.key} |-> c.value] IN
    /\ ~syncing /\ reported # <<>>
    /\ reported' = Tail(reported)
    /\ SetOptions({c.key}, new)
    /\ PostTo(backend, Calls({c.key}, new))
    /\ UNCHANGED <<backend, threads, store, syncing>>

(* The destructor ends the threads with what is posted to them, and a new  *)
(* DSettings begins from the stores.                                       *)
Restart ==
    /\ ~syncing
    /\ backend # None
    /\ option' = [k \in Options |-> None]
    /\ backend' = None
    /\ threads' = {}
    /\ posted' = [b \in Backends |-> <<>>]
    /\ reported' = <<>>
    /\ touched' = {}
    /\ UNCHANGED <<store, syncing>>

-----------------------------------------------------------------------------
(* The backend's thread.  doSetOption writes a value that differs; of a    *)
(* reporting backend every write is reported, also its own.                *)
DoSetOptionSlip(b, c) ==  \* compares with the option's default
    /\ IF c.value = Default[c.key] THEN UNCHANGED <<store, reported>>
       ELSE /\ store' = [store EXCEPT ![b][c.key] = c.value]
            /\ reported' = IF b \in Reporting THEN Append(reported, c) ELSE reported
    /\ UNCHANGED syncing

DoSetOption(b, c) ==
    /\ IF c.value = store[b][c.key] THEN UNCHANGED <<store, reported>>
       ELSE /\ store' = [store EXCEPT ![b][c.key] = c.value]
            /\ reported' = IF b \in Reporting THEN Append(reported, c) ELSE reported
    /\ UNCHANGED syncing

(* doSync writes the file; GSettingsBackend's only posts itself again, for *)
(* ever; once is kept.                                                     *)
DoSync(b, c) ==
    /\ syncing' = (syncing /\ c.call # "answer")
    /\ UNCHANGED <<store, reported>>

Work(b) ==
    LET c == Head(posted[b])
        again == b \in Reporting /\ c.call # "doSetOption"
        rest  == Tail(posted[b]) IN
    /\ b \in threads /\ posted[b] # <<>>
    /\ posted' = [posted EXCEPT ![b] =
                     IF again /\ SyncCall \notin Range(rest) THEN Append(rest, SyncCall) ELSE rest]
    /\ \/ c.call = "doSetOption" /\ DoSetOption(b, c)
       \/ c.call \in {"doSync", "answer"} /\ DoSync(b, c)
    /\ UNCHANGED <<option, backend, threads, touched>>

(* Another program writes to the store of a reporting backend.             *)
Outside(b, k, v) ==
    /\ b \in Reporting
    /\ store[b][k] # v
    /\ Len(reported) + Cardinality(Pending) < MaxPending
    /\ store' = [store EXCEPT ![b][k] = v]
    /\ reported' = IF b \in threads THEN Append(reported, SetCall(k, v)) ELSE reported
    /\ UNCHANGED <<option, backend, threads, posted, syncing, touched>>

-----------------------------------------------------------------------------
Init ==
    /\ option = [k \in Options |-> None]
    /\ backend = None
    /\ threads = {}
    /\ store = [b \in Backends |-> [k \in Options |-> None]]
    /\ posted = [b \in Backends |-> <<>>]
    /\ reported = <<>>
    /\ syncing = FALSE
    /\ touched = {}

Next ==
    \/ \E k \in Options, v \in OptionValues :
          SetOption(k, v) \/ \E b \in Backends : Outside(b, k, v)
    \/ Reset \/ Sync \/ OnOptionChanged \/ Restart
    \/ \E b \in Backends : SetBackend(b) \/ Work(b)

Spec == Init /\ [][Next]_vars

-----------------------------------------------------------------------------
(* Every variable has its type; the current backend has a thread.          *)
TypeOK ==
    /\ option \in [Options -> OptionValues \cup {None}]
    /\ threads \subseteq Backends
    /\ backend \in threads \cup {None}
    /\ store \in [Backends -> [Options -> OptionValues \cup {None}]]
    /\ syncing \in BOOLEAN /\ touched \subseteq Options

Idle ==
    /\ reported = <<>>
    /\ \A b \in Backends : \A i \in DOMAIN posted[b] :
          posted[b][i].call # "doSetOption"

(* When both threads have done what was posted, each option changed since  *)
(* the backend was set has the value that is stored, whatever was set      *)
(* here, set by other programs or reported by an earlier backend meanwhile.*)
StoreAgrees ==
    Idle /\ backend # None => \A k \in touched : store[backend][k] = Shown(k)

(* When sync returns, every change made before it is stored, unless other  *)
(* changes are reported meanwhile.                                         *)
SyncStores ==
    syncing /\ ~syncing' /\ backend \notin Reporting
        => \A k \in touched : store'[backend][k] = Shown(k)
=============================================================================
