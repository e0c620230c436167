--------------------------- MODULE DConfigService ---------------------------
(***************************************************************************)
(* DConfig over the configuration service (src/dconfig.cpp: the choice of  *)
(* the backend, DBusBackend and the calls DConfig forwards to it).  The    *)
(* service is a process that may end and be started again; it forgets who  *)
(* has acquired a manager and keeps what was set.  All DConfig objects     *)
(* here are of the same configuration, each in a process of its own.       *)
(*                                                                         *)
(* Applications read an item again whenever valueChanged tells them to.    *)
(* Read-only queries (keyList, permissions, isDefaultValue) go the way of  *)
(* value and are left out.                                                 *)
(***************************************************************************)
EXTENDS Integers

CONSTANTS
    Clients,      \* DConfig objects
    Settings,     \* values of the item
    Fallback,     \* what value() returns if it cannot ask
    MaxEpoch,     \* bound: processes of the service
    MaxNotices,   \* bound: valueChanged signals waiting for a client
    None

DConfigServiceAssumption ==
    /\ Settings # {}
    /\ Fallback \notin Settings
    /\ None \notin Settings \cup {Fallback}
    /\ MaxEpoch \in Nat \ {0}
    /\ MaxNotices \in Nat

VARIABLES
    activatable,  \* the bus can start the service
    epoch,        \* the number of the service's process
    up,           \* the service runs
    refs,         \* clients that have the manager acquired
    stored,       \* the item's value in the service
    env,          \* env[c]: DSG_DCONFIG_BACKEND_TYPE
    phase,        \* phase[c]: "none", "load", "check", "open", "invalid", "file"
    since,        \* since[c]: the process of which config was acquired
    match,        \* match[c]: the subscription is "none", "sent" or "set"
    notices,      \* notices[c]: valueChanged signals not delivered yet
    view          \* view[c]: what the application has read last

daemon == <<epoch, up, refs>>
client == <<phase, since, match, notices, view>>
vars   == <<activatable, epoch, up, refs, stored, env, phase, since, match,
            notices, view>>

Served == up /\ refs # {}

-----------------------------------------------------------------------------
(* The service.                                                            *)
Stop ==
    /\ up
    /\ up' = FALSE
    /\ refs' = {}
    /\ UNCHANGED <<activatable, epoch, stored, env, client>>

StartUp ==
    /\ ~up /\ epoch < MaxEpoch
    /\ up' = TRUE
    /\ epoch' = epoch + 1
    /\ UNCHANGED <<activatable, refs, stored, env, client>>

-----------------------------------------------------------------------------
(* getOrCreateBackend and createBackendByEnv, in the constructor of        *)
(* DConfig: without a service there is no backend at all.                  *)
Construct(c) ==
    /\ phase[c] = "none"
    /\ phase' = [phase EXCEPT ![c] =
                    CASE env[c] = "FileBackend" -> "file"
                      [] env[c] # "FileBackend" /\ (up \/ activatable) -> "load"
                      [] OTHER -> "invalid"]
    /\ UNCHANGED <<activatable, daemon, stored, env, since, match, notices, view>>

(* DBusBackend::load, first half: acquireManager.  The call starts the     *)
(* service if the bus can; the service may have no such configuration.     *)
AcquireManager(c) ==
    /\ phase[c] = "load"
    /\ \/ /\ up
          /\ refs' = refs \cup {c}
          /\ since' = [since EXCEPT ![c] = epoch]
          /\ phase' = [phase EXCEPT ![c] = "check"]
       \/ /\ phase' = [phase EXCEPT ![c] = "invalid"]
          /\ UNCHANGED <<refs, since>>
    /\ UNCHANGED <<activatable, epoch, up, stored, env, match, notices, view>>

CheckManagerSlip(c) ==  \* does not connect valueChanged
    /\ phase[c] = "check"
    /\ phase' = [phase EXCEPT ![c] = IF up THEN "open" ELSE "invalid"]
    /\ UNCHANGED <<activatable, daemon, stored, env, since, match, notices, view>>

(* Second half: the manager is valid if the name has an owner, be it       *)
(* another process by now.                                                 *)
CheckManager(c) ==
    /\ phase[c] = "check"
    /\ IF up
       THEN /\ phase' = [phase EXCEPT ![c] = "open"]
            /\ match' = [match EXCEPT ![c] = "sent"]
       ELSE phase' = [phase EXCEPT ![c] = "invalid"] /\ UNCHANGED match
    /\ UNCHANGED <<activatable, daemon, stored, env, since, notices, view>>

(* The bus handles the subscription before the calls that follow it.       *)
HandleMatch(c) ==
    /\ match[c] = "sent"
    /\ match' = [match EXCEPT ![c] = "set"]
    /\ UNCHANGED <<activatable, daemon, stored, env, phase, since, notices, view>>

Reads(c) == view' = [view EXCEPT ![c] = IF Served THEN stored ELSE Fallback]

Value(c) ==
    /\ \/ phase[c] = "open" /\ match[c] # "sent" /\ Reads(c)
       \/ phase[c] = "invalid" /\ view' = [view EXCEPT ![c] = Fallback]
    /\ UNCHANGED <<activatable, daemon, stored, env, phase, since, match, notices>>

(* setValue, and reset to one of the values; an error is only logged.  The *)
(* service announces a value that differs.                                 *)
SetValue(c, v) ==
    /\ phase[c] = "open" /\ match[c] # "sent"
    /\ Served
    /\ v # stored
    /\ \A d \in Clients : notices[d] < MaxNotices
    /\ stored' = v
    /\ notices' = [d \in Clients |-> IF match[d] = "set" THEN notices[d] + 1
                                     ELSE notices[d]]
    /\ UNCHANGED <<activatable, daemon, env, phase, since, match, view>>

(* DConfig::valueChanged, to which the application answers by reading.     *)
ValueChanged(c) ==
    /\ notices[c] > 0
    /\ notices' = [notices EXCEPT ![c] = @ - 1]
    /\ Reads(c)
    /\ UNCHANGED <<activatable, daemon, stored, env, phase, since, match>>

DestroySlip(c) ==  \* does not release the manager
    /\ phase[c] \in {"open", "invalid", "file"}
    /\ phase' = [phase EXCEPT ![c] = "none"]
    /\ since' = [since EXCEPT ![c] = 0]
    /\ match' = [match EXCEPT ![c] = "none"]
    /\ notices' = [notices EXCEPT ![c] = 0]
    /\ view' = [view EXCEPT ![c] = None]
    /\ UNCHANGED <<activatable, daemon, stored, env>>

(* ~DBusBackend: release is sent, whatever process gets it.                *)
Destroy(c) ==
    /\ phase[c] \in {"open", "invalid", "file"}
    /\ phase' = [phase EXCEPT ![c] = "none"]
    /\ since' = [since EXCEPT ![c] = 0]
    /\ match' = [match EXCEPT ![c] = "none"]
    /\ notices' = [notices EXCEPT ![c] = 0]
    /\ view' = [view EXCEPT ![c] = None]
    /\ refs' = IF phase[c] = "open" THEN refs \ {c} ELSE refs
    /\ UNCHANGED <<activatable, epoch, up, stored, env>>

-----------------------------------------------------------------------------
Init ==
    /\ activatable \in BOOLEAN
    /\ epoch = 1
    /\ up \in BOOLEAN
    /\ refs = {}
    /\ stored \in Settings
    /\ env \in [Clients -> {"", "DBusBackend", "FileBackend"}]
    /\ phase = [c \in Clients |-> "none"]
    /\ since = [c \in Clients |-> 0]
    /\ match = [c \in Clients |-> "none"]
    /\ notices = [c \in Clients |-> 0]
    /\ view = [c \in Clients |-> None]

Next ==
    \/ Stop \/ StartUp
    \/ \E c \in Clients :
          \/ Construct(c) \/ AcquireManager(c) \/ CheckManager(c) \/ HandleMatch(c)
          \/ Value(c) \/ ValueChanged(c) \/ Destroy(c)
          \/ \E v \in Settings : SetValue(c, v)

Spec == Init /\ [][Next]_vars

-----------------------------------------------------------------------------
(* Every variable has its type; a service that is down counts nobody.      *)
TypeOK ==
    /\ {activatable, up} \subseteq BOOLEAN
    /\ epoch \in 0..MaxEpoch
    /\ refs \subseteq Clients /\ (~up => refs = {})
    /\ stored \in Settings
    /\ phase \in [Clients -> {"none", "load", "check", "open", "invalid", "file"}]
    /\ since \in [Clients -> 0..MaxEpoch]
    /\ match \in [Clients -> {"none", "sent", "set"}]
    /\ notices \in [Clients -> 0..MaxNotices]
    /\ view \in [Clients -> Settings \cup {None, Fallback}]

(* What an application has read is what the service stores once its        *)
(* signals are delivered: no change is lost between load and the first     *)
(* read, nor while signals wait, as long as the service is the process the *)
(* manager was acquired from.                                              *)
ViewIsStored ==
    \A c \in Clients :
        /\ phase[c] = "open" /\ up /\ since[c] = epoch
        /\ view[c] # None /\ notices[c] = 0
        => view[c] = stored

(* The service counts only objects that live and have acquired a manager   *)
(* of this very process, through crashes of the service between            *)
(* acquireManager and the check.                                           *)
RefsAreLive ==
    \A c \in refs : phase[c] \in {"check", "open"} /\ since[c] = epoch
=============================================================================
