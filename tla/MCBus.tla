-------------------------------- MODULE MCBus --------------------------------
(* The clients of the bus for TLC.  They share nothing, so one is chosen   *)
(* in the initial state and the others rest in theirs.                     *)
EXTENDS Integers, Sequences

CONSTANTS MaxValue, MaxOwner, MaxPending, MaxQueued, MaxStarts, MaxChanges,
          Clients, Settings, Fallback, MaxEpoch, MaxNotices, None

VARIABLES
    active,
    owner, lingering, owners, prop, last, matched, calls, inbox, sync, valid, dbusOwner,
    listening, getAll, waiting, failed, heard, told, missed, silent, quiet,
    running, starts, current, changes, requests, events, propMatch,
    ownerMatch, serviceValid, connected, known, result, unseen, announced,
    activatable, epoch, up, refs, stored, env, phase, since, match, notices,
    view

Extended == INSTANCE DDBusExtendedInterface
Plain    == INSTANCE DDBusInterface
Config   == INSTANCE DConfigService

ASSUME MCBusAssumption ==
    /\ Extended!DDBusExtendedAssumption /\ Plain!DDBusInterfaceAssumption
    /\ Config!DConfigServiceAssumption

extendedVars == <<owner, lingering, owners, prop, last, matched, calls, inbox, sync,
    valid, dbusOwner, listening, getAll, waiting, failed, heard, told, missed,
    silent, quiet>>
plainVars == <<running, starts, current, changes, requests, events, propMatch,
    ownerMatch, serviceValid, connected, known, result, unseen, announced>>
configVars == <<activatable, epoch, up, refs, stored, env, phase, since, match,
    notices, view>>
vars == <<active, extendedVars, plainVars, configVars>>

Init ==
    /\ Extended!Init /\ Plain!Init /\ Config!Init
    /\ \/ active = "extended"
       \/ active = "plain"
       \/ active = "config"
    /\ active # "extended" => owner = None
    /\ active # "plain" => running = None
    /\ active # "config" =>
          /\ up = FALSE /\ activatable = FALSE /\ stored = CHOOSE v \in Settings : TRUE
          /\ env = [c \in Clients |-> ""]

Next ==
    /\ UNCHANGED active
    /\ \/ /\ active = "extended" /\ Extended!Next
          /\ UNCHANGED <<plainVars, configVars>>
       \/ /\ active = "plain" /\ Plain!Next
          /\ UNCHANGED <<extendedVars, configVars>>
       \/ /\ active = "config" /\ Config!Next
          /\ UNCHANGED <<extendedVars, plainVars>>

Fair ==
    /\ WF_vars(active = "extended" /\ Extended!Handle
                 /\ UNCHANGED <<active, plainVars, configVars>>)
    /\ SF_vars(active = "extended" /\ Extended!Deliver
                 /\ UNCHANGED <<active, plainVars, configVars>>)

Spec == Init /\ [][Next]_vars /\ Fair

(* A client that rests stays in its initial state.                         *)
Of(part, P) == active = part => P

(* Every client is well typed.                                             *)
TypeOK ==
    /\ Of("extended", Extended!TypeOK) /\ Of("plain", Plain!TypeOK)
    /\ Of("config", Config!TypeOK)
(* Receivers of propertyChanged, and the parent of the plain proxy, end up *)
(* with the value the owner of the name has sent them, over restarts too;  *)
(* those of the extended proxy have an old value only of a process whose   *)
(* successor they were told of.                                            *)
ListenersAreCurrent ==
    /\ Of("extended", Extended!HeardIsCurrent)
    /\ Of("plain", Plain!ParentIsCurrent)
(* What is told of the validity of a service follows every start and end   *)
(* that the bus tells the proxy of.                                        *)
ValidityIsNoticed ==
    /\ Of("extended", Extended!ToldIsRight)
    /\ Of("plain", Plain!OwnerIsNoticed)
(* GetAll of asynchronous mode finishes.                                   *)
GetAllFinishes == Extended!GetAllFinishes
(* An application ends up with the value the service stores.               *)
ViewIsStored == Of("config", Config!ViewIsStored)
(* The service counts only living owners of managers.                      *)
RefsAreLive == Of("config", Config!RefsAreLive)
=============================================================================
