--------------------------- MODULE DDBusInterface ---------------------------
(***************************************************************************)
(* DDBusInterface (src/util): a proxy that tells its parent object about   *)
(* changed properties, and whether the service is there.  It asks the bus  *)
(* once whether the name has an owner; only if it has none does it         *)
(* subscribe to NameOwnerChanged, until the service appears.               *)
(*                                                                         *)
(* Requests reach the bus in order, and what the bus sends waits in order  *)
(* for the event loop.  One property stands for all; its values are        *)
(* numbered as the property takes them.                                    *)
(***************************************************************************)
EXTENDS Integers, Sequences

CONSTANTS
    MaxStarts,  \* bound: times the service starts
    MaxChanges, \* bound: values the property takes
    None

DDBusInterfaceAssumption ==
    /\ MaxStarts \in Nat \ {0}
    /\ MaxChanges \in Nat \ {0}
    /\ None \notin Nat

VARIABLES
    running,      \* the service process that owns the name, or None
    starts,       \* how many there have been
    current,      \* the value of its property
    changes,      \* values there have been
    requests,     \* sent to the bus and not handled yet
    events,       \* sent to the proxy and not delivered yet
    propMatch,    \* the bus forwards PropertiesChanged
    ownerMatch,   \* the bus forwards NameOwnerChanged
    serviceValid, \* DDBusInterfacePrivate::m_serviceValid
    connected,    \* the parent is connected to the service's signals
    known,        \* what the parent was told last: a value and whose it is
    result,       \* what property() returned last
    unseen,       \* history: the bus told nobody of the latest start or end
    announced     \* history: the present value was sent to the proxy

serviceVars == <<running, starts, current, changes, unseen, announced>>
proxyVars == <<serviceValid, connected, known, result>>
busVars   == <<requests, events, propMatch, ownerMatch>>
vars      == <<serviceVars, proxyVars, busVars>>

Unknown == [value |-> None, from |-> None]

-----------------------------------------------------------------------------
(* The service.                                                            *)
StartService ==
    /\ running = None /\ starts < MaxStarts /\ changes < MaxChanges
    /\ running' = starts + 1
    /\ starts' = starts + 1
    /\ current' = changes + 1
    /\ changes' = changes + 1
    /\ unseen' = ~ownerMatch
    /\ announced' = FALSE
    /\ events' = IF ownerMatch THEN Append(events, [kind |-> "taken"]) ELSE events
    /\ UNCHANGED <<requests, propMatch, ownerMatch, proxyVars>>

(* The process ends or gives up its name.                                  *)
StopService ==
    /\ running # None
    /\ running' = None
    /\ current' = None
    /\ announced' = FALSE
    /\ unseen' = ~ownerMatch
    /\ events' = IF ownerMatch THEN Append(events, [kind |-> "left"]) ELSE events
    /\ UNCHANGED <<starts, changes, requests, propMatch, ownerMatch, proxyVars>>

(* Another process takes the name over: the slot has no use for a signal   *)
(* with an old owner and a new one.                                        *)
ReplaceService ==
    /\ running # None /\ starts < MaxStarts /\ changes < MaxChanges
    /\ running' = starts + 1
    /\ starts' = starts + 1
    /\ current' = changes + 1
    /\ changes' = changes + 1
    /\ announced' = FALSE
    /\ UNCHANGED <<unseen, busVars, proxyVars>>

(* The property changes; the signal has the value, or names the property   *)
(* as invalidated.                                                         *)
ChangeProperty(valued) ==
    /\ running # None /\ changes < MaxChanges
    /\ current' = changes + 1
    /\ changes' = changes + 1
    /\ announced' = (propMatch /\ valued)
    /\ events' = IF propMatch /\ valued
                 THEN Append(events, [kind |-> "changed", value |-> changes + 1,
                                      from |-> running])
                 ELSE events
    /\ UNCHANGED <<running, starts, unseen, requests, propMatch, ownerMatch,
                   proxyVars>>

(* The bus handles the next request of the constructor or of the slots.    *)
HandleRequest ==
    /\ requests # <<>>
    /\ requests' = Tail(requests)
    /\ \/ /\ Head(requests) = "NameHasOwner"
          /\ events' = Append(events, [kind |-> "hasOwner", valid |-> running # None])
          /\ unseen' = FALSE
          /\ UNCHANGED <<propMatch, ownerMatch>>
       \/ /\ Head(requests) = "MatchProperties"
          /\ propMatch' = TRUE
          /\ UNCHANGED <<events, ownerMatch, unseen>>
       \/ /\ Head(requests) \in {"MatchOwner", "UnmatchOwner"}
          /\ ownerMatch' = (Head(requests) = "MatchOwner")
          /\ UNCHANGED <<events, propMatch, unseen>>
    /\ UNCHANGED <<running, starts, current, changes, announced, proxyVars>>

-----------------------------------------------------------------------------
(* The slots.                                                              *)
OnDBusNameHasOwner(valid) ==
    /\ serviceValid' = valid
    /\ connected' = (connected \/ valid)
    /\ requests' = IF valid THEN requests ELSE Append(requests, "MatchOwner")
    /\ UNCHANGED known

(* The owner the service had before its start is empty, that after its end *)
(* is empty.                                                               *)
OnDBusNameOwnerChanged(e) ==
    /\ IF e.kind = "taken"
       THEN /\ connected' = TRUE
            /\ requests' = Append(requests, "UnmatchOwner")
            /\ serviceValid' = TRUE
       ELSE /\ serviceValid' = FALSE
            /\ UNCHANGED <<connected, requests>>
    /\ UNCHANGED known

(* updateProp for each property that changed; those invalidated are        *)
(* ignored.                                                                *)
OnPropertiesChanged(e) ==
    /\ known' = [value |-> e.value, from |-> e.from]
    /\ UNCHANGED <<serviceValid, connected, requests>>

DeliverEvent ==
    /\ events # <<>>
    /\ events' = Tail(events)
    /\ LET e == Head(events) IN
       \/ e.kind = "hasOwner" /\ OnDBusNameHasOwner(e.valid)
       \/ e.kind \in {"taken", "left"} /\ OnDBusNameOwnerChanged(e)
       \/ e.kind = "changed" /\ OnPropertiesChanged(e)
    /\ UNCHANGED <<serviceVars, result, propMatch, ownerMatch>>

(* property() waits for the answer; the slot for a late one finds an error *)
(* and does nothing.                                                       *)
Property ==
    /\ result' = current
    /\ UNCHANGED <<serviceVars, busVars, serviceValid, connected, known>>

(* setProperty() waits too; a service that stores the value announces it.  *)
SetProperty(valued) == ChangeProperty(valued)

-----------------------------------------------------------------------------
Init ==
    /\ \/ running = None /\ starts = 0 /\ changes = 0 /\ current = None
       \/ running = 1 /\ starts = 1 /\ changes = 1 /\ current = 1
    /\ requests = <<"NameHasOwner", "MatchProperties">>
    /\ events = <<>>
    /\ propMatch = FALSE
    /\ ownerMatch = FALSE
    /\ serviceValid = FALSE
    /\ connected = FALSE
    /\ known = Unknown
    /\ result = None
    /\ unseen = FALSE
    /\ announced = FALSE

Next ==
    \/ StartService \/ StopService \/ ReplaceService \/ HandleRequest \/ DeliverEvent \/ Property
    \/ \E valued \in BOOLEAN : ChangeProperty(valued) \/ SetProperty(valued)

Spec == Init /\ [][Next]_vars

-----------------------------------------------------------------------------
(* Every variable has its type; the parent is connected to the signals of  *)
(* a service that counts as valid.                                         *)
TypeOK ==
    /\ running \in 1..MaxStarts \cup {None} /\ starts \in 0..MaxStarts
    /\ current \in 1..MaxChanges \cup {None} /\ changes \in 0..MaxChanges
    /\ known.value \in 1..MaxChanges \cup {None}
    /\ known.from \in 1..MaxStarts \cup {None}
    /\ result \in 1..MaxChanges \cup {None}
    /\ {propMatch, ownerMatch, serviceValid, connected, unseen, announced} \subseteq BOOLEAN
    /\ serviceValid => connected

(* When nothing is under way, the service counts as valid exactly if it    *)
(* has an owner, whenever that came and went, unless the bus told nobody   *)
(* of the latest start or end: the proxy is not subscribed between the     *)
(* answer that there is no owner and the subscription, and after the first *)
(* start that it was told of.                                              *)
OwnerIsNoticed ==
    requests = <<>> /\ events = <<>> /\ ~unseen => serviceValid = (running # None)

(* When nothing is under way, the parent has the value of the process that *)
(* runs, if this has announced it, whatever earlier processes told and     *)
(* when.  A process that has only started has announced nothing, and a     *)
(* change that comes as an invalidation is ignored.                        *)
ParentIsCurrent ==
    events = <<>> /\ announced => known = [value |-> current, from |-> running]
=============================================================================
