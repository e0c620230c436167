------------------------------ MODULE BusProofs ------------------------------
(***************************************************************************)
(* What the clients of the bus guarantee for any number of processes of    *)
(* the service, any number of clients and any values: applications end up  *)
(* with the value the configuration service stores, receivers and parents  *)
(* of the proxies with the value the service has sent, and what they are   *)
(* told of the service follows what the bus told the proxies of it.        *)
(***************************************************************************)
EXTENDS MCBus, QueueTheorems

-----------------------------------------------------------------------------
(* The configuration service.                                              *)

(* A client that has acquired a manager of this very process is counted.   *)
AcquiredIsCounted ==
    \A c \in Clients :
        phase[c] \in {"check", "open"} /\ up /\ since[c] = epoch => c \in refs

(* Nobody acquires a manager of a process that is still to come.           *)
NoneFromLater == \A c \in Clients : since[c] <= epoch

(* The subscription is made when the manager is, and read after that.      *)
SubscribedFirst ==
    \A c \in Clients :
        /\ phase[c] # "open" => match[c] = "none" /\ notices[c] = 0
        /\ phase[c] = "open" => match[c] \in {"sent", "set"}
        /\ match[c] = "sent" => view[c] = None /\ notices[c] = 0
        /\ phase[c] \in {"none", "load", "check", "file"} => view[c] = None

ConfigInv ==
    /\ Config!TypeOK /\ Config!RefsAreLive
    /\ AcquiredIsCounted /\ NoneFromLater /\ SubscribedFirst
    /\ Config!ViewIsStored

(* The service stops and starts, and clients of it come and go, without    *)
(* breaking any part of the invariant.                                     *)
LEMMA ConfigStep == ConfigInv /\ [Config!Next]_configVars => ConfigInv'
<1>. SUFFICES ASSUME ConfigInv, [Config!Next]_configVars PROVE ConfigInv'
  OBVIOUS
<1>. USE MCBusAssumption DEF ConfigInv, Config!TypeOK, Config!RefsAreLive, AcquiredIsCounted,
             NoneFromLater, SubscribedFirst, Config!ViewIsStored,
             Config!DConfigServiceAssumption
<1>1. CASE Config!Stop
  BY <1>1 DEF Config!Stop, Config!client
<1>2. CASE Config!StartUp
  BY <1>2 DEF Config!StartUp, Config!client
<1>3. ASSUME NEW c \in Clients, Config!Construct(c) PROVE ConfigInv'
  BY <1>3 DEF Config!Construct, Config!daemon
<1>4. ASSUME NEW c \in Clients, Config!AcquireManager(c) PROVE ConfigInv'
  BY <1>4 DEF Config!AcquireManager
<1>5. ASSUME NEW c \in Clients, Config!CheckManager(c) PROVE ConfigInv'
  BY <1>5 DEF Config!CheckManager, Config!daemon
<1>6. ASSUME NEW c \in Clients, Config!HandleMatch(c) PROVE ConfigInv'
  BY <1>6 DEF Config!HandleMatch, Config!daemon
<1>7. ASSUME NEW c \in Clients, Config!Value(c) PROVE ConfigInv'
  BY <1>7 DEF Config!Value, Config!Reads, Config!Served, Config!daemon
<1>8. ASSUME NEW c \in Clients, Config!ValueChanged(c) PROVE ConfigInv'
  BY <1>8 DEF Config!ValueChanged, Config!Reads, Config!Served, Config!daemon
<1>9. ASSUME NEW c \in Clients, Config!Destroy(c) PROVE ConfigInv'
  BY <1>9 DEF Config!Destroy
<1>10. ASSUME NEW c \in Clients, NEW v \in Settings, Config!SetValue(c, v)
       PROVE ConfigInv'
  BY <1>10 DEF Config!SetValue, Config!daemon, Config!Served
<1>11. CASE UNCHANGED configVars
  BY <1>11 DEF configVars
<1>. QED
  BY <1>1, <1>2, <1>3, <1>4, <1>5, <1>6, <1>7, <1>8, <1>9, <1>10, <1>11
     DEF Config!Next
-----------------------------------------------------------------------------
(* The plain proxy.                                                        *)
PlainRequests == {"NameHasOwner", "MatchProperties", "MatchOwner", "UnmatchOwner"}
PlainEvents ==
    [kind : {"hasOwner"}, valid : BOOLEAN] \cup [kind : {"taken", "left"}]
    \cup [kind : {"changed"}, value : 1..MaxChanges, from : 1..MaxStarts]

PlainTypes ==
    /\ Plain!TypeOK
    /\ requests \in Seq(PlainRequests)
    /\ events \in Seq(PlainEvents)

(* The events that tell whether the service runs, and those that tell a    *)
(* value.                                                                  *)
StateEvents == {e \in PlainEvents : e.kind # "changed"}
Positive(e) == e.kind = "taken" \/ (e.kind = "hasOwner" /\ e.valid)
ValueEvents == {e \in PlainEvents : e.kind = "changed"}

(* The last word that is still to be delivered about the service, or else  *)
(* what it counts as, tells whether it runs, once the bus has been asked.  *)
OwnerIsUnderWay ==
    ~unseen /\ "NameHasOwner" \notin Range(requests)
    => /\ \A e \in Range(events) :
             LastAmong(events, StateEvents, e) => (Positive(e) <=> running # None)
       /\ Range(events) \cap StateEvents = {} => (serviceValid <=> running # None)

(* The last value that is still to be delivered, or else the one the parent*)
(* was told, is that of the property, if it was announced.                 *)
ValueIsUnderWay ==
    announced =>
        /\ \A e \in Range(events) : LastAmong(events, ValueEvents, e) =>
              [value |-> e.value, from |-> e.from] = [value |-> current, from |-> running]
        /\ Range(events) \cap ValueEvents = {}
              => known = [value |-> current, from |-> running]

PlainInv == PlainTypes /\ OwnerIsUnderWay /\ ValueIsUnderWay

LEMMA PlainEventTypes ==
    /\ [kind |-> "taken"] \in PlainEvents /\ [kind |-> "left"] \in PlainEvents
    /\ \A b \in BOOLEAN : [kind |-> "hasOwner", valid |-> b] \in PlainEvents
    /\ \A v \in 1..MaxChanges, p \in 1..MaxStarts :
          [kind |-> "changed", value |-> v, from |-> p] \in PlainEvents
    /\ \A e \in PlainEvents :
          /\ e.kind \in {"hasOwner", "taken", "left", "changed"}
          /\ e.kind = "hasOwner" => e.valid \in BOOLEAN
          /\ e.kind = "changed" => e.value \in 1..MaxChanges /\ e.from \in 1..MaxStarts
BY DEF PlainEvents

LEMMA PlainTypesStep == PlainTypes /\ [Plain!Next]_plainVars => PlainTypes'
<1>. SUFFICES ASSUME PlainTypes, [Plain!Next]_plainVars PROVE PlainTypes'
  OBVIOUS
<1>0. /\ requests \in Seq(PlainRequests) /\ events \in Seq(PlainEvents)
      /\ {propMatch, ownerMatch, serviceValid, connected, unseen, announced} \subseteq BOOLEAN
  BY DEF PlainTypes, Plain!TypeOK
<1>. USE MCBusAssumption DEF Plain!serviceVars, Plain!proxyVars, Plain!busVars
<1>1. CASE Plain!StartService
  <2>1. events' \in Seq(PlainEvents)
    BY <1>0, <1>1, PlainEventTypes DEF Plain!StartService
  <2>. QED
    <3>1. starts + 1 \in 1..MaxStarts /\ changes + 1 \in 1..MaxChanges
      BY <1>1 DEF Plain!StartService, PlainTypes, Plain!TypeOK, Plain!DDBusInterfaceAssumption
    <3>2. {unseen', announced'} \subseteq BOOLEAN
      BY <1>0, <1>1 DEF Plain!StartService
    <3>. QED
      BY <1>1, <2>1, <3>1, <3>2 DEF Plain!StartService, PlainTypes, Plain!TypeOK
<1>2. CASE Plain!StopService
  <2>1. events' \in Seq(PlainEvents)
    BY <1>0, <1>2, PlainEventTypes DEF Plain!StopService
  <2>. QED
    BY <1>2, <2>1 DEF Plain!StopService, PlainTypes, Plain!TypeOK
<1>3. CASE Plain!HandleRequest
  <2>1. requests' \in Seq(PlainRequests)
    BY <1>0, <1>3 DEF Plain!HandleRequest
  <2>2. events' \in Seq(PlainEvents)
    <3>1. [kind |-> "hasOwner", valid |-> running # None] \in PlainEvents
      BY PlainEventTypes
    <3>2. \/ events' = events
          \/ events' = Append(events, [kind |-> "hasOwner", valid |-> running # None])
      BY <1>3, Zenon DEF Plain!HandleRequest
    <3>. QED
      BY <1>0, <3>1, <3>2, AppendProperties
  <2>3. {propMatch', ownerMatch', unseen'} \subseteq BOOLEAN
    BY <1>0, <1>3 DEF Plain!HandleRequest
  <2>. QED
    BY <1>3, <2>1, <2>2, <2>3 DEF Plain!HandleRequest, PlainTypes, Plain!TypeOK
<1>4. CASE Plain!DeliverEvent
  <2>1. Head(events) \in PlainEvents /\ events' \in Seq(PlainEvents)
    BY <1>0, <1>4 DEF Plain!DeliverEvent
  <2>2. CASE Plain!OnDBusNameHasOwner(Head(events).valid)
             /\ Head(events).kind = "hasOwner"
    <3>1. Head(events).valid \in BOOLEAN
      BY <2>1, <2>2, PlainEventTypes
    <3>2. requests' \in Seq(PlainRequests)
      BY <1>0, <2>2 DEF Plain!OnDBusNameHasOwner, PlainRequests
    <3>. QED
      BY <1>4, <2>1, <2>2, <3>1, <3>2
         DEF Plain!DeliverEvent, Plain!OnDBusNameHasOwner, PlainTypes, Plain!TypeOK
  <2>3. CASE Plain!OnDBusNameOwnerChanged(Head(events))
    <3>1. requests' \in Seq(PlainRequests)
      BY <1>0, <2>3 DEF Plain!OnDBusNameOwnerChanged, PlainRequests
    <3>2. /\ {serviceValid', connected'} \subseteq BOOLEAN
          /\ serviceValid' => connected'
      BY <1>0, <2>3 DEF Plain!OnDBusNameOwnerChanged
    <3>. QED
      BY <1>4, <2>1, <2>3, <3>1, <3>2
         DEF Plain!DeliverEvent, Plain!OnDBusNameOwnerChanged, PlainTypes, Plain!TypeOK
  <2>4. CASE Plain!OnPropertiesChanged(Head(events)) /\ Head(events).kind = "changed"
    <3>1. Head(events).value \in 1..MaxChanges /\ Head(events).from \in 1..MaxStarts
      BY <2>1, <2>4, PlainEventTypes
    <3>. QED
      BY <1>4, <2>1, <2>4, <3>1
         DEF Plain!DeliverEvent, Plain!OnPropertiesChanged, PlainTypes, Plain!TypeOK
  <2>. QED
    BY <1>4, <2>2, <2>3, <2>4 DEF Plain!DeliverEvent
<1>5. CASE Plain!Property
  BY <1>5 DEF Plain!Property, PlainTypes, Plain!TypeOK
<1>6. ASSUME NEW valued \in BOOLEAN, Plain!ChangeProperty(valued) PROVE PlainTypes'
  <2>1. changes + 1 \in 1..MaxChanges /\ running \in 1..MaxStarts
    BY <1>6 DEF Plain!ChangeProperty, PlainTypes, Plain!TypeOK, Plain!DDBusInterfaceAssumption
  <2>2. events' \in Seq(PlainEvents)
    <3>1. [kind |-> "changed", value |-> changes + 1, from |-> running] \in PlainEvents
      BY <2>1, PlainEventTypes
    <3>. QED
      BY <1>0, <1>6, <3>1 DEF Plain!ChangeProperty
  <2>. QED
    BY <1>6, <2>1, <2>2
       DEF Plain!ChangeProperty, PlainTypes, Plain!TypeOK, Plain!DDBusInterfaceAssumption
<1>7. CASE UNCHANGED plainVars
  BY <1>7 DEF plainVars, PlainTypes, Plain!TypeOK
<1>8. CASE Plain!ReplaceService
  <2>1. starts + 1 \in 1..MaxStarts /\ changes + 1 \in 1..MaxChanges
    BY <1>8 DEF Plain!ReplaceService, PlainTypes, Plain!TypeOK, Plain!DDBusInterfaceAssumption
  <2>. QED
    <3>1. announced' = FALSE /\ running' = starts + 1 /\ starts' = starts + 1
      BY <1>8 DEF Plain!ReplaceService
    <3>2. /\ current' = changes + 1 /\ changes' = changes + 1
          /\ UNCHANGED <<unseen, requests, events, propMatch, ownerMatch, serviceValid,
                         connected, known, result>>
      BY <1>8 DEF Plain!ReplaceService
    <3>3. starts + 1 \in 0..MaxStarts /\ changes + 1 \in 0..MaxChanges
      BY <2>1
    <3>. QED
      BY <1>0, <2>1, <3>1, <3>2, <3>3 DEF PlainTypes, Plain!TypeOK
<1>. QED
  BY <1>1, <1>2, <1>3, <1>4, <1>5, <1>6, <1>7, <1>8 DEF Plain!Next, Plain!SetProperty

LEMMA EventAppended ==
    ASSUME events \in Seq(PlainEvents), NEW e \in PlainEvents,
           events' = Append(events, e)
    PROVE  /\ Range(events') = Range(events) \cup {e}
           /\ \A K, x : LastAmong(events', K, x)
                            <=> IF e \in K THEN x = e ELSE LastAmong(events, K, x)
BY AppendedIsLast

LEMMA PlainStep == PlainInv /\ [Plain!Next]_plainVars => PlainInv'
<1>. SUFFICES ASSUME PlainInv, [Plain!Next]_plainVars PROVE PlainInv'
  OBVIOUS
<1>0. PlainTypes /\ PlainTypes' /\ OwnerIsUnderWay /\ ValueIsUnderWay
  BY PlainTypesStep DEF PlainInv
<1>a. /\ None \notin Nat /\ serviceValid \in BOOLEAN /\ starts \in Nat
      /\ events \in Seq(PlainEvents) /\ requests \in Seq(PlainRequests)
  BY <1>0, MCBusAssumption
     DEF PlainTypes, Plain!TypeOK, Plain!DDBusInterfaceAssumption
<1>. SUFFICES OwnerIsUnderWay' /\ ValueIsUnderWay'
  BY <1>0 DEF PlainInv
<1>. USE DEF Plain!serviceVars, Plain!proxyVars, Plain!busVars
<1>1. ASSUME NEW e \in PlainEvents, e \in StateEvents, Positive(e) <=> running' # None,
             announced' = FALSE, unseen' = ~ownerMatch,
             events' = IF ownerMatch THEN Append(events, e) ELSE events
      PROVE  OwnerIsUnderWay' /\ ValueIsUnderWay'
  <2>1. CASE ~ownerMatch
    BY <1>1, <2>1 DEF OwnerIsUnderWay, ValueIsUnderWay
  <2>2. CASE ownerMatch
    <3>1. events' = Append(events, e)
      BY <1>1, <2>2
    <3>2. /\ \A x : LastAmong(events', StateEvents, x) => x = e
          /\ e \in Range(events')
      BY <1>a, <1>1, <3>1, EventAppended
    <3>. QED
      BY <1>1, <3>2 DEF OwnerIsUnderWay, ValueIsUnderWay
  <2>. QED
    BY <2>1, <2>2
<1>2. CASE Plain!StartService
  <2>1. /\ [kind |-> "taken"] \in StateEvents /\ [kind |-> "taken"] \in PlainEvents
        /\ Positive([kind |-> "taken"])
    BY PlainEventTypes DEF StateEvents, Positive
  <2>2. /\ running' # None /\ announced' = FALSE /\ unseen' = ~ownerMatch
        /\ events' = IF ownerMatch THEN Append(events, [kind |-> "taken"]) ELSE events
    BY <1>a, <1>2 DEF Plain!StartService
  <2>. QED
    BY <1>1, <2>1, <2>2
<1>3. CASE Plain!StopService
  <2>1. /\ [kind |-> "left"] \in StateEvents /\ [kind |-> "left"] \in PlainEvents
        /\ ~Positive([kind |-> "left"])
    BY PlainEventTypes DEF StateEvents, Positive
  <2>2. /\ running' = None /\ announced' = FALSE /\ unseen' = ~ownerMatch
        /\ events' = IF ownerMatch THEN Append(events, [kind |-> "left"]) ELSE events
    BY <1>3 DEF Plain!StopService
  <2>. QED
    BY <1>1, <2>1, <2>2
<1>4. CASE Plain!ReplaceService
  <2>1. /\ running # None /\ running' # None /\ announced' = FALSE
        /\ UNCHANGED <<unseen, requests, events, serviceValid>>
    BY <1>a, <1>4 DEF Plain!ReplaceService
  <2>. QED
    BY <1>0, <2>1 DEF OwnerIsUnderWay, ValueIsUnderWay
<1>5. CASE Plain!HandleRequest
  <2>. DEFINE answer == [kind |-> "hasOwner", valid |-> running # None]
  <2>1. /\ answer \in PlainEvents /\ answer \in StateEvents /\ answer \notin ValueEvents
        /\ Positive(answer) <=> running # None
    BY PlainEventTypes DEF StateEvents, ValueEvents, Positive
  <2>2. /\ requests # <<>> /\ requests' = Tail(requests)
        /\ UNCHANGED <<running, starts, current, changes, announced, Plain!proxyVars>>
        /\ \/ events' = Append(events, answer)
           \/ events' = events /\ unseen' = unseen /\ Head(requests) # "NameHasOwner"
    BY <1>5 DEF Plain!HandleRequest
  <2>3. Range(requests) = Range(requests') \cup {Head(requests)}
    BY <1>a, <2>2, TakenIsFirst
  <2>. HIDE DEF answer
  <2>4. CASE events' = Append(events, answer)
    <3>1. /\ Range(events') = Range(events) \cup {answer}
          /\ \A e : LastAmong(events', StateEvents, e) => e = answer
          /\ \A e : LastAmong(events', ValueEvents, e) <=> LastAmong(events, ValueEvents, e)
      BY <1>a, <2>1, <2>4, EventAppended
    <3>2. OwnerIsUnderWay'
      BY <2>1, <2>2, <3>1 DEF OwnerIsUnderWay
    <3>3. ValueIsUnderWay'
      BY <1>0, <2>1, <2>2, <3>1, LastIsThere DEF ValueIsUnderWay
    <3>. QED
      BY <3>2, <3>3
  <2>5. CASE events' = events /\ unseen' = unseen /\ Head(requests) # "NameHasOwner"
    BY <1>0, <2>2, <2>3, <2>5 DEF OwnerIsUnderWay, ValueIsUnderWay
  <2>. QED
    BY <2>2, <2>4, <2>5
<1>6. CASE Plain!DeliverEvent
  <2>. DEFINE e == Head(events)
  <2>1. /\ events # <<>> /\ events' = Tail(events)
        /\ UNCHANGED <<Plain!serviceVars, result, propMatch, ownerMatch>>
        /\ \/ e.kind = "hasOwner" /\ Plain!OnDBusNameHasOwner(e.valid)
           \/ e.kind \in {"taken", "left"} /\ Plain!OnDBusNameOwnerChanged(e)
           \/ e.kind = "changed" /\ Plain!OnPropertiesChanged(e)
    BY <1>6, Zenon DEF Plain!DeliverEvent
  <2>2. /\ e \in PlainEvents /\ Range(events) = Range(events') \cup {e}
        /\ \A K, x : LastAmong(events', K, x) => LastAmong(events, K, x)
        /\ \A K : Range(events') \cap K = {} /\ e \in K => LastAmong(events, K, e)
    BY <1>a, <2>1, TakenIsFirst
  <2>. HIDE DEF e
  <2>3. \A r \in PlainRequests : requests' = Append(requests, r) =>
           Range(requests) \subseteq Range(requests')
    BY <1>a, AppendedIsLast
  <2>4. Range(requests) \subseteq Range(requests')
    BY <2>1, <2>3 DEF Plain!OnDBusNameHasOwner, Plain!OnDBusNameOwnerChanged,
                      Plain!OnPropertiesChanged, PlainRequests
  <2>5. CASE e.kind = "changed"
    <3>1. /\ serviceValid' = serviceValid /\ e \notin StateEvents /\ e \in ValueEvents
          /\ known' = [value |-> e.value, from |-> e.from]
      BY <2>1, <2>2, <2>5 DEF Plain!OnPropertiesChanged, StateEvents, ValueEvents
    <3>2. OwnerIsUnderWay'
      BY <1>0, <2>1, <2>2, <2>4, <3>1 DEF OwnerIsUnderWay
    <3>3. ValueIsUnderWay'
      BY <1>0, <2>1, <2>2, <3>1 DEF ValueIsUnderWay
    <3>. QED
      BY <3>2, <3>3
  <2>6. CASE e.kind # "changed"
    <3>1. e \in StateEvents /\ e \notin ValueEvents /\ (Positive(e) <=> serviceValid')
      BY <2>1, <2>2, <2>6, PlainEventTypes
         DEF Plain!OnDBusNameHasOwner, Plain!OnDBusNameOwnerChanged, StateEvents,
             ValueEvents, Positive
    <3>2. known' = known
      BY <2>1, <2>6 DEF Plain!OnDBusNameHasOwner, Plain!OnDBusNameOwnerChanged
    <3>3. OwnerIsUnderWay'
      BY <1>0, <2>1, <2>2, <2>4, <3>1 DEF OwnerIsUnderWay
    <3>4. ValueIsUnderWay'
      BY <1>0, <2>1, <2>2, <3>1, <3>2 DEF ValueIsUnderWay
    <3>. QED
      BY <3>3, <3>4
  <2>. QED
    BY <2>5, <2>6
<1>7. CASE Plain!Property
  BY <1>0, <1>7 DEF Plain!Property, OwnerIsUnderWay, ValueIsUnderWay
<1>8. ASSUME NEW valued \in BOOLEAN, Plain!ChangeProperty(valued)
      PROVE  OwnerIsUnderWay' /\ ValueIsUnderWay'
  <2>. DEFINE e == [kind |-> "changed", value |-> changes + 1, from |-> running]
  <2>1. /\ running # None /\ current' = changes + 1 /\ announced' = (propMatch /\ valued)
        /\ events' = IF propMatch /\ valued THEN Append(events, e) ELSE events
        /\ UNCHANGED <<running, starts, unseen, requests, propMatch, ownerMatch,
                       Plain!proxyVars>>
    BY <1>8, Zenon DEF Plain!ChangeProperty
  <2>2. e \in PlainEvents /\ e.kind = "changed" /\ e.value = current' /\ e.from = running
    <3>1. changes + 1 \in 1..MaxChanges /\ running \in 1..MaxStarts
      BY <1>0, <1>8, MCBusAssumption
         DEF Plain!ChangeProperty, PlainTypes, Plain!TypeOK, Plain!DDBusInterfaceAssumption
    <3>. QED
      BY <2>1, <3>1, PlainEventTypes
  <2>. HIDE DEF e
  <2>3. e \in ValueEvents /\ e \notin StateEvents
    BY <2>2 DEF ValueEvents, StateEvents
  <2>4. CASE propMatch /\ valued
    <3>1. /\ Range(events') = Range(events) \cup {e}
          /\ \A x : LastAmong(events', ValueEvents, x) => x = e
          /\ \A x : LastAmong(events', StateEvents, x) <=> LastAmong(events, StateEvents, x)
      BY <1>a, <2>1, <2>2, <2>3, <2>4, EventAppended
    <3>2. OwnerIsUnderWay'
      BY <1>0, <2>1, <2>3, <3>1, LastIsThere DEF OwnerIsUnderWay
    <3>3. ValueIsUnderWay'
      BY <2>1, <2>2, <2>3, <3>1 DEF ValueIsUnderWay
    <3>. QED
      BY <3>2, <3>3
  <2>5. CASE ~(propMatch /\ valued)
    BY <1>0, <2>1, <2>5 DEF OwnerIsUnderWay, ValueIsUnderWay
  <2>. QED
    BY <2>4, <2>5
<1>9. CASE UNCHANGED plainVars
  BY <1>0, <1>9 DEF plainVars, OwnerIsUnderWay, ValueIsUnderWay
<1>. QED
  BY <1>2, <1>3, <1>4, <1>5, <1>6, <1>7, <1>8, <1>9 DEF Plain!Next, Plain!SetProperty

-----------------------------------------------------------------------------
(* The proxy of a service that comes, goes and is replaced.                *)
Calls ==
    [kind : {"Match", "Unmatch", "Get", "GetAll", "Set", "Start"},
     value : {None}, block : BOOLEAN, answer : BOOLEAN]
Messages ==
    [kind : {"taken", "released", "gone", "ended", "props", "Get", "GetAll", "Set", "Start"},
     ok : BOOLEAN, value : Extended!Values, from : Extended!Owners]

QueueTypes == calls \in Seq(Calls) /\ inbox \in Seq(Messages)
ServiceTypes ==
    /\ owner \in Extended!Owners /\ prop \in Extended!Values
    /\ owner = None <=> prop = None
    /\ owners \in 0..MaxOwner /\ last \in 0..MaxValue
    /\ missed \in BOOLEAN /\ silent \in BOOLEAN /\ quiet \in BOOLEAN
    /\ lingering \subseteq Extended!Owners \ {None, owner}
ProxyTypes ==
    /\ matched \in BOOLEAN /\ sync \in BOOLEAN /\ valid \in BOOLEAN
    /\ listening \in BOOLEAN /\ getAll \in BOOLEAN /\ waiting \in BOOLEAN
    /\ failed \in BOOLEAN
    /\ dbusOwner \in Extended!Owners
    /\ heard \in [value : Extended!Values, from : Extended!Owners]
    /\ told \in BOOLEAN \cup {None}

(* Calls of GetAll in asynchronous mode that wait, and answers to them:    *)
(* there is one, of whichever kind, while its watcher is kept.             *)
Waiting == {c \in Calls : c.kind = "GetAll" /\ c.answer /\ ~c.block}
Answers == {m \in Messages : m.kind = "GetAll"}
GetAllFits(cs, q, g) ==
    /\ OneOf(cs, Waiting) /\ OneOf(q, Answers)
    /\ Range(cs) \cap Waiting = {} \/ Range(q) \cap Answers = {}
    /\ g <=> Range(cs) \cap Waiting # {} \/ Range(q) \cap Answers # {}

ExtendedTypes ==
    QueueTypes /\ ServiceTypes /\ ProxyTypes /\ GetAllFits(calls, inbox, getAll)

(* Messages that tell a value, those that tell one of process p, those that*)
(* tell of a process that takes the free name, and those that tell when p  *)
(* takes it or ends.                                                       *)
Tells      == {m \in Messages : \/ m.kind = "props"
                                \/ m.ok /\ m.kind \in {"Get", "Set", "GetAll"}}
Telling(p) == {m \in Tells : m.from = p}
Taken      == {m \in Messages : m.kind = "taken"}
About(p)   == {m \in Messages : m.kind \in {"taken", "gone", "ended"} /\ m.from = p}

(* The last value v of owner o to arrive, or else the one h that was heard,*)
(* is that of the property.                                                *)
HeardFits(q, o, v, h) ==
    /\ \A m \in Range(q) : LastAmong(q, Telling(o), m) => m.value \in {v, None}
    /\ Range(q) \cap Telling(o) = {} /\ h.from = o => h.value \in {v, None}

(* The last value to arrive, or else the one h that was heard, is owner    *)
(* o's.                                                                    *)
SpokenFits(q, o, h) ==
    /\ \A m \in Range(q) : LastAmong(q, Tells, m) => m.from = o
    /\ Range(q) \cap Tells = {} => h.from = o

(* The last process to arrive, or else the one d the proxy knows, is the   *)
(* owner o.                                                                *)
TakenFits(q, o, d) ==
    /\ \A m \in Range(q) : LastAmong(q, Taken, m) => m.from = o
    /\ Range(q) \cap Taken = {} => d = o

(* No end of a living process p is under way; the end of one that does not *)
(* live comes last of it, and is still to come if it is the one d the      *)
(* proxy knows.                                                            *)
EndFits(q, p, lives, d) ==
    IF lives THEN \A m \in Range(q) : m \in About(p) => m.kind = "taken"
    ELSE /\ \A m \in Range(q) : LastAmong(q, About(p), m) => m.kind # "taken"
         /\ d = p => Range(q) \cap About(p) # {}

(* All of that of queue q: owner o with value v is the n-th, L are the     *)
(* processes that live, h was heard and d is the one the proxy knows; ms,  *)
(* sp and qu say whether o's value was missed, whether o has spoken to     *)
(* receivers and whether it came quietly.                                  *)
NewsFits(q, o, n, L, v, h, ms, sp, qu, d) ==
    /\ o # None /\ ~ms => HeardFits(q, o, v, h)
    /\ o # None /\ sp => SpokenFits(q, o, h)
    /\ o # None /\ ~qu => TakenFits(q, o, d)
    /\ \A p \in Nat : EndFits(q, p, p \in L, d)
    /\ \A m \in Range(q) : m.from # None => m.from <= n
    /\ \A m \in Range(q) : m.kind = "taken" => m.from # None

Living == lingering \cup ({owner} \ {None})
NewsIsUnderWay ==
    NewsFits(inbox, owner, owners, Living, prop, heard, missed, listening /\ ~silent,
             quiet, dbusOwner)

(* A process that is still to come has told nothing; without receivers     *)
(* nothing is heard; the proxy tells that the service is valid as long as  *)
(* it knows a process.                                                     *)
NothingFromLater ==
    /\ owner # None => owner = owners
    /\ \A p \in lingering : p <= owners
    /\ dbusOwner # None => dbusOwner <= owners
    /\ heard.from # None => heard.from <= owners
    /\ ~listening => heard = Extended!Nothing
    /\ told = TRUE <=> dbusOwner # None

ExtendedInv == ExtendedTypes /\ NewsIsUnderWay /\ NothingFromLater

LEMMA MessageKinds ==
    ASSUME NEW m \in Messages
    PROVE  /\ m.kind \in {"taken", "released", "gone", "ended", "props", "Get", "GetAll",
                          "Set", "Start"}
           /\ m.ok \in BOOLEAN /\ m.value \in Extended!Values /\ m.from \in Extended!Owners
           /\ m \in Answers <=> m.kind = "GetAll"
           /\ m \in Taken <=> m.kind = "taken"
           /\ m \in Tells <=> m.kind = "props" \/ (m.ok /\ m.kind \in {"Get", "Set", "GetAll"})
           /\ \A p : m \in Telling(p) <=> m \in Tells /\ m.from = p
           /\ \A p : m \in About(p) <=> m.kind \in {"taken", "gone", "ended"} /\ m.from = p
BY DEF Messages, Answers, Taken, Tells, Telling, About

(* A message that tells no value and of no process that comes or ends, from*)
(* nobody who is still to come.                                            *)
Dull(m, n) == /\ m \in Messages /\ m \notin Tells
              /\ m.kind \notin {"taken", "gone", "ended"}
              /\ m.from # None => m.from <= n

LEMMA DullAppended ==
    ASSUME NEW q \in Seq(Messages), NEW o, NEW n, NEW L, NEW v, NEW h, NEW ms, NEW sp,
           NEW qu, NEW d, NEW m, Dull(m, n), NewsFits(q, o, n, L, v, h, ms, sp, qu, d)
    PROVE  NewsFits(Append(q, m), o, n, L, v, h, ms, sp, qu, d)
<1>0. /\ m \in Messages /\ m \notin Tells /\ m \notin Taken /\ m.kind # "taken"
      /\ \A p : m \notin Telling(p) /\ m \notin About(p)
      /\ m.from # None => m.from <= n
  BY MessageKinds DEF Dull
<1>. DEFINE r == Append(q, m)
<1>1. /\ Range(r) = Range(q) \cup {m}
      /\ \A K, x : LastAmong(r, K, x) <=> IF m \in K THEN x = m ELSE LastAmong(q, K, x)
  BY <1>0, AppendedIsLast
<1>. HIDE DEF r
<1>2. o # None /\ ~ms => HeardFits(r, o, v, h)
  BY <1>0, <1>1, LastIsThere DEF NewsFits, HeardFits
<1>3. o # None /\ sp => SpokenFits(r, o, h)
  BY <1>0, <1>1, LastIsThere DEF NewsFits, SpokenFits
<1>4. o # None /\ ~qu => TakenFits(r, o, d)
  BY <1>0, <1>1, LastIsThere DEF NewsFits, TakenFits
<1>5. ASSUME NEW p \in Nat PROVE EndFits(r, p, p \in L, d)
  <2>1. EndFits(q, p, p \in L, d)
    BY DEF NewsFits
  <2>. QED
    BY <1>0, <1>1, <2>1, LastIsThere DEF EndFits
<1>6. \A x \in Range(r) : x.kind = "taken" => x.from # None
  BY <1>0, <1>1 DEF NewsFits
<1>. QED
  BY <1>0, <1>1, <1>2, <1>3, <1>4, <1>5, <1>6 DEF NewsFits, r

(* A value of the owner.                                                   *)
LEMMA ValueAppended ==
    ASSUME NEW q \in Seq(Messages), NEW o, NEW n, NEW L, NEW v, NEW w, NEW h, NEW ms,
           NEW sp, NEW qu, NEW d, NEW m \in Telling(o), m.value \in {w, None}, o <= n,
           NewsFits(q, o, n, L, v, h, ms, sp, qu, d)
    PROVE  NewsFits(Append(q, m), o, n, L, w, h, FALSE, TRUE, qu, d)
<1>0. /\ m \in Messages /\ m \in Tells /\ m.from = o /\ m \notin Taken /\ m.kind # "taken"
      /\ \A p : m \notin About(p)
  <2>1. m \in Messages /\ m \in Tells /\ m.from = o
    BY DEF Telling, Tells
  <2>. QED
    BY <2>1, MessageKinds
<1>. DEFINE r == Append(q, m)
<1>1. /\ Range(r) = Range(q) \cup {m}
      /\ \A K, x : LastAmong(r, K, x) <=> IF m \in K THEN x = m ELSE LastAmong(q, K, x)
  BY <1>0, AppendedIsLast
<1>. HIDE DEF r
<1>2. HeardFits(r, o, w, h)
  BY <1>1 DEF HeardFits
<1>3. SpokenFits(r, o, h)
  BY <1>0, <1>1 DEF SpokenFits
<1>4. o # None /\ ~qu => TakenFits(r, o, d)
  BY <1>0, <1>1, LastIsThere DEF NewsFits, TakenFits
<1>5. ASSUME NEW p \in Nat PROVE EndFits(r, p, p \in L, d)
  <2>1. EndFits(q, p, p \in L, d)
    BY DEF NewsFits
  <2>. QED
    BY <1>0, <1>1, <2>1, LastIsThere DEF EndFits
<1>6. \A x \in Range(r) : x.kind = "taken" => x.from # None
  BY <1>0, <1>1 DEF NewsFits
<1>. QED
  BY <1>0, <1>1, <1>2, <1>3, <1>4, <1>5, <1>6 DEF NewsFits, r

(* A process that had the name ends, or the owner does.                    *)
LEMMA EndAppended ==
    ASSUME NEW q \in Seq(Messages), NEW o, NEW n, NEW L, NEW v, NEW w, NEW h, NEW ms,
           NEW sp, NEW qu, NEW d, NEW m \in Messages, m.kind \in {"gone", "ended"},
           m.from \in Nat, m.from <= n, NEW u, u \in {o, None}, u # None => w = v,
           NewsFits(q, o, n, L, v, h, ms, sp, qu, d)
    PROVE  NewsFits(Append(q, m), u, n, L \ {m.from}, w, h, ms, sp, qu, d)
<1>0. /\ m \notin Tells /\ m \notin Taken /\ m \in About(m.from)
      /\ \A p : m \notin Telling(p)
      /\ \A p : p # m.from => m \notin About(p)
      /\ m.kind # "taken"
  BY MessageKinds
<1>. DEFINE r == Append(q, m)
<1>1. /\ Range(r) = Range(q) \cup {m}
      /\ \A K, x : LastAmong(r, K, x) <=> IF m \in K THEN x = m ELSE LastAmong(q, K, x)
  BY <1>0, AppendedIsLast
<1>. HIDE DEF r
<1>2. u # None /\ ~ms => HeardFits(r, u, w, h)
  BY <1>0, <1>1, LastIsThere DEF NewsFits, HeardFits
<1>3. u # None /\ sp => SpokenFits(r, u, h)
  BY <1>0, <1>1, LastIsThere DEF NewsFits, SpokenFits
<1>4. u # None /\ ~qu => TakenFits(r, u, d)
  BY <1>0, <1>1, LastIsThere DEF NewsFits, TakenFits
<1>5. ASSUME NEW p \in Nat PROVE EndFits(r, p, p \in L \ {m.from}, d)
  <2>1. CASE p = m.from
    BY <1>0, <1>1, <2>1 DEF EndFits
  <2>2. CASE p # m.from
    <3>1. EndFits(q, p, p \in L, d)
      BY DEF NewsFits
    <3>. QED
      BY <1>0, <1>1, <2>2, <3>1, LastIsThere DEF EndFits
  <2>. QED
    BY <2>1, <2>2
<1>6. \A x \in Range(r) : (x.from # None => x.from <= n) /\ (x.kind = "taken" => x.from # None)
  BY <1>0, <1>1 DEF NewsFits
<1>. QED
  BY <1>2, <1>3, <1>4, <1>5, <1>6 DEF NewsFits, r

(* A new process has the name: it takes it over, or takes it free.         *)
LEMMA OwnerReplaced ==
    ASSUME NEW q \in Seq(Messages), NEW o, NEW n \in Nat, NEW L, NEW v, NEW w, NEW h,
           NEW ms, NEW sp, NEW qu, NEW d, None \notin Nat,
           h.from # None => h.from \in Nat /\ h.from <= n,
           \A x \in Range(q) : x.from # None => x.from \in Nat,
           NewsFits(q, o, n, L, v, h, ms, sp, qu, d)
    PROVE  NewsFits(q, n + 1, n + 1, L \cup {n + 1}, w, h, FALSE, FALSE, TRUE, d)
<1>1. \A x \in Range(q) : x.from # None => x.from \in Nat /\ x.from <= n
  BY DEF NewsFits
<1>2. n + 1 \in Nat /\ n + 1 # None
  OBVIOUS
<1>3. \A x \in Range(q) : x.from # n + 1
  BY <1>1, <1>2
<1>4. HeardFits(q, n + 1, w, h)
  <2>1. \A x \in Range(q) : x \notin Telling(n + 1)
    BY <1>3 DEF Telling
  <2>2. h.from # n + 1
    BY <1>2
  <2>. QED
    BY <2>1, <2>2 DEF HeardFits, LastAmong
<1>5. ASSUME NEW p \in Nat PROVE EndFits(q, p, p \in L \cup {n + 1}, d)
  <2>1. CASE p = n + 1
    <3>1. \A x \in Range(q) : x \notin About(p)
      BY <1>3, <2>1 DEF About
    <3>. QED
      BY <2>1, <3>1 DEF EndFits
  <2>2. CASE p # n + 1
    <3>1. p \in L \cup {n + 1} <=> p \in L
      BY <2>2
    <3>2. EndFits(q, p, p \in L, d)
      BY DEF NewsFits
    <3>. QED
      BY <3>1, <3>2 DEF EndFits
  <2>. QED
    BY <2>1, <2>2
<1>6. \A x \in Range(q) : x.from # None => x.from <= n + 1
  BY <1>1
<1>. QED
  BY <1>4, <1>5, <1>6 DEF NewsFits

(* The message that a process takes the free name.                         *)
TakenBy(p) == [kind |-> "taken", ok |-> TRUE, value |-> None, from |-> p]

LEMMA TakenTypes ==
    ASSUME NEW p \in Extended!Owners
    PROVE  /\ TakenBy(p) \in Messages /\ TakenBy(p) \notin Answers
           /\ TakenBy(p).kind = "taken" /\ TakenBy(p).from = p
BY DEF TakenBy, Messages, Answers, Extended!Values

LEMMA OwnerAppended ==
    ASSUME NEW q \in Seq(Messages), NEW n \in Nat, NEW L, NEW w, NEW h, NEW d, None \notin Nat,
           n + 1 \in Extended!Owners,
           NewsFits(q, n + 1, n + 1, L, w, h, FALSE, FALSE, TRUE, d), n + 1 \in L
    PROVE  NewsFits(Append(q, TakenBy(n + 1)), n + 1, n + 1, L, w, h, FALSE, FALSE, FALSE, d)
<1>. DEFINE m == TakenBy(n + 1)
            r == Append(q, m)
<1>0. /\ m \in Messages /\ m \notin Tells /\ m \in Taken /\ m.from = n + 1 /\ m.kind = "taken"
      /\ \A p : m \notin Telling(p)
      /\ \A p : p # n + 1 => m \notin About(p)
  BY TakenTypes, MessageKinds
<1>. HIDE DEF m
<1>1. /\ Range(r) = Range(q) \cup {m}
      /\ \A K, x : LastAmong(r, K, x) <=> IF m \in K THEN x = m ELSE LastAmong(q, K, x)
  BY <1>0, AppendedIsLast
<1>. HIDE DEF r
<1>2. HeardFits(r, n + 1, w, h)
  BY <1>0, <1>1, LastIsThere DEF NewsFits, HeardFits
<1>3. TakenFits(r, n + 1, d)
  BY <1>0, <1>1 DEF TakenFits
<1>4. ASSUME NEW p \in Nat PROVE EndFits(r, p, p \in L, d)
  <2>1. EndFits(q, p, p \in L, d)
    BY DEF NewsFits
  <2>2. CASE p = n + 1
    BY <1>0, <1>1, <2>1, <2>2 DEF EndFits
  <2>3. CASE p # n + 1
    BY <1>0, <1>1, <2>1, <2>3, LastIsThere DEF EndFits
  <2>. QED
    BY <2>2, <2>3
<1>5. \A x \in Range(r) : (x.from # None => x.from <= n + 1) /\ (x.kind = "taken" => x.from # None)
  BY <1>0, <1>1 DEF NewsFits
<1>. QED
  BY <1>2, <1>3, <1>4, <1>5 DEF NewsFits, r, m

(* The next message is delivered, so that k is heard and the proxy knows e.*)
LEMMA NewsDelivered ==
    ASSUME NEW q \in Seq(Messages), q # <<>>, NEW o, NEW n, NEW L, NEW v, NEW h, NEW ms,
           NEW sp, NEW qu, NEW d, NEW k, NEW e, None \notin Nat,
           NewsFits(q, o, n, L, v, h, ms, sp, qu, d),
           o # None => o \in L /\ o \in Nat, d # None => d \in Nat,
           IF Head(q) \in Tells
           THEN k = [value |-> Head(q).value, from |-> Head(q).from]
                \/ (k = h /\ h.from = None /\ ~sp)
           ELSE k = h,
           e = IF Head(q).kind = "taken" THEN Head(q).from
               ELSE IF Head(q).kind \in {"gone", "ended"} /\ Head(q).from = d THEN None ELSE d
    PROVE  NewsFits(Tail(q), o, n, L, v, k, ms, sp, qu, e)
<1>. DEFINE m == Head(q)
            r == Tail(q)
<1>1. /\ Range(q) = Range(r) \cup {m} /\ m \in Messages
      /\ \A K, x : LastAmong(r, K, x) => LastAmong(q, K, x)
      /\ \A K : Range(r) \cap K = {} /\ m \in K => LastAmong(q, K, m)
  BY TakenIsFirst
<1>2. /\ m \in Taken <=> m.kind = "taken"
      /\ \A p : m \in Telling(p) <=> m \in Tells /\ m.from = p
      /\ \A p : m \in About(p) <=> m.kind \in {"taken", "gone", "ended"} /\ m.from = p
  BY <1>1, MessageKinds
<1>3. /\ IF m \in Tells THEN k = [value |-> m.value, from |-> m.from]
                             \/ (k = h /\ h.from = None /\ ~sp)
         ELSE k = h
      /\ e = IF m.kind = "taken" THEN m.from
             ELSE IF m.kind \in {"gone", "ended"} /\ m.from = d THEN None ELSE d
  OBVIOUS
<1>. HIDE DEF m, r
<1>4. o # None /\ ~ms => HeardFits(r, o, v, k)
  <2>1. SUFFICES ASSUME o # None, HeardFits(q, o, v, h) PROVE HeardFits(r, o, v, k)
    BY DEF NewsFits
  <2>2. CASE m \in Tells /\ k = [value |-> m.value, from |-> m.from]
    BY <1>1, <1>2, <2>1, <2>2 DEF HeardFits
  <2>3. CASE k = h /\ (m \in Tells => h.from = None)
    BY <1>1, <1>2, <2>1, <2>3 DEF HeardFits
  <2>. QED
    BY <1>3, <2>2, <2>3
<1>5. o # None /\ sp => SpokenFits(r, o, k)
  <2>1. SUFFICES ASSUME o # None, sp, SpokenFits(q, o, h) PROVE SpokenFits(r, o, k)
    BY DEF NewsFits
  <2>2. CASE m \in Tells
    BY <1>1, <1>3, <2>1, <2>2 DEF SpokenFits
  <2>3. CASE m \notin Tells
    BY <1>1, <1>3, <2>1, <2>3 DEF SpokenFits
  <2>. QED
    BY <2>2, <2>3
<1>6. o # None /\ ~qu => TakenFits(r, o, e)
  <2>1. SUFFICES ASSUME o # None, o \in L, o \in Nat, TakenFits(q, o, d)
                 PROVE  TakenFits(r, o, e)
    BY DEF NewsFits
  <2>2. EndFits(q, o, o \in L, d)
    BY <2>1 DEF NewsFits
  <2>3. m \in About(o) => m.kind = "taken"
    BY <1>1, <2>1, <2>2 DEF EndFits
  <2>4. CASE m.kind = "taken"
    BY <1>1, <1>2, <1>3, <2>1, <2>4 DEF TakenFits
  <2>5. CASE m.kind # "taken"
    BY <1>1, <1>2, <1>3, <2>1, <2>3, <2>5 DEF TakenFits
  <2>. QED
    BY <2>4, <2>5
<1>7. ASSUME NEW p \in Nat PROVE EndFits(r, p, p \in L, e)
  <2>1. EndFits(q, p, p \in L, d)
    BY DEF NewsFits
  <2>2. p # None
    OBVIOUS
  <2>3. CASE p \in L
    BY <1>1, <2>1, <2>3 DEF EndFits
  <2>4. CASE p \notin L /\ m \in About(p)
    BY <1>1, <1>2, <1>3, <2>1, <2>2, <2>4 DEF EndFits
  <2>5. CASE p \notin L /\ m \notin About(p)
    BY <1>1, <1>2, <1>3, <2>1, <2>2, <2>5 DEF EndFits
  <2>. QED
    BY <2>3, <2>4, <2>5
<1>8. \A x \in Range(r) : (x.from # None => x.from <= n) /\ (x.kind = "taken" => x.from # None)
  BY <1>1 DEF NewsFits
<1>. QED
  BY <1>4, <1>5, <1>6, <1>7, <1>8 DEF NewsFits, r

(* What is told may be told to nobody, and a blocking call hears the value *)
(* past the queue.                                                         *)
LEMMA NewsKept ==
    ASSUME NEW q, NEW o, NEW n, NEW L, NEW v, NEW w, NEW h, NEW k, NEW ms, NEW mt,
           NEW sp, NEW sq, NEW qu, NEW d,
           NewsFits(q, o, n, L, v, h, ms, sp, qu, d),
           ~mt => ~ms /\ w = v, sq => sp,
           \/ k = h
           \/ k.from = None /\ ~sq
           \/ k.from = o /\ k.value \in {w, None}
    PROVE  NewsFits(q, o, n, L, w, k, mt, sq, qu, d)
BY DEF NewsFits, HeardFits, SpokenFits

(* Nothing of the owner matters when there is none.                        *)
LEMMA NewsUnowned ==
    ASSUME NEW q, NEW o, NEW n, NEW L, NEW v, NEW w, NEW h, NEW ms, NEW sp, NEW qu, NEW d,
           NewsFits(q, o, n, L, v, h, ms, sp, qu, d)
    PROVE  NewsFits(q, None, n, L, w, h, ms, sp, qu, d)
BY DEF NewsFits

LEMMA GetAllSent ==
    ASSUME NEW cs \in Seq(Calls), NEW q \in Seq(Messages), NEW g \in BOOLEAN,
           GetAllFits(cs, q, g), NEW c \in Calls
    PROVE  /\ c \notin Waiting => GetAllFits(Append(cs, c), q, g)
           /\ c \in Waiting /\ ~g => GetAllFits(Append(cs, c), q, TRUE)
<1>1. Range(Append(cs, c)) = Range(cs) \cup {c}
  BY AppendedIsLast
<1>2. OneOf(cs, Waiting) /\ (c \in Waiting => Range(cs) \cap Waiting = {})
          => OneOf(Append(cs, c), Waiting)
  BY OneOfQueue
<1>. QED
  BY <1>1, <1>2 DEF GetAllFits

LEMMA GetAllMessage ==
    ASSUME NEW cs \in Seq(Calls), NEW q \in Seq(Messages), NEW g \in BOOLEAN,
           GetAllFits(cs, q, g), NEW m \in Messages, m \notin Answers
    PROVE  GetAllFits(cs, Append(q, m), g)
<1>1. Range(Append(q, m)) = Range(q) \cup {m}
  BY AppendedIsLast
<1>2. OneOf(q, Answers) => OneOf(Append(q, m), Answers)
  BY OneOfQueue
<1>. QED
  BY <1>1, <1>2 DEF GetAllFits

LEMMA GetAllAnswered ==
    ASSUME NEW cs \in Seq(Calls), NEW q \in Seq(Messages), NEW g \in BOOLEAN,
           GetAllFits(cs, q, g), cs # <<>>
    PROVE  /\ Head(cs) \notin Waiting => GetAllFits(Tail(cs), q, g)
           /\ Head(cs) \in Waiting =>
                 \A m \in Answers : GetAllFits(Tail(cs), Append(q, m), g)
<1>1. Range(cs) = Range(Tail(cs)) \cup {Head(cs)}
  BY TakenIsFirst
<1>2. OneOf(Tail(cs), Waiting) /\ (Head(cs) \in Waiting => Range(Tail(cs)) \cap Waiting = {})
  BY OneOfQueue DEF GetAllFits
<1>3. ASSUME NEW m \in Answers, Range(q) \cap Answers = {}
      PROVE  OneOf(Append(q, m), Answers) /\ Range(Append(q, m)) = Range(q) \cup {m}
  <2>1. m \in Messages
    BY DEF Answers
  <2>. QED
    BY <1>3, <2>1, OneOfQueue, AppendedIsLast DEF GetAllFits
<1>. QED
  BY <1>1, <1>2, <1>3 DEF GetAllFits

LEMMA GetAllDelivered ==
    ASSUME NEW cs \in Seq(Calls), NEW q \in Seq(Messages), NEW g \in BOOLEAN,
           GetAllFits(cs, q, g), q # <<>>
    PROVE  /\ Head(q) \notin Answers => GetAllFits(cs, Tail(q), g)
           /\ Head(q) \in Answers => GetAllFits(cs, Tail(q), FALSE)
<1>1. Range(q) = Range(Tail(q)) \cup {Head(q)}
  BY TakenIsFirst
<1>2. OneOf(Tail(q), Answers) /\ (Head(q) \in Answers => Range(Tail(q)) \cap Answers = {})
  BY OneOfQueue DEF GetAllFits
<1>. QED
  BY <1>1, <1>2 DEF GetAllFits

LEMMA GetAllTimeout ==
    ASSUME NEW cs \in Seq(Calls), NEW q \in Seq(Messages), NEW g \in BOOLEAN,
           GetAllFits(cs, q, g), NEW i \in DOMAIN cs, cs[i].answer
    PROVE  LET d == [cs EXCEPT ![i].answer = FALSE] IN
           /\ d \in Seq(Calls)
           /\ cs[i] \notin Waiting => GetAllFits(d, q, g)
           /\ cs[i] \in Waiting => \A m \in Answers : GetAllFits(d, Append(q, m), g)
<1>. DEFINE d == [cs EXCEPT ![i].answer = FALSE]
<1>1. /\ DOMAIN d = DOMAIN cs /\ d \in Seq(Calls)
      /\ \A j \in DOMAIN cs : d[j] = IF j = i THEN [cs[i] EXCEPT !.answer = FALSE] ELSE cs[j]
      /\ \A j \in DOMAIN cs : cs[j] \in Calls
      /\ ~d[i].answer
  <2>1. DOMAIN cs = 1..Len(cs) /\ \A j \in DOMAIN cs : cs[j] \in Calls
    OBVIOUS
  <2>2. [cs[i] EXCEPT !.answer = FALSE] \in Calls /\ ~[cs[i] EXCEPT !.answer = FALSE].answer
    BY <2>1 DEF Calls
  <2>3. d = [cs EXCEPT ![i] = [cs[i] EXCEPT !.answer = FALSE]]
    OBVIOUS
  <2>4. d \in Seq(Calls) /\ DOMAIN d = DOMAIN cs
    BY <2>1, <2>2, <2>3, ExceptSeq
  <2>5. \A j \in DOMAIN cs : d[j] = IF j = i THEN [cs[i] EXCEPT !.answer = FALSE] ELSE cs[j]
    BY <2>1, <2>3
  <2>. QED
    BY <2>1, <2>2, <2>4, <2>5
<1>2. d[i] \notin Waiting
  BY <1>1 DEF Waiting
<1>3. OneOf(d, Waiting)
  BY <1>1, <1>2 DEF GetAllFits, OneOf
<1>. HIDE DEF d
<1>4. cs[i] \notin Waiting => Range(d) \cap Waiting = Range(cs) \cap Waiting
  BY <1>1, <1>2 DEF Range
<1>5. cs[i] \in Waiting => Range(d) \cap Waiting = {} /\ Range(cs) \cap Waiting # {}
  BY <1>1, <1>2 DEF Range, GetAllFits, OneOf
<1>6. ASSUME NEW m \in Answers, Range(q) \cap Answers = {}
      PROVE  OneOf(Append(q, m), Answers) /\ Range(Append(q, m)) = Range(q) \cup {m}
  <2>1. m \in Messages
    BY DEF Answers
  <2>. QED
    BY <1>6, <2>1, OneOfQueue, AppendedIsLast DEF GetAllFits
<1>. QED
  BY <1>1, <1>3, <1>4, <1>5, <1>6 DEF GetAllFits, d

(* A step of the application alone changes nothing that is told.           *)
LEMMA NoNews ==
    ASSUME ExtendedInv, UNCHANGED <<Extended!service, inbox, missed, dbusOwner, told>>,
           silent' \in BOOLEAN,
           \/ /\ heard' = heard /\ (listening => listening')
              /\ listening' /\ ~silent' => listening /\ ~silent
           \/ heard' = Extended!Nothing /\ silent' = TRUE
    PROVE  ServiceTypes' /\ NewsIsUnderWay' /\ NothingFromLater'
<1>1. UNCHANGED <<owner, lingering, owners, prop, last, quiet, missed, inbox, dbusOwner, told>>
  BY DEF Extended!service
<1>2. ServiceTypes'
  BY <1>1 DEF ExtendedInv, ExtendedTypes, ServiceTypes
<1>3. heard' = heard \/ (heard'.from = None /\ ~(listening' /\ ~silent'))
  BY DEF Extended!Nothing
<1>4. (listening' /\ ~silent') => (listening /\ ~silent)
  OBVIOUS
<1>5. NewsFits(inbox, owner, owners, Living, prop, heard, missed, listening /\ ~silent,
               quiet, dbusOwner)
  BY DEF ExtendedInv, NewsIsUnderWay
<1>6. NewsFits(inbox, owner, owners, Living, prop, heard', missed, listening' /\ ~silent',
               quiet, dbusOwner)
  <2>1. PICK a : a = (listening /\ ~silent)
    OBVIOUS
  <2>2. PICK b : b = (listening' /\ ~silent')
    OBVIOUS
  <2>3. NewsFits(inbox, owner, owners, Living, prop, heard, missed, a, quiet, dbusOwner)
    BY <1>5, <2>1, Zenon
  <2>4. b => a
    BY <1>4, <2>1, <2>2, Zenon
  <2>5. heard' = heard \/ (heard'.from = None /\ ~b)
    BY <1>3, <2>2, Zenon
  <2>6. NewsFits(inbox, owner, owners, Living, prop, heard', missed, b, quiet, dbusOwner)
    BY <2>3, <2>4, <2>5, NewsKept
  <2>. QED
    BY <2>2, <2>6, Zenon
<1>7. NewsIsUnderWay'
  BY <1>1, <1>6 DEF NewsIsUnderWay, Living
<1>8. NothingFromLater'
  BY <1>1 DEF ExtendedInv, NothingFromLater, Extended!Nothing
<1>. QED
  BY <1>2, <1>7, <1>8

(* What the proxy sends.                                                   *)
LEMMA CallTypes ==
    ASSUME NEW k \in {"Match", "Unmatch", "Get", "GetAll", "Set", "Start"},
           NEW b \in BOOLEAN
    PROVE  /\ Extended!Call(k, None, b) \in Calls
           /\ Extended!Call(k, None, b) \in Waiting <=> k = "GetAll" /\ ~b
BY DEF Extended!Call, Calls, Waiting

LEMMA ProxyStep ==
    ASSUME ExtendedInv,
           \/ Extended!StartServiceProcess \/ Extended!GetAllProperties
           \/ Extended!Listen \/ Extended!Unlisten
           \/ \E s, a \in BOOLEAN : Extended!SetSync(s, a)
           \/ \E k \in {"Get", "Set"}, f \in BOOLEAN : Extended!Prop(k, f)
    PROVE  ExtendedInv'
<1>0. QueueTypes /\ ProxyTypes /\ GetAllFits(calls, inbox, getAll)
  BY DEF ExtendedInv, ExtendedTypes
<1>a. calls \in Seq(Calls) /\ inbox \in Seq(Messages) /\ getAll \in BOOLEAN
  BY <1>0 DEF QueueTypes, ProxyTypes
<1>b. ASSUME NEW c \in Calls, calls' = Append(calls, c)
      PROVE  /\ calls' \in Seq(Calls)
             /\ c \notin Waiting => GetAllFits(calls', inbox, getAll)
             /\ c \in Waiting /\ ~getAll => GetAllFits(calls', inbox, TRUE)
  <2>1. Append(calls, c) \in Seq(Calls)
    BY <1>a, AppendProperties
  <2>2. /\ c \notin Waiting => GetAllFits(Append(calls, c), inbox, getAll)
        /\ c \in Waiting /\ ~getAll => GetAllFits(Append(calls, c), inbox, TRUE)
    BY <1>0, <1>a, GetAllSent
  <2>. QED
    BY <1>b, <2>1, <2>2
<1>c. silent \in BOOLEAN
  BY DEF ExtendedInv, ExtendedTypes, ServiceTypes
<1>. SUFFICES /\ QueueTypes' /\ ProxyTypes' /\ GetAllFits(calls', inbox', getAll')
              /\ UNCHANGED <<Extended!service, inbox, missed, dbusOwner, told>>
              /\ silent' \in BOOLEAN
              /\ \/ /\ heard' = heard /\ (listening => listening')
                    /\ listening' /\ ~silent' => listening /\ ~silent
                 \/ heard' = Extended!Nothing /\ silent' = TRUE
  BY NoNews DEF ExtendedInv, ExtendedTypes
<1>1. CASE Extended!StartServiceProcess
  <2>1. Extended!Call("Start", None, FALSE) \in Calls \ Waiting
    BY CallTypes
  <2>2. calls' = calls \/ calls' = Append(calls, Extended!Call("Start", None, FALSE))
    BY <1>1 DEF Extended!StartServiceProcess, Extended!Send
  <2>. QED
    BY <1>0, <1>a, <1>b, <1>c, <1>1, <2>1, <2>2
       DEF Extended!StartServiceProcess, Extended!proxy, QueueTypes, ProxyTypes
<1>2. CASE Extended!GetAllProperties
  <2>1. UNCHANGED <<Extended!service, matched, inbox, sync, valid, dbusOwner,
                    listening, heard, told, missed, silent>>
    BY <1>2 DEF Extended!GetAllProperties
  <2>2. \/ failed' = TRUE /\ UNCHANGED <<calls, getAll, waiting>>
        \/ /\ failed' = FALSE /\ getAll' = TRUE /\ waiting' = waiting
           /\ IF getAll THEN calls' = calls
              ELSE calls' = Append(calls, Extended!Call("GetAll", None, FALSE))
        \/ /\ failed' = FALSE /\ waiting' = TRUE /\ getAll' = getAll
           /\ calls' = Append(calls, Extended!Call("GetAll", None, TRUE))
    BY <1>2 DEF Extended!GetAllProperties, Extended!Refuse, Extended!Send
  <2>3. /\ Extended!Call("GetAll", None, TRUE) \in Calls \ Waiting
        /\ Extended!Call("GetAll", None, FALSE) \in Waiting \cap Calls
    BY CallTypes
  <2>4. QueueTypes' /\ GetAllFits(calls', inbox', getAll')
    BY <1>0, <1>a, <1>b, <2>1, <2>2, <2>3 DEF QueueTypes
  <2>. QED
    BY <1>0, <1>c, <2>1, <2>2, <2>4 DEF ProxyTypes
<1>3. CASE Extended!Listen
  <2>1. Extended!Call("Match", None, FALSE) \in Calls \ Waiting
    BY CallTypes
  <2>. QED
    BY <1>0, <1>a, <1>b, <1>c, <1>3, <2>1
       DEF Extended!Listen, Extended!Send, QueueTypes, ProxyTypes
<1>4. CASE Extended!Unlisten
  <2>1. Extended!Call("Unmatch", None, FALSE) \in Calls \ Waiting
    BY CallTypes
  <2>2. Extended!Nothing \in [value : Extended!Values, from : Extended!Owners]
    BY DEF Extended!Nothing, Extended!Values, Extended!Owners
  <2>. QED
    BY <1>0, <1>a, <1>b, <1>c, <1>4, <2>1, <2>2
       DEF Extended!Unlisten, Extended!Send, QueueTypes, ProxyTypes
<1>5. ASSUME NEW t \in BOOLEAN, NEW a \in BOOLEAN, Extended!SetSync(t, a)
      PROVE  /\ QueueTypes' /\ ProxyTypes' /\ GetAllFits(calls', inbox', getAll')
             /\ UNCHANGED <<Extended!service, inbox, missed, dbusOwner, told>>
             /\ UNCHANGED <<heard, listening, silent>>
  <2>1. Extended!Call("Start", None, FALSE) \in Calls \ Waiting
    BY CallTypes
  <2>2. calls' = calls \/ calls' = Append(calls, Extended!Call("Start", None, FALSE))
    BY <1>5 DEF Extended!SetSync, Extended!Send
  <2>. QED
    BY <1>0, <1>a, <1>b, <1>c, <1>5, <2>1, <2>2
       DEF Extended!SetSync, QueueTypes, ProxyTypes
<1>6. ASSUME NEW k \in {"Get", "Set"}, NEW f \in BOOLEAN, Extended!Prop(k, f)
      PROVE  /\ QueueTypes' /\ ProxyTypes' /\ GetAllFits(calls', inbox', getAll')
             /\ UNCHANGED <<Extended!service, inbox, missed, dbusOwner, told>>
             /\ UNCHANGED <<heard, listening, silent>>
  <2>1. /\ Extended!Call(k, None, TRUE) \in Calls \ Waiting
        /\ Extended!Call(k, None, FALSE) \in Calls \ Waiting
    BY CallTypes
  <2>2. /\ \/ calls' = calls \/ calls' = Append(calls, Extended!Call(k, None, TRUE))
           \/ calls' = Append(calls, Extended!Call(k, None, FALSE))
        /\ failed' \in BOOLEAN /\ waiting' \in BOOLEAN /\ getAll' = getAll
    BY <1>0, <1>6 DEF Extended!Prop, Extended!Send, Extended!Refuse, ProxyTypes
  <2>. QED
    BY <1>0, <1>a, <1>b, <1>c, <1>6, <2>1, <2>2
       DEF Extended!Prop, QueueTypes, ProxyTypes
<1>. QED
  BY <1>c, <1>1, <1>2, <1>3, <1>4, <1>5, <1>6

(* What the constants and the invariant say of numbers and names.          *)
LEMMA ExtendedFacts ==
    ASSUME ExtendedInv
    PROVE  /\ None \notin Nat /\ None \notin BOOLEAN
           /\ MaxValue \in Nat \ {0} /\ MaxOwner \in Nat \ {0}
           /\ owner # None => owner \in Nat /\ owner = owners /\ owner \in Living
           /\ owners \in Nat /\ last \in Nat
           /\ owner \in Extended!Owners /\ prop \in Extended!Values
           /\ None \in Extended!Owners /\ None \in Extended!Values
           /\ last < MaxValue => last + 1 \in Extended!Values /\ last + 1 # None
           /\ owners < MaxOwner => owners + 1 \in Extended!Owners /\ owners + 1 # None
           /\ inbox \in Seq(Messages) /\ calls \in Seq(Calls) /\ getAll \in BOOLEAN
           /\ GetAllFits(calls, inbox, getAll)
           /\ \A m \in Range(inbox) : m \in Messages /\ (m.from # None => m.from \in Nat)
           /\ heard.from # None => heard.from \in Nat
           /\ dbusOwner # None => dbusOwner \in Nat
           /\ NewsFits(inbox, owner, owners, Living, prop, heard, missed,
                       listening /\ ~silent, quiet, dbusOwner)
<1>1. /\ QueueTypes /\ ServiceTypes /\ ProxyTypes /\ NothingFromLater
      /\ GetAllFits(calls, inbox, getAll) /\ NewsIsUnderWay
  BY DEF ExtendedInv, ExtendedTypes
<1>2. /\ None \notin Nat /\ None \notin BOOLEAN
      /\ MaxValue \in Nat \ {0} /\ MaxOwner \in Nat \ {0}
  BY MCBusAssumption DEF Extended!DDBusExtendedAssumption
<1>3. /\ inbox \in Seq(Messages) /\ calls \in Seq(Calls) /\ getAll \in BOOLEAN
  BY <1>1 DEF QueueTypes, ProxyTypes
<1>4. \A m \in Range(inbox) : m \in Messages
  BY <1>3, RangeOfSeq
<1>5. \A m \in Messages : m.from # None => m.from \in Nat
  BY <1>2 DEF Messages, Extended!Owners
<1>6. /\ heard.from # None => heard.from \in Nat
      /\ dbusOwner # None => dbusOwner \in Nat
  BY <1>1, <1>2 DEF ProxyTypes, Extended!Owners
<1>7. NewsFits(inbox, owner, owners, Living, prop, heard, missed, listening /\ ~silent,
               quiet, dbusOwner)
  BY <1>1 DEF NewsIsUnderWay
<1>8. owner # None => owner \in Nat /\ owner = owners /\ owner \in Living
  BY <1>1, <1>2 DEF ServiceTypes, NothingFromLater, Extended!Owners, Living
<1>. QED
  BY <1>1, <1>2, <1>3, <1>4, <1>5, <1>6, <1>7, <1>8
     DEF ServiceTypes, Extended!Owners, Extended!Values

LEMMA MessageTypes ==
    ASSUME NEW k \in {"taken", "released", "gone", "ended", "props", "Get", "GetAll", "Set",
                      "Start"},
           NEW ok \in BOOLEAN, NEW v \in Extended!Values, NEW p \in Extended!Owners
    PROVE  LET m == [kind |-> k, ok |-> ok, value |-> v, from |-> p] IN
           /\ m \in Messages
           /\ m \in Answers <=> k = "GetAll"
           /\ m \in Tells <=> k = "props" \/ (ok /\ k \in {"Get", "Set", "GetAll"})
           /\ \A o : m \in Telling(o) <=>
                 (k = "props" \/ (ok /\ k \in {"Get", "Set", "GetAll"})) /\ p = o
BY DEF Messages, Answers, Tells, Telling

LEMMA NewOwner ==
    ASSUME ExtendedInv, owners < MaxOwner
    PROVE  LET n == owners + 1
               q == Append(inbox, TakenBy(n)) IN
           /\ NewsFits(inbox, n, n, Living \cup {n}, last + 1, heard, FALSE, FALSE, TRUE,
                       dbusOwner)
           /\ q \in Seq(Messages) /\ GetAllFits(calls, q, getAll)
           /\ NewsFits(q, n, n, Living \cup {n}, last + 1, heard, FALSE, FALSE, FALSE,
                       dbusOwner)
<1>. DEFINE m == TakenBy(owners + 1)
<1>1. /\ owners \in Nat /\ None \notin Nat /\ inbox \in Seq(Messages)
      /\ owners + 1 \in Extended!Owners
      /\ \A x \in Range(inbox) : x.from # None => x.from \in Nat
  BY ExtendedFacts
<1>2. heard.from # None => heard.from \in Nat /\ heard.from <= owners
  BY ExtendedFacts DEF ExtendedInv, NothingFromLater
<1>3. NewsFits(inbox, owners + 1, owners + 1, Living \cup {owners + 1}, last + 1, heard,
               FALSE, FALSE, TRUE, dbusOwner)
  <2>1. NewsFits(inbox, owner, owners, Living, prop, heard, missed, listening /\ ~silent,
                 quiet, dbusOwner)
    BY ExtendedFacts
  <2>. QED
    BY <1>1, <1>2, <2>1, OwnerReplaced
<1>4. m \in Messages /\ m \notin Answers
  BY <1>1, TakenTypes
<1>5. NewsFits(Append(inbox, m), owners + 1, owners + 1, Living \cup {owners + 1}, last + 1,
               heard, FALSE, FALSE, FALSE, dbusOwner)
  <2>1. owners + 1 \in Living \cup {owners + 1}
    OBVIOUS
  <2>. QED
    BY <1>1, <1>3, <2>1, OwnerAppended
<1>. HIDE DEF m
<1>6. Append(inbox, m) \in Seq(Messages) /\ GetAllFits(calls, Append(inbox, m), getAll)
  BY <1>1, <1>4, ExtendedFacts, GetAllMessage, AppendProperties
<1>. QED
  BY <1>3, <1>5, <1>6 DEF m

(* The owner changes: nothing but the service does, and what is under way. *)
LEMMA OwnerTypes ==
    ASSUME ExtendedInv,
           owners < MaxOwner, last < MaxValue, owner' = owners + 1, owners' = owners + 1,
           last' = last + 1, prop' = last + 1, missed' \in BOOLEAN, silent' \in BOOLEAN,
           quiet' \in BOOLEAN, lingering' \subseteq Living
    PROVE  /\ ServiceTypes'
           /\ UNCHANGED <<dbusOwner, heard, told, listening>> => NothingFromLater'
<1>0. ServiceTypes /\ NothingFromLater
  BY DEF ExtendedInv, ExtendedTypes
<1>1. /\ owners \in Nat /\ last \in Nat
      /\ owners + 1 \in Extended!Owners /\ last + 1 \in Extended!Values
      /\ owners + 1 # None /\ last + 1 # None
      /\ owners + 1 \in 0..MaxOwner /\ last + 1 \in 0..MaxValue
  BY <1>0, ExtendedFacts DEF ServiceTypes
<1>2. \A p \in Living : p \in Extended!Owners /\ p # None /\ p \in Nat /\ p <= owners
  BY <1>0, ExtendedFacts DEF Living, ServiceTypes, NothingFromLater, Extended!Owners
<1>3. lingering' \subseteq Extended!Owners \ {None, owners + 1}
  BY <1>1, <1>2
<1>4. ServiceTypes'
  BY <1>0, <1>1, <1>3 DEF ServiceTypes
<1>5. \A p \in lingering' : p <= owners + 1
  BY <1>1, <1>2
<1>6. /\ heard.from # None => heard.from <= owners + 1
      /\ dbusOwner # None => dbusOwner <= owners + 1
  BY <1>0, ExtendedFacts DEF NothingFromLater
<1>7. UNCHANGED <<dbusOwner, heard, told, listening>> => NothingFromLater'
  BY <1>0, <1>5, <1>6 DEF NothingFromLater
<1>. QED
  BY <1>4, <1>7

(* A message that is no answer of GetAll leaves the types as they are.     *)
LEMMA MessageAppended ==
    ASSUME ExtendedInv, NEW m \in Messages, m \notin Answers,
           inbox' = Append(inbox, m), UNCHANGED <<calls, getAll>>
    PROVE  QueueTypes' /\ GetAllFits(calls', inbox', getAll')
BY ExtendedFacts, GetAllMessage, AppendProperties DEF QueueTypes

LEMMA ServiceStep ==
    ASSUME ExtendedInv,
           \/ Extended!Appear \/ Extended!Vanish \/ Extended!Replace \/ Extended!Release
           \/ \E p \in lingering : Extended!End(p)
           \/ \E v \in {None, last + 1} : Extended!Change(v)
    PROVE  ExtendedInv'
<1>0. /\ QueueTypes /\ ServiceTypes /\ ProxyTypes /\ NothingFromLater
      /\ GetAllFits(calls, inbox, getAll)
  BY DEF ExtendedInv, ExtendedTypes
<1>a. NewsFits(inbox, owner, owners, Living, prop, heard, missed, listening /\ ~silent,
               quiet, dbusOwner)
  BY ExtendedFacts
<1>1. CASE Extended!Appear
  <2>1. /\ owner = None /\ owners < MaxOwner /\ last < MaxValue
        /\ owner' = owners + 1 /\ owners' = owners + 1 /\ last' = last + 1
        /\ prop' = last + 1 /\ missed' = FALSE /\ silent' = TRUE /\ quiet' = FALSE
        /\ inbox' = Append(inbox, TakenBy(owners + 1))
        /\ UNCHANGED <<lingering, matched, calls, waiting>>
        /\ UNCHANGED <<sync, valid, dbusOwner, listening, getAll, failed, heard, told>>
    BY <1>1 DEF Extended!Appear, Extended!NewOwner, Extended!proxy, TakenBy
  <2>2. Living' = Living \cup {owners + 1}
    BY <2>1, ExtendedFacts DEF Living
  <2>3. QueueTypes' /\ GetAllFits(calls', inbox', getAll') /\ NewsIsUnderWay'
    BY <1>0, <2>1, <2>2, NewOwner DEF QueueTypes, NewsIsUnderWay
  <2>4. ServiceTypes' /\ NothingFromLater'
    BY <2>1, OwnerTypes DEF Living
  <2>5. ProxyTypes'
    BY <1>0, <2>1 DEF ProxyTypes
  <2>. QED
    BY <2>3, <2>4, <2>5 DEF ExtendedInv, ExtendedTypes
<1>2. CASE Extended!Replace
  <2>1. /\ owner # None /\ owners < MaxOwner /\ last < MaxValue
        /\ owner' = owners + 1 /\ owners' = owners + 1 /\ last' = last + 1
        /\ prop' = last + 1 /\ missed' = FALSE /\ silent' = TRUE /\ quiet' = TRUE
        /\ lingering' = lingering \cup {owner}
        /\ UNCHANGED <<inbox, matched, calls, waiting>>
        /\ UNCHANGED <<sync, valid, dbusOwner, listening, getAll, failed, heard, told>>
    BY <1>2 DEF Extended!Replace, Extended!NewOwner, Extended!proxy
  <2>2. Living' = Living \cup {owners + 1}
    BY <2>1, ExtendedFacts DEF Living
  <2>3. QueueTypes' /\ GetAllFits(calls', inbox', getAll') /\ NewsIsUnderWay'
    BY <1>0, <2>1, <2>2, NewOwner DEF QueueTypes, NewsIsUnderWay
  <2>4. ServiceTypes' /\ NothingFromLater'
    BY <2>1, OwnerTypes DEF Living
  <2>5. ProxyTypes'
    BY <1>0, <2>1 DEF ProxyTypes
  <2>. QED
    BY <2>3, <2>4, <2>5 DEF ExtendedInv, ExtendedTypes
<1>3. CASE Extended!Vanish
  <2>. DEFINE m == [kind |-> "gone", ok |-> TRUE, value |-> None, from |-> owner]
  <2>1. /\ owner # None /\ owner' = None /\ prop' = None
        /\ inbox' = Append(inbox, m)
        /\ UNCHANGED <<lingering, owners, last, quiet, matched, calls, waiting, missed, silent>>
        /\ UNCHANGED <<sync, valid, dbusOwner, listening, getAll, failed, heard, told>>
    BY <1>3 DEF Extended!Vanish, Extended!Gone, Extended!Message, Extended!proxy
  <2>2. m \in Messages /\ m \notin Answers /\ m.kind = "gone" /\ m.from = owner
    BY ExtendedFacts, MessageTypes
  <2>. HIDE DEF m
  <2>3. Living' = Living \ {m.from}
    BY <1>0, <2>1, <2>2 DEF Living, ServiceTypes
  <2>4. NewsIsUnderWay'
    <3>1. m.from \in Nat /\ m.from <= owners /\ inbox \in Seq(Messages)
      BY <2>1, <2>2, ExtendedFacts
    <3>2. NewsFits(Append(inbox, m), None, owners, Living \ {m.from}, None, heard, missed,
                   listening /\ ~silent, quiet, dbusOwner)
      BY <1>a, <2>2, <3>1, EndAppended
    <3>. QED
      BY <2>1, <2>3, <3>2 DEF NewsIsUnderWay
  <2>5. QueueTypes' /\ GetAllFits(calls', inbox', getAll')
    BY <2>1, <2>2, MessageAppended
  <2>6. ServiceTypes' /\ ProxyTypes' /\ NothingFromLater'
    BY <1>0, <2>1, ExtendedFacts DEF ServiceTypes, ProxyTypes, NothingFromLater
  <2>. QED
    BY <2>4, <2>5, <2>6 DEF ExtendedInv, ExtendedTypes
<1>4. CASE Extended!Release
  <2>. DEFINE m == [kind |-> "released", ok |-> TRUE, value |-> None, from |-> owner]
  <2>1. /\ owner # None /\ owner' = None /\ prop' = None
        /\ inbox' = Append(inbox, m) /\ lingering' = lingering \cup {owner}
        /\ UNCHANGED <<owners, last, quiet, matched, calls, waiting, missed, silent>>
        /\ UNCHANGED <<sync, valid, dbusOwner, listening, getAll, failed, heard, told>>
    BY <1>4 DEF Extended!Release, Extended!Gone, Extended!Message, Extended!proxy
  <2>2. /\ m \in Messages /\ m \notin Answers /\ m \notin Tells
        /\ m.kind = "released" /\ m.from = owner
    BY ExtendedFacts, MessageTypes
  <2>. HIDE DEF m
  <2>3. Living' = Living
    BY <2>1 DEF Living
  <2>4. NewsIsUnderWay'
    <3>1. Dull(m, owners) /\ inbox \in Seq(Messages)
      BY <2>1, <2>2, ExtendedFacts DEF Dull
    <3>2. NewsFits(Append(inbox, m), owner, owners, Living, prop, heard, missed,
                   listening /\ ~silent, quiet, dbusOwner)
      BY <1>a, <3>1, DullAppended
    <3>3. NewsFits(Append(inbox, m), None, owners, Living, None, heard, missed,
                   listening /\ ~silent, quiet, dbusOwner)
      BY <3>2, NewsUnowned
    <3>. QED
      BY <2>1, <2>3, <3>3 DEF NewsIsUnderWay
  <2>5. QueueTypes' /\ GetAllFits(calls', inbox', getAll')
    BY <2>1, <2>2, MessageAppended
  <2>6. ServiceTypes' /\ ProxyTypes' /\ NothingFromLater'
    BY <1>0, <2>1, ExtendedFacts DEF ServiceTypes, ProxyTypes, NothingFromLater
  <2>. QED
    BY <2>4, <2>5, <2>6 DEF ExtendedInv, ExtendedTypes
<1>5. ASSUME NEW p \in lingering, Extended!End(p) PROVE ExtendedInv'
  <2>. DEFINE m == [kind |-> "ended", ok |-> TRUE, value |-> None, from |-> p]
  <2>1. /\ lingering' = lingering \ {p} /\ inbox' = Append(inbox, m)
        /\ UNCHANGED <<owner, owners, prop, last, quiet, matched, calls, waiting, missed, silent>>
        /\ UNCHANGED <<sync, valid, dbusOwner, listening, getAll, failed, heard, told>>
    BY <1>5 DEF Extended!End, Extended!proxy
  <2>2. p \in Extended!Owners /\ p # None /\ p # owner /\ p \in Nat /\ p <= owners
    BY <1>0, ExtendedFacts DEF ServiceTypes, NothingFromLater, Extended!Owners
  <2>3. m \in Messages /\ m \notin Answers /\ m.kind = "ended" /\ m.from = p
    BY <2>2, ExtendedFacts, MessageTypes
  <2>. HIDE DEF m
  <2>4. Living' = Living \ {m.from}
    BY <2>1, <2>2, <2>3 DEF Living
  <2>5. NewsIsUnderWay'
    <3>1. m.from \in Nat /\ m.from <= owners /\ inbox \in Seq(Messages)
      BY <2>2, <2>3, ExtendedFacts
    <3>2. NewsFits(Append(inbox, m), owner, owners, Living \ {m.from}, prop, heard, missed,
                   listening /\ ~silent, quiet, dbusOwner)
      BY <1>a, <2>3, <3>1, EndAppended
    <3>. QED
      BY <2>1, <2>4, <3>2 DEF NewsIsUnderWay
  <2>6. QueueTypes' /\ GetAllFits(calls', inbox', getAll')
    BY <2>1, <2>3, MessageAppended
  <2>7. ServiceTypes' /\ ProxyTypes' /\ NothingFromLater'
    BY <1>0, <2>1 DEF ServiceTypes, ProxyTypes, NothingFromLater
  <2>. QED
    BY <2>5, <2>6, <2>7 DEF ExtendedInv, ExtendedTypes
<1>6. ASSUME NEW v \in {None, last + 1}, Extended!Change(v) PROVE ExtendedInv'
  <2>. DEFINE m == [kind |-> "props", ok |-> v # None, value |-> v, from |-> owner]
  <2>1. /\ owner # None /\ last < MaxValue
        /\ last' = last + 1 /\ prop' = last + 1
        /\ inbox' = IF matched THEN Append(inbox, m) ELSE inbox
        /\ missed' = ~matched /\ silent' = (silent /\ ~(matched /\ listening))
        /\ UNCHANGED <<owner, lingering, owners, quiet, matched, calls, waiting>>
        /\ UNCHANGED <<sync, valid, dbusOwner, listening, getAll, failed, heard, told>>
    BY <1>6, Zenon DEF Extended!Change, Extended!Message, Extended!proxy
  <2>2. m \in Messages /\ m \notin Answers /\ m \in Telling(owner)
    <3>1. v \in Extended!Values /\ owner \in Extended!Owners
      BY <2>1, ExtendedFacts
    <3>2. (v # None) \in BOOLEAN
      OBVIOUS
    <3>. QED
      BY <3>1, <3>2, MessageTypes, Zenon
  <2>3. m.value \in {last + 1, None}
    BY <2>1
  <2>. HIDE DEF m
  <2>4. Living' = Living
    BY <2>1 DEF Living
  <2>5. ServiceTypes'
    <3>1. last + 1 \in 0..MaxValue /\ last + 1 \in Extended!Values /\ last + 1 # None
      BY <1>0, <2>1, ExtendedFacts DEF ServiceTypes
    <3>2. missed' \in BOOLEAN /\ silent' \in BOOLEAN
      BY <1>0, <2>1 DEF ProxyTypes, ServiceTypes
    <3>. QED
      BY <1>0, <2>1, <3>1, <3>2 DEF ServiceTypes
  <2>6. ProxyTypes' /\ NothingFromLater'
    BY <1>0, <2>1 DEF ProxyTypes, NothingFromLater
  <2>7. CASE matched
    <3>1. inbox \in Seq(Messages) /\ owner <= owners
      BY <2>1, ExtendedFacts
    <3>2. NewsFits(Append(inbox, m), owner, owners, Living, last + 1, heard, FALSE, TRUE,
                   quiet, dbusOwner)
      BY <1>a, <2>2, <2>3, <3>1, ValueAppended
    <3>3. NewsFits(Append(inbox, m), owner, owners, Living, last + 1, heard, FALSE,
                   listening /\ ~silent', quiet, dbusOwner)
      BY <3>2, NewsKept
    <3>4. NewsIsUnderWay'
      BY <2>1, <2>4, <2>7, <3>3 DEF NewsIsUnderWay
    <3>5. QueueTypes' /\ GetAllFits(calls', inbox', getAll')
      BY <2>1, <2>2, <2>7, MessageAppended
    <3>. QED
      BY <2>5, <2>6, <3>4, <3>5 DEF ExtendedInv, ExtendedTypes
  <2>8. CASE ~matched
    <3>1. NewsFits(inbox, owner, owners, Living, last + 1, heard, TRUE, listening /\ ~silent,
                   quiet, dbusOwner)
      BY <1>a, NewsKept
    <3>2. missed' = TRUE /\ silent' = silent /\ inbox' = inbox
      BY <1>0, <2>1, <2>8 DEF ServiceTypes
    <3>3. NewsIsUnderWay'
      BY <2>1, <2>4, <3>1, <3>2 DEF NewsIsUnderWay
    <3>4. QueueTypes' /\ GetAllFits(calls', inbox', getAll')
      BY <1>0, <2>1, <3>2 DEF QueueTypes
    <3>. QED
      BY <2>5, <2>6, <3>3, <3>4 DEF ExtendedInv, ExtendedTypes
  <2>. QED
    BY <1>0, <2>7, <2>8 DEF ProxyTypes
<1>. QED
  BY <1>1, <1>2, <1>3, <1>4, <1>5, <1>6

(* The proxy takes the next message to one of its slots.                   *)
LEMMA DeliverStep == ASSUME ExtendedInv, Extended!Deliver PROVE ExtendedInv'
<1>. DEFINE m == Head(inbox)
            telling == m.kind = "props" \/ (m.ok /\ m.kind \in {"Get", "Set", "GetAll"})
<1>0. ServiceTypes /\ ProxyTypes /\ NothingFromLater
  BY DEF ExtendedInv, ExtendedTypes
<1>a. NewsFits(inbox, owner, owners, Living, prop, heard, missed, listening /\ ~silent,
               quiet, dbusOwner)
  BY ExtendedFacts
<1>1. /\ inbox # <<>> /\ inbox' = Tail(inbox)
      /\ UNCHANGED <<owner, lingering, owners, prop, last, quiet, matched, calls, sync,
                     listening, waiting, missed, silent>>
      /\ \/ m.kind \in {"taken", "released", "gone", "ended"} /\ Extended!OnNameOwnerChanged(m)
         \/ m.kind = "props" /\ Extended!OnPropertiesChanged(m)
         \/ m.kind \in {"Get", "Set"} /\ Extended!OnAsyncPropertyFinished(m)
         \/ m.kind = "GetAll" /\ Extended!OnAsyncGetAllPropertiesFinished(m)
         \/ m.kind = "Start" /\ Extended!OnStartServiceProcessFinished(m)
  BY DEF Extended!Deliver, Extended!service, Extended!OnAsyncSetPropertyFinished
<1>2. m \in Messages /\ m \in Range(inbox) /\ inbox' \in Seq(Messages)
  BY <1>1, ExtendedFacts, TakenIsFirst
<1>3. /\ m.kind \in {"taken", "released", "gone", "ended", "props", "Get", "GetAll", "Set",
                     "Start"}
      /\ m.ok \in BOOLEAN /\ m.value \in Extended!Values /\ m.from \in Extended!Owners
      /\ m \in Answers <=> m.kind = "GetAll"
      /\ m \in Tells <=> telling
  BY <1>2, MessageKinds
<1>4. GetAllFits(calls, inbox', IF m.kind = "GetAll" THEN FALSE ELSE getAll)
  BY <1>1, <1>3, ExtendedFacts, GetAllDelivered
<1>5. /\ m.kind = "taken" => m.from # None
      /\ m.from # None => m.from <= owners
  BY <1>2, <1>a DEF NewsFits
<1>. HIDE DEF m
<1>6. /\ valid' \in BOOLEAN /\ failed' \in BOOLEAN
      /\ getAll' = IF m.kind = "GetAll" THEN FALSE ELSE getAll
  <2>1. CASE m.kind \in {"taken", "released", "gone", "ended"} /\ Extended!OnNameOwnerChanged(m)
    <3>1. valid' \in BOOLEAN
      <4>1. valid' = TRUE \/ valid' = FALSE \/ valid' = valid
        BY <2>1 DEF Extended!OnNameOwnerChanged, Extended!Validity
      <4>. QED
        BY <1>0, <4>1 DEF ProxyTypes
    <3>. QED
      BY <1>0, <2>1, <3>1 DEF Extended!OnNameOwnerChanged, ProxyTypes
  <2>2. CASE m.kind \notin {"taken", "released", "gone", "ended"}
    BY <1>0, <1>1, <1>3, <2>2
       DEF Extended!OnPropertiesChanged, Extended!OnAsyncPropertyFinished,
           Extended!OnAsyncGetAllPropertiesFinished,
           Extended!OnStartServiceProcessFinished, ProxyTypes
  <2>. QED
    BY <1>1, <2>1, <2>2
<1>7. IF telling /\ listening THEN heard' = [value |-> m.value, from |-> m.from]
      ELSE heard' = heard
  BY <1>1, <1>3
     DEF Extended!OnNameOwnerChanged, Extended!OnPropertiesChanged, Extended!Tell,
         Extended!OnAsyncPropertyFinished, Extended!OnAsyncGetAllPropertiesFinished,
         Extended!OnStartServiceProcessFinished
<1>8. IF m.kind = "taken" THEN dbusOwner' = m.from /\ told' = TRUE
      ELSE IF m.kind \in {"gone", "ended"} /\ m.from = dbusOwner
      THEN dbusOwner' = None /\ told' = FALSE
      ELSE dbusOwner' = dbusOwner /\ told' = told
  BY <1>1, <1>3
     DEF Extended!OnNameOwnerChanged, Extended!OnPropertiesChanged,
         Extended!OnAsyncPropertyFinished, Extended!OnAsyncGetAllPropertiesFinished,
         Extended!OnStartServiceProcessFinished
<1>. HIDE DEF telling
<1>9. heard' \in [value : Extended!Values, from : Extended!Owners]
  BY <1>0, <1>3, <1>7 DEF ProxyTypes
<1>10. dbusOwner' \in Extended!Owners /\ told' \in BOOLEAN \cup {None}
  BY <1>0, <1>3, <1>8, ExtendedFacts DEF ProxyTypes
<1>11. QueueTypes' /\ ServiceTypes' /\ ProxyTypes' /\ GetAllFits(calls', inbox', getAll')
  <2>1. calls \in Seq(Calls)
    BY ExtendedFacts
  <2>. QED
    BY <1>0, <1>1, <1>2, <1>4, <1>6, <1>9, <1>10, <2>1
       DEF QueueTypes, ServiceTypes, ProxyTypes
<1>12. NewsIsUnderWay'
  <2>1. IF m \in Tells
        THEN heard' = [value |-> m.value, from |-> m.from]
             \/ (heard' = heard /\ heard.from = None /\ ~(listening /\ ~silent))
        ELSE heard' = heard
    <3>1. ~listening => heard.from = None
      BY <1>0 DEF NothingFromLater, Extended!Nothing
    <3>. QED
      BY <1>3, <1>7, <3>1
  <2>2. dbusOwner' = IF m.kind = "taken" THEN m.from
                     ELSE IF m.kind \in {"gone", "ended"} /\ m.from = dbusOwner THEN None
                     ELSE dbusOwner
    BY <1>8
  <2>3. /\ None \notin Nat /\ inbox \in Seq(Messages)
        /\ owner # None => owner \in Living /\ owner \in Nat
        /\ dbusOwner # None => dbusOwner \in Nat
    BY ExtendedFacts
  <2>4. NewsFits(Tail(inbox), owner, owners, Living, prop, heard', missed,
                 listening /\ ~silent, quiet, dbusOwner')
    BY <1>a, <1>1, <2>1, <2>2, <2>3, NewsDelivered DEF m
  <2>. QED
    BY <1>1, <2>4 DEF NewsIsUnderWay, Living
<1>13. NothingFromLater'
  <2>1. heard'.from # None => heard'.from <= owners
    BY <1>0, <1>5, <1>7 DEF NothingFromLater
  <2>2. ~listening => heard' = heard
    BY <1>7
  <2>3. /\ dbusOwner' # None => dbusOwner' <= owners
        /\ told' = TRUE <=> dbusOwner' # None
    BY <1>0, <1>5, <1>8 DEF NothingFromLater
  <2>. QED
    BY <1>0, <1>1, <2>1, <2>2, <2>3 DEF NothingFromLater
<1>. QED
  BY <1>11, <1>12, <1>13 DEF ExtendedInv, ExtendedTypes

(* QtDBus gives a call up.                                                 *)
LEMMA TimeoutStep ==
    ASSUME ExtendedInv, NEW i \in DOMAIN calls, Extended!Timeout(i)
    PROVE  ExtendedInv'
<1>. DEFINE c == calls[i]
            m == [kind |-> c.kind, ok |-> FALSE, value |-> None, from |-> None]
            d == [calls EXCEPT ![i].answer = FALSE]
<1>0. ServiceTypes /\ ProxyTypes /\ NothingFromLater
  BY DEF ExtendedInv, ExtendedTypes
<1>a. NewsFits(inbox, owner, owners, Living, prop, heard, missed, listening /\ ~silent,
               quiet, dbusOwner)
  BY ExtendedFacts
<1>1. /\ c.kind \notin {"Match", "Unmatch"} /\ c.answer
      /\ calls' = d
      /\ waiting' = (waiting /\ ~c.block)
      /\ failed' = IF c.block /\ c.kind = "GetAll" THEN TRUE ELSE failed
      /\ inbox' = IF c.block THEN inbox ELSE Append(inbox, m)
      /\ UNCHANGED <<owner, lingering, owners, prop, last, quiet, matched, sync, valid,
                     dbusOwner, listening, getAll, heard, told, missed, silent>>
  BY Zenon DEF Extended!Timeout, Extended!service
<1>2. c \in Calls
  BY ExtendedFacts
<1>3. c.kind \in {"Get", "GetAll", "Set", "Start"} /\ c.block \in BOOLEAN
  BY <1>1, <1>2 DEF Calls
<1>4. /\ m \in Messages /\ m \notin Tells /\ (m \in Answers <=> c.kind = "GetAll")
      /\ m.kind = c.kind /\ m.from = None
  BY <1>3, ExtendedFacts DEF Messages, Tells, Answers
<1>5. c \in Waiting <=> c.kind = "GetAll" /\ ~c.block
  BY <1>1, <1>2 DEF Waiting
<1>6. /\ d \in Seq(Calls)
      /\ c \notin Waiting => GetAllFits(d, inbox, getAll)
      /\ c \in Waiting => \A n \in Answers : GetAllFits(d, Append(inbox, n), getAll)
  BY <1>1, ExtendedFacts, GetAllTimeout
<1>. HIDE DEF c, m, d
<1>7. waiting' \in BOOLEAN /\ failed' \in BOOLEAN
  BY <1>0, <1>1, <1>3 DEF ProxyTypes
<1>8. inbox \in Seq(Messages) /\ getAll \in BOOLEAN
  BY ExtendedFacts
<1>9. ServiceTypes' /\ ProxyTypes' /\ NothingFromLater' /\ Living' = Living
  <2>1. ServiceTypes'
    BY <1>0, <1>1 DEF ServiceTypes
  <2>2. ProxyTypes'
    BY <1>0, <1>1, <1>7 DEF ProxyTypes
  <2>3. NothingFromLater' /\ Living' = Living
    BY <1>0, <1>1 DEF NothingFromLater, Living
  <2>. QED
    BY <2>1, <2>2, <2>3
<1>10. CASE c.block
  <2>1. QueueTypes' /\ GetAllFits(calls', inbox', getAll')
    BY <1>1, <1>5, <1>6, <1>8, <1>10 DEF QueueTypes
  <2>2. NewsIsUnderWay'
    BY <1>a, <1>1, <1>9, <1>10 DEF NewsIsUnderWay
  <2>. QED
    BY <1>9, <2>1, <2>2 DEF ExtendedInv, ExtendedTypes
<1>11. CASE ~c.block
  <2>1. inbox' = Append(inbox, m) /\ inbox' \in Seq(Messages)
    BY <1>1, <1>4, <1>8, <1>11, AppendedIsLast
  <2>2. GetAllFits(calls', inbox', getAll')
    <3>1. CASE c.kind = "GetAll"
      BY <1>1, <1>4, <1>5, <1>6, <1>11, <2>1, <3>1
    <3>2. CASE c.kind # "GetAll"
      BY <1>1, <1>4, <1>5, <1>6, <1>8, <2>1, <3>2, GetAllMessage
    <3>. QED
      BY <3>1, <3>2
  <2>3. NewsIsUnderWay'
    <3>1. Dull(m, owners)
      BY <1>3, <1>4 DEF Dull
    <3>2. NewsFits(Append(inbox, m), owner, owners, Living, prop, heard, missed,
                   listening /\ ~silent, quiet, dbusOwner)
      BY <1>a, <1>8, <3>1, DullAppended
    <3>. QED
      BY <1>1, <1>9, <2>1, <3>2 DEF NewsIsUnderWay
  <2>. QED
    BY <1>1, <1>6, <1>9, <2>1, <2>2, <2>3 DEF ExtendedInv, ExtendedTypes, QueueTypes
<1>. QED
  BY <1>10, <1>11

(* The bus answers StartServiceByName, and starts the service if it must.  *)
LEMMA AnswerStartStep ==
    ASSUME ExtendedInv, NEW ok \in BOOLEAN, calls # <<>>, calls' = Tail(calls),
           Head(calls).kind = "Start", Extended!AnswerStart(Head(calls), ok)
    PROVE  ExtendedInv'
<1>. DEFINE c == Head(calls)
            new == ok /\ owner = None
            r == [kind |-> "Start", ok |-> ok, value |-> None, from |-> None]
            q == IF new THEN Append(inbox, TakenBy(owners + 1)) ELSE inbox
<1>0. ServiceTypes /\ ProxyTypes /\ NothingFromLater
  BY DEF ExtendedInv, ExtendedTypes
<1>1. /\ new => owners < MaxOwner /\ last < MaxValue
      /\ owner' = IF new THEN owners + 1 ELSE owner
      /\ owners' = IF new THEN owners + 1 ELSE owners
      /\ prop' = IF new THEN last + 1 ELSE prop
      /\ last' = IF new THEN last + 1 ELSE last
      /\ missed' = (missed /\ ~new) /\ silent' = (silent \/ new) /\ quiet' = (quiet /\ ~new)
      /\ inbox' = inbox \o (IF new THEN <<TakenBy(owners + 1)>> ELSE <<>>)
                        \o (IF c.answer THEN <<r>> ELSE <<>>)
      /\ UNCHANGED <<lingering, matched, waiting>>
      /\ UNCHANGED <<sync, valid, dbusOwner, listening, getAll, failed, heard, told>>
  BY Zenon DEF Extended!AnswerStart, Extended!proxy, TakenBy
<1>2. c \in Calls /\ calls' \in Seq(Calls) /\ c \notin Waiting /\ c.answer \in BOOLEAN
  <2>1. c \in Calls /\ calls' \in Seq(Calls)
    BY ExtendedFacts, TakenIsFirst
  <2>. QED
    BY <2>1 DEF Calls, Waiting
<1>3. GetAllFits(calls', inbox, getAll)
  BY <1>2, ExtendedFacts, GetAllAnswered
<1>4. /\ r \in Messages /\ r \notin Answers /\ r \notin Tells
      /\ r.kind = "Start" /\ r.from = None
  BY ExtendedFacts DEF Messages, Answers, Tells
<1>5. new => TakenBy(owners + 1) \in Messages /\ TakenBy(owners + 1) \notin Answers
  BY <1>1, ExtendedFacts, TakenTypes
<1>6. q \in Seq(Messages)
  BY <1>5, ExtendedFacts, AppendProperties
<1>7. inbox' = IF c.answer THEN Append(q, r) ELSE q
  <2>1. inbox \o (IF new THEN <<TakenBy(owners + 1)>> ELSE <<>>) = q
    BY <1>5, ExtendedFacts, AppendIsConcat, ConcatEmptySeq
  <2>2. q \o (IF c.answer THEN <<r>> ELSE <<>>) = IF c.answer THEN Append(q, r) ELSE q
    <3>. HIDE DEF q, r
    <3>. QED
      BY <1>4, <1>6, AppendIsConcat, ConcatEmptySeq
  <2>. QED
    BY <1>1, <2>1, <2>2
<1>8. missed' \in BOOLEAN /\ silent' \in BOOLEAN /\ quiet' \in BOOLEAN
  BY <1>0, <1>1 DEF ServiceTypes
<1>9. ProxyTypes'
  BY <1>0, <1>1 DEF ProxyTypes
(* The queue before the answer is put into it.                             *)
<1>10. /\ ServiceTypes' /\ NothingFromLater'
       /\ GetAllFits(calls', q, getAll)
       /\ NewsFits(q, owner', owners', Living', prop', heard, missed',
                   listening /\ ~silent', quiet', dbusOwner)
  <2>1. CASE new
    <3>1. /\ q = Append(inbox, TakenBy(owners + 1))
          /\ owner' = owners + 1 /\ owners' = owners + 1 /\ prop' = last + 1
          /\ last' = last + 1
          /\ owners < MaxOwner /\ last < MaxValue /\ owner = None
          /\ missed' = FALSE /\ silent' = TRUE /\ quiet' = FALSE
      BY <1>1, <2>1
    <3>2. ServiceTypes' /\ NothingFromLater'
      BY <1>1, <1>8, <3>1, OwnerTypes DEF Living
    <3>3. GetAllFits(calls', q, getAll)
      BY <1>2, <1>3, <1>5, <2>1, <3>1, ExtendedFacts, GetAllMessage
    <3>4. Living' = Living \cup {owners + 1}
      BY <1>1, <3>1, ExtendedFacts DEF Living
    <3>. QED
      BY <3>1, <3>2, <3>3, <3>4, NewOwner
  <2>2. CASE ~new
    <3>1. /\ q = inbox /\ UNCHANGED <<owner, owners, prop, last, lingering>>
          /\ missed' = missed /\ silent' = silent /\ quiet' = quiet
      BY <1>0, <1>1, <2>2 DEF ServiceTypes
    <3>2. ServiceTypes' /\ NothingFromLater' /\ Living' = Living
      BY <1>0, <1>1, <3>1 DEF ServiceTypes, NothingFromLater, Living
    <3>. QED
      BY <1>3, <3>1, <3>2, ExtendedFacts
  <2>. HIDE DEF q, r, c, new
  <2>. QED
    BY <2>1, <2>2
<1>. HIDE DEF q, r, c, new
<1>11. CASE c.answer
  <2>1. inbox' = Append(q, r) /\ inbox' \in Seq(Messages)
    BY <1>4, <1>6, <1>7, <1>11, AppendedIsLast
  <2>2. GetAllFits(calls', inbox', getAll')
    <3>1. calls' \in Seq(Calls) /\ getAll \in BOOLEAN /\ getAll' = getAll
      BY <1>1, <1>2, ExtendedFacts
    <3>. QED
      BY <1>4, <1>6, <1>10, <2>1, <3>1, GetAllMessage
  <2>3. NewsIsUnderWay'
    <3>1. Dull(r, owners')
      BY <1>4 DEF Dull
    <3>2. NewsFits(Append(q, r), owner', owners', Living', prop', heard, missed',
                   listening /\ ~silent', quiet', dbusOwner)
      BY <1>6, <1>10, <3>1, DullAppended
    <3>. QED
      BY <1>1, <2>1, <3>2 DEF NewsIsUnderWay
  <2>. QED
    BY <1>2, <1>9, <1>10, <2>1, <2>2, <2>3 DEF ExtendedInv, ExtendedTypes, QueueTypes
<1>12. CASE ~c.answer
  <2>1. NewsIsUnderWay'
    BY <1>1, <1>7, <1>10, <1>12 DEF NewsIsUnderWay
  <2>. QED
    BY <1>1, <1>2, <1>6, <1>7, <1>9, <1>10, <1>12, <2>1
       DEF ExtendedInv, ExtendedTypes, QueueTypes
<1>. QED
  BY <1>11, <1>12

(* The bus answers a call to read or write the property.                   *)
LEMMA AnswerStep ==
    ASSUME ExtendedInv, NEW ok \in BOOLEAN, calls # <<>>, calls' = Tail(calls),
           Head(calls).kind \in {"Get", "GetAll", "Set"},
           Extended!Answer(Head(calls), ok)
    PROVE  ExtendedInv'
<1>. DEFINE c == Head(calls)
            set == ok /\ c.kind = "Set"
            w == IF ~ok THEN None ELSE IF c.kind = "Set" THEN last + 1 ELSE prop
            s == [kind |-> "props", ok |-> TRUE, value |-> w, from |-> owner]
            r == [kind |-> c.kind, ok |-> ok, value |-> w, from |-> owner]
            back == c.answer /\ ~c.block
            q == IF set /\ matched THEN Append(inbox, s) ELSE inbox
            sp == listening /\ ~silent'
<1>0. ServiceTypes /\ ProxyTypes /\ NothingFromLater
  BY DEF ExtendedInv, ExtendedTypes
<1>a. NewsFits(inbox, owner, owners, Living, prop, heard, missed, listening /\ ~silent,
               quiet, dbusOwner)
  BY ExtendedFacts
<1>1. /\ ok => owner # None
      /\ set => last < MaxValue
      /\ inbox' = inbox \o (IF set /\ matched THEN <<s>> ELSE <<>>)
                        \o (IF back THEN <<r>> ELSE <<>>)
      /\ prop' = IF set THEN w ELSE prop
      /\ last' = IF set THEN w ELSE last
      /\ missed' = IF set THEN ~matched
                   ELSE missed /\ ~(ok /\ matched /\ (IF back THEN <<r>> ELSE <<>>) # <<>>)
      /\ silent' = (silent /\ ~(listening /\ \/ (IF set /\ matched THEN <<s>> ELSE <<>>) # <<>>
                                             \/ ok /\ (IF back THEN <<r>> ELSE <<>>) # <<>>))
      /\ waiting' = (waiting /\ ~(c.block /\ c.answer))
      /\ IF c.block /\ c.answer /\ c.kind = "GetAll"
         THEN /\ failed' = ~ok
              /\ heard' = IF ok /\ listening
                          THEN [value |-> w, from |-> owner] ELSE heard
         ELSE failed' = failed /\ heard' = heard
      /\ UNCHANGED <<owner, lingering, owners, quiet, matched, sync, valid, dbusOwner,
                     listening, getAll, told>>
  BY Zenon DEF Extended!Answer, Extended!Message
<1>2. /\ c \in Calls /\ calls' \in Seq(Calls)
      /\ c.answer \in BOOLEAN /\ c.block \in BOOLEAN
      /\ c \in Waiting <=> c.kind = "GetAll" /\ back
  <2>1. c \in Calls /\ calls' \in Seq(Calls)
    BY ExtendedFacts, TakenIsFirst
  <2>. QED
    BY <2>1 DEF Calls, Waiting
<1>3. /\ w \in Extended!Values /\ owner \in Extended!Owners
      /\ ok => w = prop' /\ w # None
      /\ set => w = last + 1
      /\ ~set => prop' = prop
  BY <1>0, <1>1, ExtendedFacts DEF ServiceTypes
<1>4. s \in Messages /\ s \notin Answers /\ s \in Telling(owner) /\ s.value = w
  <2>. HIDE DEF w
  <2>1. s \in Messages /\ s \notin Answers /\ s \in Telling(owner)
    BY <1>3, MessageTypes
  <2>. QED
    BY <2>1
<1>5. /\ r \in Messages /\ (r \in Answers <=> c.kind = "GetAll")
      /\ ok => r \in Telling(owner)
      /\ ~ok => r \notin Tells
      /\ r.kind = c.kind /\ r.value = w /\ r.from = owner
  <2>. HIDE DEF w
  <2>1. /\ r \in Messages /\ (r \in Answers <=> c.kind = "GetAll")
        /\ r \in Tells <=> c.kind = "props" \/ (ok /\ c.kind \in {"Get", "Set", "GetAll"})
        /\ \A o : r \in Telling(o) <=>
              (c.kind = "props" \/ (ok /\ c.kind \in {"Get", "Set", "GetAll"})) /\ owner = o
    BY <1>3, MessageTypes
  <2>2. r.kind = c.kind /\ r.value = w /\ r.from = owner
    OBVIOUS
  <2>. HIDE DEF r
  <2>. QED
    BY <2>1, <2>2
<1>6. q \in Seq(Messages)
  BY <1>4, ExtendedFacts, AppendProperties
<1>7. inbox' = IF back THEN Append(q, r) ELSE q
  <2>1. inbox \o (IF set /\ matched THEN <<s>> ELSE <<>>) = q
    BY <1>4, ExtendedFacts, AppendIsConcat, ConcatEmptySeq
  <2>2. q \o (IF back THEN <<r>> ELSE <<>>) = IF back THEN Append(q, r) ELSE q
    <3>. HIDE DEF q, r
    <3>. QED
      BY <1>5, <1>6, AppendIsConcat, ConcatEmptySeq
  <2>. QED
    BY <1>1, <2>1, <2>2
<1>8. /\ missed' = IF set THEN ~matched ELSE missed /\ ~(ok /\ matched /\ back)
      /\ silent' = (silent /\ ~(listening /\ ((set /\ matched) \/ (ok /\ back))))
  <2>1. <<r>> # <<>> /\ <<s>> # <<>>
    OBVIOUS
  <2>. QED
    BY <1>1, <2>1
<1>9. GetAllFits(calls', inbox', getAll)
  <2>1. CASE c \in Waiting
    BY <1>2, <1>5, <1>7, <2>1, ExtendedFacts, GetAllAnswered
  <2>2. CASE c \notin Waiting
    <3>1. GetAllFits(calls', inbox, getAll)
      BY <2>2, ExtendedFacts, GetAllAnswered
    <3>2. GetAllFits(calls', q, getAll)
      BY <1>2, <1>4, <3>1, ExtendedFacts, GetAllMessage
    <3>. HIDE DEF q
    <3>. QED
      BY <1>2, <1>5, <1>6, <1>7, <2>2, <3>2, ExtendedFacts, GetAllMessage
  <2>. QED
    BY <2>1, <2>2
<1>10. ok => owner <= owners
  BY <1>1, ExtendedFacts
<1>11. /\ set /\ matched => q = Append(inbox, s)
       /\ ~(set /\ matched) => q = inbox
  OBVIOUS
<1>12. \/ heard' = heard
       \/ heard' = [value |-> prop', from |-> owner] /\ ok /\ listening
          /\ prop' \in Extended!Values
  BY <1>1, <1>3
<1>. HIDE DEF q, r, s, w
(* The queue before the answer is put into it, then with the answer.       *)
<1>13. ASSUME set /\ matched
       PROVE  NewsFits(inbox', owner, owners, Living, prop', heard, missed', sp, quiet, dbusOwner)
  <2>1. NewsFits(q, owner, owners, Living, prop', heard, FALSE, TRUE, quiet, dbusOwner)
    <3>1. PICK a : a = (listening /\ ~silent)
      OBVIOUS
    <3>2. NewsFits(inbox, owner, owners, Living, prop, heard, missed, a, quiet, dbusOwner)
      BY <1>a, <3>1, Zenon
    <3>3. s.value \in {prop', None} /\ owner <= owners /\ q = Append(inbox, s)
      BY <1>1, <1>3, <1>4, <1>10, <1>11, <1>13
    <3>. QED
      BY <1>4, <3>2, <3>3, ExtendedFacts, ValueAppended
  <2>2. NewsFits(inbox', owner, owners, Living, prop', heard, FALSE, TRUE, quiet, dbusOwner)
    BY <1>3, <1>5, <1>6, <1>7, <1>10, <1>13, <2>1, ValueAppended
  <2>3. NewsFits(inbox', owner, owners, Living, prop', heard, missed', sp, quiet, dbusOwner)
    BY <2>2, NewsKept
  <2>. QED
    BY <2>3
<1>14. ASSUME ~(set /\ matched), ok, back
       PROVE  NewsFits(inbox', owner, owners, Living, prop', heard, missed', sp, quiet, dbusOwner)
  <2>1. NewsFits(inbox', owner, owners, Living, prop', heard, FALSE, TRUE, quiet, dbusOwner)
    BY <1>a, <1>3, <1>5, <1>6, <1>7, <1>10, <1>11, <1>14, ValueAppended
  <2>2. NewsFits(inbox', owner, owners, Living, prop', heard, missed', sp, quiet, dbusOwner)
    BY <2>1, NewsKept
  <2>. QED
    BY <2>2
<1>15. ASSUME ~(set /\ matched), ~ok
       PROVE  NewsFits(inbox', owner, owners, Living, prop', heard, missed', sp, quiet, dbusOwner)
  <2>1. /\ missed' = missed /\ silent' = silent /\ prop' = prop
        /\ inbox' = IF back THEN Append(inbox, r) ELSE inbox
    BY <1>0, <1>3, <1>7, <1>8, <1>11, <1>15 DEF ServiceTypes
  <2>2. Dull(r, owners) /\ inbox \in Seq(Messages)
    BY <1>5, <1>15, ExtendedFacts DEF Dull
  <2>3. NewsFits(Append(inbox, r), owner, owners, Living, prop, heard, missed,
                 listening /\ ~silent, quiet, dbusOwner)
    BY <1>a, <2>2, DullAppended
  <2>. QED
    BY <1>a, <2>1, <2>3
<1>16. ASSUME ~(set /\ matched), ok, ~back
       PROVE  NewsFits(inbox', owner, owners, Living, prop', heard, missed', sp, quiet, dbusOwner)
  <2>1. inbox' = inbox /\ silent' = silent /\ (~missed' => ~missed /\ prop' = prop)
    BY <1>0, <1>3, <1>7, <1>8, <1>11, <1>16 DEF ServiceTypes
  <2>2. NewsFits(inbox, owner, owners, Living, prop', heard, missed', listening /\ ~silent,
                 quiet, dbusOwner)
    BY <1>a, <2>1, NewsKept
  <2>. QED
    BY <2>1, <2>2
<1>17. NewsFits(inbox', owner, owners, Living, prop', heard, missed', sp, quiet, dbusOwner)
  BY <1>13, <1>14, <1>15, <1>16, Zenon
<1>18. NewsIsUnderWay'
  <2>1. NewsFits(inbox', owner, owners, Living, prop', heard', missed', sp, quiet, dbusOwner)
    <3>1. heard' = heard \/ (heard'.from = owner /\ heard'.value \in {prop', None})
      BY <1>12
    <3>. QED
      BY <1>17, <3>1, NewsKept
  <2>. QED
    BY <1>1, <2>1 DEF NewsIsUnderWay, Living
<1>19. ServiceTypes'
  <2>1. missed' \in BOOLEAN /\ silent' \in BOOLEAN
    BY <1>0, <1>8 DEF ServiceTypes, ProxyTypes
  <2>2. CASE set
    <3>1. last + 1 \in Extended!Values /\ last + 1 # None /\ last + 1 \in 0..MaxValue
      BY <1>0, <1>1, <2>2, ExtendedFacts DEF ServiceTypes
    <3>. QED
      BY <1>0, <1>1, <1>3, <2>1, <2>2, <3>1 DEF ServiceTypes
  <2>3. CASE ~set
    BY <1>0, <1>1, <2>1, <2>3 DEF ServiceTypes
  <2>. QED
    BY <2>2, <2>3
<1>20. ProxyTypes'
  <2>1. waiting' \in BOOLEAN /\ failed' \in BOOLEAN
    BY <1>0, <1>1 DEF ProxyTypes
  <2>2. heard' \in [value : Extended!Values, from : Extended!Owners]
    BY <1>0, <1>3, <1>12 DEF ProxyTypes
  <2>. QED
    BY <1>0, <1>1, <2>1, <2>2 DEF ProxyTypes
<1>21. NothingFromLater'
  <2>1. heard'.from # None => heard'.from <= owners
    BY <1>0, <1>10, <1>12 DEF NothingFromLater
  <2>2. ~listening => heard' = heard
    BY <1>12
  <2>. QED
    BY <1>0, <1>1, <2>1, <2>2 DEF NothingFromLater
<1>22. QueueTypes' /\ GetAllFits(calls', inbox', getAll')
  <2>1. inbox' \in Seq(Messages)
    BY <1>5, <1>6, <1>7, AppendProperties
  <2>. QED
    BY <1>1, <1>2, <1>9, <2>1 DEF QueueTypes
<1>. QED
  BY <1>18, <1>19, <1>20, <1>21, <1>22 DEF ExtendedInv, ExtendedTypes

(* The bus handles the next call.                                          *)
LEMMA HandleStep == ASSUME ExtendedInv, Extended!Handle PROVE ExtendedInv'
<1>1. calls # <<>> /\ calls' = Tail(calls)
  BY DEF Extended!Handle
<1>2. CASE \E ok \in BOOLEAN : /\ Head(calls).kind \in {"Get", "GetAll", "Set"}
                               /\ Extended!Answer(Head(calls), ok)
  BY <1>1, <1>2, AnswerStep
<1>3. CASE \E ok \in BOOLEAN : /\ Head(calls).kind = "Start"
                               /\ Extended!AnswerStart(Head(calls), ok)
  BY <1>1, <1>3, AnswerStartStep
<1>4. CASE /\ Head(calls).kind \in {"Match", "Unmatch"}
           /\ matched' = (Head(calls).kind = "Match")
           /\ UNCHANGED <<Extended!service, inbox, Extended!proxy, waiting, missed, silent>>
  <2>0. ProxyTypes /\ silent \in BOOLEAN
    BY DEF ExtendedInv, ExtendedTypes, ServiceTypes
  <2>1. /\ Head(calls) \in Calls /\ calls' \in Seq(Calls) /\ Head(calls) \notin Waiting
        /\ GetAllFits(calls', inbox, getAll)
    <3>1. Head(calls) \in Calls /\ calls' \in Seq(Calls)
      BY <1>1, ExtendedFacts, TakenIsFirst
    <3>2. Head(calls) \notin Waiting
      BY <1>4 DEF Waiting
    <3>. QED
      BY <1>1, <3>1, <3>2, ExtendedFacts, GetAllAnswered
  <2>2. /\ UNCHANGED <<sync, valid, dbusOwner, listening, getAll, failed, heard, told>>
        /\ UNCHANGED <<inbox, waiting, missed, silent>> /\ matched' \in BOOLEAN
        /\ UNCHANGED <<Extended!service, inbox, missed, dbusOwner, told>>
    BY <1>4 DEF Extended!proxy
  <2>3. ProxyTypes'
    BY <2>0, <2>2 DEF ProxyTypes
  <2>4. QueueTypes' /\ GetAllFits(calls', inbox', getAll')
    BY <2>1, <2>2, ExtendedFacts DEF QueueTypes
  <2>. QED
    BY <2>0, <2>2, <2>3, <2>4, NoNews DEF ExtendedInv, ExtendedTypes
<1>. QED
  BY <1>2, <1>3, <1>4, Zenon DEF Extended!Handle

LEMMA ExtendedStep == ExtendedInv /\ [Extended!Next]_extendedVars => ExtendedInv'
<1>. SUFFICES ASSUME ExtendedInv, [Extended!Next]_extendedVars PROVE ExtendedInv'
  OBVIOUS
<1>1. CASE UNCHANGED extendedVars
  BY <1>1 DEF extendedVars, ExtendedInv, ExtendedTypes, QueueTypes, ServiceTypes,
              ProxyTypes, NewsIsUnderWay, Living, NothingFromLater
<1>2. CASE Extended!Next
  BY <1>2, ServiceStep, HandleStep, DeliverStep, TimeoutStep, ProxyStep DEF Extended!Next
<1>. QED
  BY <1>1, <1>2
-----------------------------------------------------------------------------
(* All three, one of which is active.                                      *)
BusInv == ConfigInv /\ PlainInv /\ ExtendedInv

LEMMA ConfigInit == Config!Init => ConfigInv
<1>. SUFFICES ASSUME Config!Init PROVE ConfigInv
  OBVIOUS
<1>1. MaxEpoch \in Nat \ {0} /\ MaxNotices \in Nat
  BY MCBusAssumption DEF Config!DConfigServiceAssumption
<1>2. /\ {activatable, up} \subseteq BOOLEAN /\ epoch = 1 /\ refs = {} /\ stored \in Settings
      /\ phase = [c \in Clients |-> "none"] /\ since = [c \in Clients |-> 0]
      /\ match = [c \in Clients |-> "none"] /\ notices = [c \in Clients |-> 0]
      /\ view = [c \in Clients |-> None]
  BY DEF Config!Init
<1>3. Config!TypeOK
  BY <1>1, <1>2 DEF Config!TypeOK
<1>. QED
  BY <1>2, <1>3 DEF ConfigInv, Config!RefsAreLive, AcquiredIsCounted, NoneFromLater,
                    SubscribedFirst, Config!ViewIsStored

LEMMA PlainInit == Plain!Init => PlainInv
<1>. SUFFICES ASSUME Plain!Init PROVE PlainInv
  OBVIOUS
<1>1. /\ None \notin Nat /\ MaxStarts \in Nat \ {0} /\ MaxChanges \in Nat \ {0}
  BY MCBusAssumption DEF Plain!DDBusInterfaceAssumption
<1>2. events = <<>> /\ requests = <<"NameHasOwner", "MatchProperties">>
  BY DEF Plain!Init
<1>3. PlainTypes
  <2>1. Plain!TypeOK
    <3>1. /\ running \in 1..MaxStarts \cup {None} /\ starts \in 0..MaxStarts
          /\ current \in 1..MaxChanges \cup {None} /\ changes \in 0..MaxChanges
      BY <1>1 DEF Plain!Init
    <3>2. /\ propMatch = FALSE /\ ownerMatch = FALSE /\ serviceValid = FALSE
          /\ connected = FALSE /\ unseen = FALSE /\ announced = FALSE
          /\ known.value = None /\ known.from = None /\ result = None
      BY DEF Plain!Init, Plain!Unknown
    <3>. QED
      BY <3>1, <3>2 DEF Plain!TypeOK
  <2>2. requests \in Seq(PlainRequests)
    BY <1>2 DEF PlainRequests
  <2>. QED
    BY <1>2, <2>1, <2>2, EmptyQueue DEF PlainTypes
<1>4. OwnerIsUnderWay
  <2>1. "NameHasOwner" \in Range(requests)
    <3>1. 1 \in DOMAIN requests /\ requests[1] = "NameHasOwner"
      BY <1>2
    <3>. QED
      BY <3>1 DEF Range
  <2>. QED
    BY <2>1 DEF OwnerIsUnderWay
<1>5. ValueIsUnderWay
  BY DEF Plain!Init, ValueIsUnderWay
<1>. QED
  BY <1>3, <1>4, <1>5 DEF PlainInv

LEMMA ExtendedInit == Extended!Init => ExtendedInv
<1>. SUFFICES ASSUME Extended!Init PROVE ExtendedInv
  OBVIOUS
<1>1. /\ None \notin Nat /\ None \notin BOOLEAN
      /\ MaxValue \in Nat \ {0} /\ MaxOwner \in Nat \ {0}
  BY MCBusAssumption DEF Extended!DDBusExtendedAssumption
<1>2. /\ inbox = <<>> /\ calls = <<>> /\ getAll = FALSE
      /\ heard = [value |-> None, from |-> None]
  BY DEF Extended!Init, Extended!Nothing
<1>3. QueueTypes /\ GetAllFits(calls, inbox, getAll)
  BY <1>2, EmptyQueue DEF QueueTypes, GetAllFits
<1>4. ServiceTypes /\ ProxyTypes
  <2>1. ServiceTypes
    <3>1. /\ missed = FALSE /\ silent = TRUE /\ quiet = TRUE /\ lingering = {}
          /\ \/ owner = None /\ owners = 0 /\ last = 0 /\ prop = None
             \/ owner = 1 /\ owners = 1 /\ last = 1 /\ prop = 1
      BY DEF Extended!Init
    <3>2. 0 \in 0..MaxOwner /\ 1 \in 1..MaxOwner /\ 1 \in 0..MaxOwner
      BY <1>1
    <3>3. 0 \in 0..MaxValue /\ 1 \in 1..MaxValue /\ 1 \in 0..MaxValue /\ None # 1
      BY <1>1
    <3>. QED
      BY <3>1, <3>2, <3>3 DEF ServiceTypes, Extended!Owners, Extended!Values
  <2>2. heard \in [value : Extended!Values, from : Extended!Owners]
    BY <1>2 DEF Extended!Owners, Extended!Values
  <2>3. /\ matched = FALSE /\ sync = TRUE /\ valid \in BOOLEAN /\ listening = FALSE
        /\ waiting = FALSE /\ failed = FALSE /\ dbusOwner = None /\ told = None
    BY DEF Extended!Init
  <2>. QED
    BY <1>2, <2>1, <2>2, <2>3 DEF ProxyTypes, Extended!Owners
<1>5. NewsIsUnderWay
  <2>1. /\ ~(listening /\ ~silent) /\ quiet = TRUE /\ dbusOwner = None
        /\ owner # None => heard.from # owner
    BY <1>2 DEF Extended!Init
  <2>2. \A p \in Nat : EndFits(inbox, p, p \in Living, dbusOwner)
    BY <1>1, <1>2, <2>1, EmptyQueue DEF EndFits
  <2>. QED
    BY <1>2, <2>1, <2>2, EmptyQueue DEF NewsIsUnderWay, NewsFits, HeardFits
<1>6. NothingFromLater
  <2>1. /\ owner = None \/ (owner = 1 /\ owners = 1)
        /\ lingering = {} /\ dbusOwner = None /\ told = None
        /\ heard = Extended!Nothing /\ heard.from = None
    BY <1>2 DEF Extended!Init, Extended!Nothing
  <2>2. None # TRUE
    BY <1>1
  <2>3. owner # None => owner = owners
    BY <2>1
  <2>4. \A p \in lingering : p <= owners
    BY <2>1
  <2>5. told = TRUE <=> dbusOwner # None
    BY <2>1, <2>2
  <2>. QED
    BY <2>1, <2>3, <2>4, <2>5 DEF NothingFromLater
<1>. QED
  BY <1>3, <1>4, <1>5, <1>6 DEF ExtendedInv, ExtendedTypes

LEMMA BusStep == BusInv /\ [Next]_vars => BusInv'
<1>. SUFFICES ASSUME BusInv, [Next]_vars PROVE BusInv'
  OBVIOUS
<1>1. /\ Extended!Next \/ UNCHANGED extendedVars
      /\ Plain!Next \/ UNCHANGED plainVars
      /\ Config!Next \/ UNCHANGED configVars
  BY Zenon DEF Next, vars
<1>. QED
  BY <1>1, ConfigStep, PlainStep, ExtendedStep DEF BusInv

(* Every change that a client of the bus does not know yet is under way to *)
(* it: as an answer, a signal or a call that is still to be made.          *)
THEOREM BusInvariant == Spec => []BusInv
<1>1. Init => BusInv
  BY ConfigInit, PlainInit, ExtendedInit DEF Init, BusInv
<1>. QED
  BY <1>1, BusStep, PTL DEF Spec

-----------------------------------------------------------------------------
(* What the invariant says when nothing is under way.                      *)
LEMMA NoGetAllTwice == ExtendedTypes => Extended!TypeOK
<1>. SUFFICES ASSUME ExtendedTypes PROVE Extended!TypeOK
  OBVIOUS
<1>. USE DEF ExtendedTypes
<1>1. calls \in Seq(Calls) /\ inbox \in Seq(Messages)
  BY DEF QueueTypes
<1>2. /\ \A i \in DOMAIN calls : calls[i] \in Calls
      /\ \A i \in DOMAIN inbox : inbox[i] \in Messages
  BY <1>1
<1>3. \A i \in DOMAIN calls : calls[i].value = None
  BY <1>2 DEF Calls
<1>4. \A i \in DOMAIN inbox :
         inbox[i].from \in Extended!Owners /\ inbox[i].value \in Extended!Values
  BY <1>2 DEF Messages
<1>5. /\ \A i : i \in Extended!GetAllCalls <=> i \in DOMAIN calls /\ calls[i] \in Waiting
      /\ \A i : i \in Extended!GetAllAnswers <=> i \in DOMAIN inbox /\ inbox[i] \in Answers
  BY <1>2 DEF Extended!GetAllCalls, Extended!GetAllAnswers, Waiting, Answers
<1>6. /\ Extended!GetAllCalls = {} <=> Range(calls) \cap Waiting = {}
      /\ Extended!GetAllAnswers = {} <=> Range(inbox) \cap Answers = {}
  BY <1>5 DEF Range
<1>7. /\ \A i, j \in Extended!GetAllCalls : i = j
      /\ \A i, j \in Extended!GetAllAnswers : i = j
  BY <1>5 DEF GetAllFits, OneOf
<1>8. /\ getAll = (Extended!GetAllCalls # {} \/ Extended!GetAllAnswers # {})
      /\ Extended!GetAllCalls = {} \/ Extended!GetAllAnswers = {}
  BY <1>6 DEF GetAllFits, ProxyTypes
<1>. QED
  BY <1>3, <1>4, <1>7, <1>8 DEF Extended!TypeOK, ServiceTypes, ProxyTypes

LEMMA NothingUnderWay ==
    BusInv => /\ Extended!HeardIsCurrent /\ Plain!ParentIsCurrent
              /\ Extended!ToldIsRight /\ Plain!OwnerIsNoticed
<1>. SUFFICES ASSUME BusInv PROVE /\ Extended!HeardIsCurrent /\ Plain!ParentIsCurrent
                                  /\ Extended!ToldIsRight /\ Plain!OwnerIsNoticed
  OBVIOUS
<1>1. /\ ExtendedInv /\ NothingFromLater /\ ServiceTypes
      /\ NewsFits(inbox, owner, owners, Living, prop, heard, missed, listening /\ ~silent,
                  quiet, dbusOwner)
  BY ExtendedFacts DEF BusInv, ExtendedInv, ExtendedTypes
<1>2. inbox = <<>> => Range(inbox) = {}
  BY EmptyQueue
<1>3. inbox = <<>> /\ owner # None /\ ~quiet => dbusOwner = owner /\ told = TRUE
  BY <1>1, <1>2 DEF NewsFits, TakenFits, NothingFromLater
<1>4. Extended!HeardIsCurrent
  <2>1. inbox = <<>> /\ owner # None => /\ ~missed => HeardFits(inbox, owner, prop, heard)
                                        /\ listening /\ ~silent => SpokenFits(inbox, owner, heard)
    BY <1>1 DEF NewsFits
  <2>. QED
    BY <1>2, <1>3, <2>1 DEF HeardFits, SpokenFits, Extended!HeardIsCurrent
<1>5. Extended!ToldIsRight
  <2>1. ASSUME inbox = <<>>, told = TRUE PROVE dbusOwner \in lingering \cup {owner} /\ dbusOwner # None
    <3>1. dbusOwner # None /\ dbusOwner \in Nat
      BY <1>1, <2>1, ExtendedFacts DEF NothingFromLater
    <3>2. EndFits(inbox, dbusOwner, dbusOwner \in Living, dbusOwner)
      BY <1>1, <3>1 DEF NewsFits
    <3>. QED
      BY <1>2, <2>1, <3>1, <3>2 DEF EndFits, Living
  <2>. QED
    BY <1>3, <2>1 DEF Extended!ToldIsRight
<1>6. Plain!ParentIsCurrent
  BY EmptyQueue DEF BusInv, PlainInv, ValueIsUnderWay, Plain!ParentIsCurrent
<1>7. Plain!OwnerIsNoticed
  <2>1. serviceValid \in BOOLEAN
    BY DEF BusInv, PlainInv, PlainTypes, Plain!TypeOK
  <2>. QED
    BY <2>1, EmptyQueue DEF BusInv, PlainInv, OwnerIsUnderWay, Plain!OwnerIsNoticed
<1>. QED
  BY <1>4, <1>5, <1>6, <1>7

(* Every client of the bus keeps its types, and no GetAll of asynchronous  *)
(* mode is ever sent while another is under way.                           *)
THEOREM BusTypes == Spec => []TypeOK
<1>1. BusInv => TypeOK
  BY NoGetAllTwice
     DEF BusInv, ExtendedInv, PlainInv, PlainTypes, ConfigInv, TypeOK, Of
<1>. QED
  BY <1>1, BusInvariant, PTL

(* Once nothing is under way: what receivers of propertyChanged of the     *)
(* extended proxy have of the owner is its value, unless they were not     *)
(* subscribed when it changed; if the owner has sent any value they have   *)
(* it, whatever an earlier process sent; and if they have none of it, they *)
(* were told of it as a new process, unless it took the name over.  The    *)
(* parent of the plain proxy has the value that was last announced, as long*)
(* as the property has it.                                                 *)
THEOREM ListenersEndUpCurrent == Spec => []ListenersAreCurrent
<1>1. BusInv => ListenersAreCurrent
  BY NothingUnderWay DEF ListenersAreCurrent, Of
<1>. QED
  BY <1>1, BusInvariant, PTL

(* Once nothing is under way: serviceValidChanged has told of an owner that*)
(* took the free name, and of the end of every process it told of before;  *)
(* m_serviceValid tells whether the service has an owner, both ways, unless*)
(* the bus told nobody of its latest start or end.                         *)
THEOREM ValidityEndsUpTrue == Spec => []ValidityIsNoticed
<1>1. BusInv => ValidityIsNoticed
  BY NothingUnderWay DEF ValidityIsNoticed, Of
<1>. QED
  BY <1>1, BusInvariant, PTL

(* An application of DConfig ends up with the value the service stores.    *)
THEOREM ViewEndsUpStored == Spec => []ViewIsStored
<1>1. BusInv => ViewIsStored
  BY DEF BusInv, ConfigInv, ViewIsStored, Of
<1>. QED
  BY <1>1, BusInvariant, PTL

(* The service counts only clients that live and have acquired a manager   *)
(* of this very process.                                                   *)
THEOREM CountedIsLive == Spec => []RefsAreLive
<1>1. BusInv => RefsAreLive
  BY DEF BusInv, ConfigInv, RefsAreLive, Of
<1>. QED
  BY <1>1, BusInvariant, PTL
=============================================================================
