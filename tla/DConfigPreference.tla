-------------------------- MODULE DConfigPreference --------------------------
(***************************************************************************)
(* A configuration class as dconfig2cpp generates it (here                 *)
(* src/log/dconfig_org_deepin_dtk_preference.hpp).  The object lives in    *)
(* the thread that uses it and keeps a copy of every value; the DConfig is *)
(* made in a configuration thread.  Data, shared by both, holds the        *)
(* copies, an atomic status and a bit per key that was set.                *)
(*                                                                         *)
(* Each thread takes its events in order.  Atomic operations are taken as  *)
(* sequentially consistent.                                                *)
(***************************************************************************)
EXTENDS Integers, Sequences

CONSTANTS
    Keys,
    Values,     \* values of keys
    Original,   \* default of every key
    MaxSets,    \* bound: calls that change a key, here and elsewhere
    None

DConfigPreferenceAssumption ==
    /\ Original \in Values /\ MaxSets \in Nat
    /\ None \notin Values /\ None \notin [do : {"set"}, key : Keys, value : Values]

VARIABLES
    m_status,
    m_config,    \* "none", "live", "deleted"
    data,        \* Data: "live", "deleted"
    user,        \* the object itself exists
    p,           \* p[k]: the copy
    propertySet, \* keys with their bit set
    saved,       \* saved[k]: value of the DConfig, None for the default
    linked,      \* valueChanged of the DConfig is connected
    setting,     \* the setter is between marking and looking for the DConfig
    initLeft,    \* keys initializeInConfigThread has still to do
    configEvents, userEvents,
    changed,     \* number of calls that changed a key
    freed        \* history: how often Data was deleted

prefVars == <<m_status, m_config, data, user, p, propertySet, saved, linked, setting,
              initLeft, configEvents, userEvents, changed, freed>>

Event(do, k, v) == [do |-> do, key |-> k, value |-> v]
Create    == Event("create", None, None)
Release   == Event("release", None, None)
Succeed   == Event("succeed", None, None)
Fail      == Event("fail", None, None)
FreeData  == Event("free", None, None)
ToUser(e)   == userEvents' = Append(userEvents, e)

Value(k)  == IF saved[k] = None THEN Original ELSE saved[k]
Shown(s)  == IF s = None THEN Original ELSE s
Busy      == setting # None

-----------------------------------------------------------------------------
(* The user's thread.  A setter changes the copy, marks the key, and then  *)
(* posts to the DConfig if there is one.                                   *)
Set(k, v) ==
    /\ user /\ ~Busy /\ changed < MaxSets
    /\ changed' = changed + 1
    /\ p' = [p EXCEPT ![k] = v]
    /\ propertySet' = propertySet \cup {k}
    /\ setting' = Event("set", k, v)
    /\ UNCHANGED <<m_status, m_config, data, user, saved, linked, initLeft,
                   configEvents, userEvents, freed>>

(* The setter posts only once the DConfig is known to be there.            *)
PostSetSlip ==
    /\ Busy
    /\ setting' = None
    /\ configEvents' = IF m_status = "Succeeded" THEN Append(configEvents, setting) ELSE configEvents
    /\ UNCHANGED <<m_status, m_config, data, user, p, propertySet, saved, linked,
                   initLeft, userEvents, changed, freed>>

PostSet ==
    /\ Busy
    /\ setting' = None
    /\ configEvents' = IF m_config = "none" THEN configEvents ELSE Append(configEvents, setting)
    /\ UNCHANGED <<m_status, m_config, data, user, p, propertySet, saved, linked,
                   initLeft, userEvents, changed, freed>>

Reset(k) ==
    /\ user /\ ~Busy /\ changed < MaxSets /\ m_config = "live"
    /\ changed' = changed + 1
    /\ configEvents' = Append(configEvents, Event("set", k, None))
    /\ UNCHANGED <<m_status, m_config, data, user, p, propertySet, saved, linked,
                   setting, initLeft, userEvents, freed>>

(* The destructor frees nothing of a failed configuration.                 *)
DestroySlip ==
    /\ user /\ ~Busy
    /\ user' = FALSE
    /\ m_status' = "Destroyed"
    /\ configEvents' = IF m_status = "Succeeded" THEN Append(configEvents, Release) ELSE configEvents
    /\ UNCHANGED <<userEvents, m_config, data, p, propertySet, saved, linked, setting,
                   initLeft, changed, freed>>

(* The destructor decides who frees what by the status it replaces.        *)
Destroy ==
    /\ user /\ ~Busy
    /\ user' = FALSE
    /\ m_status' = "Destroyed"
    /\ configEvents' = IF m_status = "Succeeded" THEN Append(configEvents, Release) ELSE configEvents
    /\ userEvents' = IF m_status = "Failed" THEN Append(userEvents, FreeData) ELSE userEvents
    /\ UNCHANGED <<m_config, data, p, propertySet, saved, linked, setting, initLeft,
                   changed, freed>>

(* Events of Data.                                                         *)
Update(e) ==
    /\ e.do = "update"
    /\ p' = IF user THEN [p EXCEPT ![e.key] = e.value] ELSE p
    /\ UNCHANGED <<m_status, data, configEvents, freed>>

(* The transition to Succeeded or Failed, unless the destructor was first. *)
Told(e) ==
    /\ e.do \in {"succeed", "fail"}
    /\ IF m_status = "Initializing"
       THEN /\ m_status' = IF e.do = "succeed" THEN "Succeeded" ELSE "Failed"
            /\ UNCHANGED <<data, configEvents, freed>>
       ELSE /\ IF e.do = "succeed" THEN configEvents' = Append(configEvents, Release)
                                   ELSE UNCHANGED configEvents
            /\ data' = "deleted" /\ freed' = freed + 1
            /\ UNCHANGED m_status
    /\ UNCHANGED p

Free(e) ==
    /\ e.do = "free"
    /\ data' = "deleted" /\ freed' = freed + 1
    /\ UNCHANGED <<p, m_status, configEvents>>

UserEvent ==
    LET e == Head(userEvents) IN
    /\ ~Busy /\ userEvents # <<>>
    /\ userEvents' = Tail(userEvents)
    /\ IF data = "deleted" THEN UNCHANGED <<p, m_status, data, configEvents, freed>>
       ELSE Update(e) \/ Told(e) \/ Free(e)
    /\ UNCHANGED <<m_config, user, propertySet, saved, linked, setting, initLeft, changed>>

-----------------------------------------------------------------------------
(* The configuration thread.                                               *)
(* updateValue: the bit follows the DConfig at once, the copy later.       *)
Refresh(k, value) ==
    /\ propertySet' = IF value = None THEN propertySet \ {k} ELSE propertySet \cup {k}
    /\ ToUser(Event("update", k, Shown(value)))

(* DConfig::setValue and reset, with the slot on valueChanged.             *)
SetInConfig(k, v) ==
    /\ saved' = [saved EXCEPT ![k] = v]
    /\ IF linked /\ Shown(v) # Value(k) THEN Refresh(k, v)
       ELSE UNCHANGED <<propertySet, userEvents>>

ConfigEvent ==
    LET e == Head(configEvents) IN
    /\ configEvents # <<>> /\ initLeft = {}
    /\ configEvents' = Tail(configEvents)
    /\ \/ /\ e = Create
          /\ \/ /\ m_status # "Invalid"
                /\ ToUser(FreeData)
                /\ UNCHANGED <<m_status, m_config, initLeft>>
             \/ /\ m_status = "Invalid"
                /\ m_status' = "Initializing"
                /\ \/ /\ m_config' = "live" /\ initLeft' = Keys
                      /\ UNCHANGED userEvents
                   \/ /\ ToUser(Fail)
                      /\ UNCHANGED <<m_config, initLeft>>
          /\ UNCHANGED <<saved, linked, propertySet>>
       \/ /\ e.do = "set"
          /\ IF m_config = "live" THEN SetInConfig(e.key, e.value)
             ELSE UNCHANGED <<saved, propertySet, userEvents>>
          /\ UNCHANGED <<m_status, m_config, initLeft, linked>>
       \/ /\ e.do = "notify"
          /\ IF m_config = "live" /\ linked THEN Refresh(e.key, saved[e.key])
             ELSE UNCHANGED <<propertySet, userEvents>>
          /\ UNCHANGED <<m_status, m_config, initLeft, linked, saved>>
       \/ /\ e = Release
          /\ m_config' = "deleted"
          /\ IF m_status = "Destroyed" THEN ToUser(FreeData) ELSE UNCHANGED userEvents
          /\ UNCHANGED <<m_status, initLeft, linked, saved, propertySet>>
    /\ UNCHANGED <<data, user, p, setting, changed, freed>>

(* initializeInConfigThread, key by key; then the transition is queued     *)
(* behind the updates.                                                     *)
InitializeKey(k) ==
    /\ k \in initLeft
    /\ initLeft' = initLeft \ {k}
    /\ LET events == IF k \in propertySet THEN <<>>
                     ELSE <<Event("update", k, Value(k))>>
           last   == IF initLeft = {k} THEN <<Succeed>> ELSE <<>>
       IN userEvents' = userEvents \o events \o last
    /\ IF k \in propertySet
       THEN saved' = [saved EXCEPT ![k] = p[k]] /\ UNCHANGED propertySet
       ELSE /\ propertySet' = IF saved[k] = None THEN propertySet ELSE propertySet \cup {k}
            /\ UNCHANGED saved
    /\ linked' = (initLeft = {k})
    /\ UNCHANGED <<m_status, m_config, data, user, p, setting, configEvents, changed, freed>>

(* Another program changes the value; the DConfig is told.                 *)
Outside(k, v) ==
    /\ changed < MaxSets
    /\ changed' = changed + 1
    /\ saved' = [saved EXCEPT ![k] = v]
    /\ configEvents' = IF v # saved[k] /\ m_config = "live"
                       THEN Append(configEvents, Event("notify", k, None)) ELSE configEvents
    /\ UNCHANGED <<m_status, m_config, data, user, p, propertySet, linked, setting,
                   initLeft, userEvents, freed>>

-----------------------------------------------------------------------------
Init ==
    /\ m_status = "Invalid" /\ m_config = "none" /\ data = "live" /\ user = TRUE
    /\ p = [k \in Keys |-> Original]
    /\ propertySet = {}
    /\ saved \in [Keys -> Values \cup {None}]
    /\ linked = FALSE /\ setting = None /\ initLeft = {}
    /\ configEvents = <<Create>> /\ userEvents = <<>>
    /\ changed = 0 /\ freed = 0

Next ==
    \/ \E k \in Keys : \/ \E v \in Values : Set(k, v) \/ Outside(k, v)
                       \/ Reset(k)
                       \/ InitializeKey(k)
    \/ PostSet \/ Destroy
    \/ UserEvent \/ ConfigEvent

(* Both threads run their loops.                                           *)
UserStep   == PostSet \/ UserEvent
ConfigStep == ConfigEvent \/ \E k \in Keys : InitializeKey(k)

Spec == Init /\ [][Next]_prefVars /\ WF_prefVars(UserStep) /\ WF_prefVars(ConfigStep)

-----------------------------------------------------------------------------
(* Data is deleted at most once; the object outlives none of it before it  *)
(* is destroyed.                                                           *)
TypeOK ==
    /\ m_status \in {"Invalid", "Initializing", "Succeeded", "Failed", "Destroyed"}
    /\ freed = (IF data = "deleted" THEN 1 ELSE 0)
    /\ user => data = "live" /\ m_config # "deleted"
    /\ propertySet \subseteq Keys

(* When nothing is under way the copy of every key is the value of the     *)
(* DConfig (setters, updateValue and initializeInConfigThread, lines 235   *)
(* to 870), whatever was set before, while and after the DConfig was made, *)
(* here and elsewhere.                                                     *)
CopiesSettle ==
    /\ user /\ m_status = "Succeeded"
    /\ setting = None /\ configEvents = <<>> /\ userEvents = <<>>
    => \A k \in Keys : p[k] = Value(k)

(* Destroying the object frees Data and DConfig (destructor, line 168),    *)
(* at whichever moment of the initialization it happens.                   *)
AllFreed == ~user ~> (data = "deleted" /\ m_config # "live")
=============================================================================
