--------------------------- MODULE DSGApplication ---------------------------
(***************************************************************************)
(* DSGApplication (src/dsgapplication.cpp): who this process is, and who   *)
(* another one is.  The answer comes from the environment, from the        *)
(* application manager on the session bus, or, for this process, from its  *)
(* name.  What id() asks first is kept in a static variable for ever.      *)
(*                                                                         *)
(* Processes end and others get their numbers while the manager is asked;  *)
(* the manager comes and goes.                                             *)
(***************************************************************************)

CONSTANTS
    Threads,
    Pids,
    Self,        \* the number of this process
    Processes,
    Me,          \* this process
    Identity,    \* Identity[p]: what the manager says of p, Empty if it does not know p
    Given,       \* identities a starter gives
    Names,       \* names of the application
    FormatAppId, \* FormatAppId[n]: the name, and Cmdline, with what is not allowed replaced
    Cmdline,
    Empty,
    None

DSGApplicationAssumption ==
    /\ Self \in Pids /\ Me \in Processes
    /\ DOMAIN Identity = Processes /\ DOMAIN FormatAppId = Names \cup {Cmdline}
    /\ \A p \in Processes : Identity[p] # None
    /\ None \notin Given \cup Threads \cup Processes \cup {Empty}

VARIABLES
    holder,      \* holder[n]: the process with the number n
    environ,     \* DSG_APP_ID
    fallback,    \* DTK_DISABLED_FALLBACK_APPID is not set
    appName,     \* QCoreApplication::applicationName
    selfId,      \* the static variable, None before it is initialised
    identifying, \* the thread that initialises it
    asker,       \* asker[t]: [at, pid, fd, answer]
    had,         \* history: had[t]: processes that had the number during the call
    saidSelf     \* history: what id() returned

appVars == <<holder, environ, fallback, appName, selfId,
             identifying, asker, had, saidSelf>>
world   == <<holder, environ, fallback, appName>>

NoCall == [at |-> "idle", pid |-> None, fd |-> None, answer |-> None]

-----------------------------------------------------------------------------
(* id() once the static variable is there.                                 *)
Id == IF selfId # Empty THEN selfId
      ELSE IF ~fallback THEN Empty
      ELSE FormatAppId[IF appName # Empty THEN appName ELSE Cmdline]

SelfId(t) ==
    /\ asker[t].at = "idle" /\ selfId # None
    /\ saidSelf' = saidSelf \cup {Id}
    /\ UNCHANGED <<world, selfId, identifying, asker, had>>

Ask(t, pid) ==
    /\ asker' = [asker EXCEPT ![t] = [NoCall EXCEPT !.at = "owner", !.pid = pid]]
    /\ had' = [had EXCEPT ![t] = {holder[pid]}]

(* getSelfAppId, in the first call of id(); other threads wait.            *)
InitSelfId(t) ==
    /\ asker[t].at = "idle" /\ selfId = None /\ identifying = None
    /\ IF environ # Empty
       THEN selfId' = environ /\ UNCHANGED <<identifying, asker, had>>
       ELSE identifying' = t /\ Ask(t, Self) /\ UNCHANGED selfId
    /\ UNCHANGED <<world, saidSelf>>

GetId(t, pid) ==
    /\ asker[t].at = "idle"
    /\ Ask(t, pid)
    /\ UNCHANGED <<world, selfId, identifying, saidSelf>>

Answer(t, id) ==
    /\ asker' = [asker EXCEPT ![t] = [NoCall EXCEPT !.at = "told", !.pid = asker[t].pid,
                                                    !.answer = id]]
    /\ IF identifying = t THEN selfId' = id /\ identifying' = None
       ELSE UNCHANGED <<selfId, identifying>>

(* checkDBusServiceActivatable: both questions fail when the bus does, and *)
(* the manager can come and go at any moment.                              *)
NameHasOwner(t) ==
    /\ asker[t].at = "owner"
    /\ \/ /\ asker' = [asker EXCEPT ![t].at = "activatable"]
          /\ UNCHANGED <<selfId, identifying>>
       \/ Answer(t, Empty)
    /\ UNCHANGED <<world, had, saidSelf>>

ListActivatableNames(t) ==
    /\ asker[t].at = "activatable"
    /\ \/ /\ asker' = [asker EXCEPT ![t].at = "open"]
          /\ UNCHANGED <<selfId, identifying>>
       \/ Answer(t, Empty)
    /\ UNCHANGED <<world, had, saidSelf>>

PidfdOpen(t) ==
    /\ asker[t].at = "open"
    /\ IF holder[asker[t].pid] = None THEN Answer(t, Empty)
       ELSE /\ asker' = [asker EXCEPT ![t].at = "identify",
                                      ![t].fd = holder[asker[t].pid]]
            /\ UNCHANGED <<selfId, identifying>>
    /\ UNCHANGED <<world, had, saidSelf>>

(* callDBusIdentifyMethod: the manager knows the process by the descriptor *)
(* while it runs.  The descriptor is closed.                               *)
Identify(t) ==
    /\ asker[t].at = "identify"
    /\ \E id \in {Empty} \cup {Identity[p] : p \in {asker[t].fd} \cap {holder[asker[t].pid]}} :
          Answer(t, id)
    /\ UNCHANGED <<world, had, saidSelf>>

Return(t) ==
    /\ asker[t].at = "told"
    /\ asker' = [asker EXCEPT ![t] = NoCall]
    /\ had' = [had EXCEPT ![t] = {}]
    /\ UNCHANGED <<world, selfId, identifying, saidSelf>>

-----------------------------------------------------------------------------
(* Other processes and the application itself.                             *)
Fork(n, p) ==
    /\ n # Self /\ p # Me
    /\ \A m \in Pids : holder[m] # p
    /\ holder' = [holder EXCEPT ![n] = p]
    /\ had' = [t \in Threads |-> IF asker[t].pid = n THEN had[t] \cup {p} ELSE had[t]]
    /\ UNCHANGED <<environ, fallback, appName, selfId,
                   identifying, asker, saidSelf>>

Exit(n) ==
    /\ n # Self
    /\ holder' = [holder EXCEPT ![n] = None]
    /\ UNCHANGED <<environ, fallback, appName, selfId,
                   identifying, asker, had, saidSelf>>

SetName(n) ==
    /\ appName' = n
    /\ UNCHANGED <<holder, environ, fallback, selfId,
                   identifying, asker, had, saidSelf>>

-----------------------------------------------------------------------------
Init ==
    /\ holder = [n \in Pids |-> IF n = Self THEN Me ELSE None]
    /\ environ \in Given \cup {Empty} /\ appName = Empty
    /\ fallback \in BOOLEAN
    /\ selfId = None /\ identifying = None
    /\ asker = [t \in Threads |-> NoCall]
    /\ had = [t \in Threads |-> {}]
    /\ saidSelf = {}

Next ==
    \/ \E t \in Threads :
          \/ SelfId(t) \/ InitSelfId(t) \/ Return(t)
          \/ \E pid \in Pids : GetId(t, pid)
          \/ NameHasOwner(t) \/ ListActivatableNames(t) \/ PidfdOpen(t) \/ Identify(t)
    \/ \E n \in Pids : Exit(n) \/ \E p \in Processes : Fork(n, p)
    \/ \E n \in Names : SetName(n)

Spec == Init /\ [][Next]_appVars

-----------------------------------------------------------------------------
(* A thread has a descriptor only while it asks the manager.               *)
TypeOK ==
    /\ \A t \in Threads : /\ (asker[t].fd # None) = (asker[t].at = "identify")
                          /\ asker[t].fd \in Processes \cup {None}
    /\ \A n \in Pids : holder[n] \in Processes \cup {None}

(* id() returns one identity for ever if the starter or the manager gave   *)
(* it one when it was first asked (dsgapplication.cpp:256), in every       *)
(* thread, whatever becomes of the manager and the name; else it never     *)
(* returns one of theirs.                                                  *)
OneIdentity ==
    IF selfId \notin {None, Empty} THEN saidSelf \subseteq {selfId}
    ELSE saidSelf \subseteq {FormatAppId[n] : n \in DOMAIN FormatAppId} \cup {Empty}

(* An identity getId gives is that of a process which had the number while *)
(* it was asked (dsgapplication.cpp:297), and the number may go to another *)
(* process at any moment.                                                  *)
ForWhom ==
    \A t \in Threads : asker[t].at = "told" /\ asker[t].answer # Empty =>
        \E p \in had[t] \ {None} : asker[t].answer = Identity[p]
=============================================================================
