----------------------- MODULE DDBusExtendedInterface -----------------------
(***************************************************************************)
(* DDBusExtendedAbstractInterface (src/util): the proxy of a D-Bus object  *)
(* whose service comes, goes and is replaced.  The proxy sends calls to    *)
(* the bus in order; the bus sends it answers and signals in order, which  *)
(* wait in inbox for the event loop.  A blocking call gets its answer past *)
(* what waits there.                                                       *)
(*                                                                         *)
(* One property stands for all.  Its values are numbered in the order in   *)
(* which it takes them, so a number also tells which service had it.       *)
(***************************************************************************)
EXTENDS Integers, Sequences

CONSTANTS
    MaxValue,    \* bound: values the property takes
    MaxOwner,    \* bound: processes that own the service's name
    MaxPending,  \* bound: calls and messages under way when a call is made
    MaxQueued,   \* bound: messages under way when the service does something; with
                 \* calls under way MaxPending of both
    None

DDBusExtendedAssumption ==
    /\ MaxValue \in Nat \ {0}
    /\ MaxOwner \in Nat \ {0}
    /\ MaxPending \in Nat /\ MaxQueued \in Nat
    /\ None \notin Nat /\ None \notin BOOLEAN

VARIABLES
    owner,       \* the process that owns the name, or None
    lingering,   \* processes that had the name and live on without it
    owners,      \* how many there have been
    prop,        \* the property's value in that process
    last,        \* the latest value there has been
    matched,     \* the bus forwards PropertiesChanged to the proxy
    calls,       \* what the proxy has sent and was not handled yet
    inbox,       \* what was sent to the proxy and was not delivered yet
    sync,        \* m_sync
    valid,       \* QDBusAbstractInterface::isValid
    dbusOwner,   \* m_dbusOwner
    listening,   \* m_propertiesChangedConnected: there are receivers
    getAll,      \* m_getAllPendingCallWatcher is set
    waiting,     \* the thread is in a blocking call
    failed,      \* m_lastExtendedError is an error
    heard,       \* what receivers of propertyChanged were told last
    told,        \* the argument of the last serviceValidChanged
    missed,      \* history: the value changed while nobody was subscribed,
                 \* and no answer in the queue has told it since
    silent,      \* history: the owner has sent no value since there are receivers
    quiet        \* history: the owner did not take a free name since the proxy is there

service == <<owner, lingering, owners, prop, last, quiet>>
proxy   == <<sync, valid, dbusOwner, listening, getAll, failed, heard, told>>
vars    == <<service, proxy, matched, calls, inbox, waiting, missed, silent>>

Nothing == [value |-> None, from |-> None]

Message(kind, ok, value) ==
    [kind |-> kind, ok |-> ok, value |-> value, from |-> owner]

(* A call; answer: the proxy still waits for its answer.                   *)
Call(kind, value, block) ==
    [kind |-> kind, value |-> value, block |-> block, answer |-> TRUE]

Send(c) == calls' = Append(calls, c)

(* The application runs: the thread is not blocked, little is under way.   *)
Free == ~waiting /\ Len(calls) + Len(inbox) < MaxPending
Room == /\ Len(inbox) < MaxQueued
        /\ calls # <<>> => Len(calls) + Len(inbox) < MaxPending

-----------------------------------------------------------------------------
(* The service and the bus.  A new owner takes the free name, or takes it  *)
(* over: the signal of that has an old owner and a new one, for which the  *)
(* slot has no use.                                                        *)
NewOwner ==
    /\ owners < MaxOwner /\ last < MaxValue /\ Room
    /\ owner' = owners + 1 /\ owners' = owners + 1
    /\ last' = last + 1 /\ prop' = last + 1
    /\ missed' = FALSE /\ silent' = TRUE

Appear ==
    /\ owner = None
    /\ NewOwner
    /\ quiet' = FALSE
    /\ inbox' = Append(inbox, [kind |-> "taken", ok |-> TRUE, value |-> None,
                               from |-> owners + 1])
    /\ UNCHANGED <<lingering, matched, calls, proxy, waiting>>

Replace ==
    /\ owner # None
    /\ NewOwner
    /\ quiet' = TRUE
    /\ lingering' = lingering \cup {owner}
    /\ UNCHANGED <<inbox, matched, calls, proxy, waiting>>

(* The process ends, or gives up its name and lives on.  Two signals tell  *)
(* of an end, the name has no owner any more and the process has no name;  *)
(* they come one after the other and are taken as one.                     *)
Gone(kind) ==
    /\ owner # None /\ Room
    /\ owner' = None
    /\ prop' = None
    /\ inbox' = Append(inbox, Message(kind, TRUE, None))
    /\ UNCHANGED <<owners, last, quiet, matched, calls, proxy, waiting, missed, silent>>

Vanish ==
    /\ Gone("gone")
    /\ UNCHANGED lingering

Release ==
    /\ Gone("released")
    /\ lingering' = lingering \cup {owner}

(* A process that had the name ends.                                       *)
End(p) ==
    /\ p \in lingering /\ Room
    /\ lingering' = lingering \ {p}
    /\ inbox' = Append(inbox, [kind |-> "ended", ok |-> TRUE, value |-> None, from |-> p])
    /\ UNCHANGED <<owner, owners, prop, last, quiet, matched, calls, proxy, waiting,
                   missed, silent>>

(* The service takes another value; PropertiesChanged has the value or     *)
(* only says that the old one is invalid.                                  *)
Change(value) ==
    /\ owner # None /\ last < MaxValue /\ Room
    /\ last' = last + 1
    /\ prop' = last + 1
    /\ inbox' = IF matched
                THEN Append(inbox, Message("props", value # None, value))
                ELSE inbox
    /\ missed' = ~matched
    /\ silent' = (silent /\ ~(matched /\ listening))
    /\ UNCHANGED <<owner, lingering, owners, quiet, matched, calls, proxy, waiting>>

(* A call reaches the service, or the error that there is none comes back. *)
(* A service may refuse a value.                                           *)
Answer(c, ok) ==
    LET stored == ok /\ c.kind = "Set"
        value  == IF ~ok THEN None ELSE IF c.kind = "Set" THEN last + 1 ELSE prop
        signal == IF stored /\ matched
                  THEN <<Message("props", TRUE, value)>> ELSE <<>>
        reply  == IF c.answer /\ ~c.block
                  THEN <<Message(c.kind, ok, value)>> ELSE <<>> IN
    /\ ok => owner # None
    /\ c.kind # "Set" => ok = (owner # None)
    /\ stored => last < MaxValue
    /\ inbox' = inbox \o signal \o reply
    /\ prop' = IF stored THEN value ELSE prop
    /\ last' = IF stored THEN value ELSE last
    /\ missed' = IF stored THEN ~matched
                 ELSE missed /\ ~(ok /\ matched /\ reply # <<>>)
    /\ silent' = (silent /\ ~(listening /\ (signal # <<>> \/ (ok /\ reply # <<>>))))
    /\ waiting' = (waiting /\ ~(c.block /\ c.answer))
    /\ IF c.block /\ c.answer /\ c.kind = "GetAll"
       THEN /\ failed' = ~ok
            /\ heard' = IF ok /\ listening
                        THEN [value |-> value, from |-> owner] ELSE heard
       ELSE UNCHANGED <<failed, heard>>
    /\ UNCHANGED <<owner, lingering, owners, quiet, matched, sync, valid, dbusOwner,
                   listening, getAll, told>>

(* StartServiceByName: the service starts, runs already or cannot start.   *)
AnswerStart(c, ok) ==
    LET new   == ok /\ owner = None
        reply == [kind |-> "Start", ok |-> ok, value |-> None, from |-> None]
        taken == [kind |-> "taken", ok |-> TRUE, value |-> None, from |-> owners + 1] IN
    /\ ~ok => owner = None
    /\ new => owners < MaxOwner /\ last < MaxValue
    /\ owner' = IF new THEN owners + 1 ELSE owner
    /\ owners' = IF new THEN owners + 1 ELSE owners
    /\ prop' = IF new THEN last + 1 ELSE prop
    /\ last' = IF new THEN last + 1 ELSE last
    /\ missed' = (missed /\ ~new) /\ silent' = (silent \/ new)
    /\ quiet' = (quiet /\ ~new)
    /\ inbox' = inbox \o (IF new THEN <<taken>> ELSE <<>>)
                      \o (IF c.answer THEN <<reply>> ELSE <<>>)
    /\ UNCHANGED <<lingering, matched, proxy, waiting>>

Handle ==
    /\ calls # <<>>
    /\ calls' = Tail(calls)
    /\ LET c == Head(calls) IN
       \/ /\ c.kind \in {"Match", "Unmatch"}
          /\ matched' = (c.kind = "Match")
          /\ UNCHANGED <<service, inbox, proxy, waiting, missed, silent>>
       \/ /\ c.kind \in {"Get", "GetAll", "Set"}
          /\ \E ok \in BOOLEAN : Answer(c, ok)
       \/ /\ c.kind = "Start"
          /\ \E ok \in BOOLEAN : AnswerStart(c, ok)

(* QtDBus gives a call up after a while; the service may yet handle it.    *)
Timeout(i) ==
    LET c == calls[i] IN
    /\ c.kind \notin {"Match", "Unmatch"}
    /\ c.answer
    /\ calls' = [calls EXCEPT ![i].answer = FALSE]
    /\ waiting' = (waiting /\ ~c.block)
    /\ failed' = IF c.block /\ c.kind = "GetAll" THEN TRUE ELSE failed
    /\ inbox' = IF c.block THEN inbox
                ELSE Append(inbox, [kind |-> c.kind, ok |-> FALSE, value |-> None,
                                    from |-> None])
    /\ UNCHANGED <<service, matched, sync, valid, dbusOwner, listening, getAll,
                   heard, told, missed, silent>>

-----------------------------------------------------------------------------
(* The proxy.  A call that cannot be made yet only sets the error.         *)
Refuse == failed' = TRUE /\ UNCHANGED <<calls, getAll, waiting>>

(* startServiceProcess                                                     *)
StartServiceProcess ==
    /\ Free
    /\ IF valid THEN UNCHANGED calls ELSE Send(Call("Start", None, FALSE))
    /\ UNCHANGED <<service, matched, inbox, proxy, waiting, missed, silent>>

SetSync(s, autoStart) ==
    /\ Free
    /\ sync' = s
    /\ IF autoStart /\ ~s /\ ~valid
       THEN Send(Call("Start", None, FALSE)) ELSE UNCHANGED calls
    /\ UNCHANGED <<service, matched, inbox, valid, dbusOwner, listening, getAll,
                   waiting, failed, heard, told, missed, silent>>

GetAllPropertiesSlip ==  \* repeats the call
    /\ Free /\ valid /\ ~sync
    /\ failed' = FALSE
    /\ getAll' = TRUE
    /\ Send(Call("GetAll", None, FALSE))
    /\ UNCHANGED <<service, matched, inbox, sync, valid, dbusOwner, listening,
                   waiting, heard, told, missed, silent>>

GetAllProperties ==
    /\ Free
    /\ \/ ~valid /\ Refuse
       \/ /\ valid /\ ~sync
          /\ failed' = FALSE
          /\ getAll' = TRUE
          /\ IF getAll THEN UNCHANGED calls
             ELSE Send(Call("GetAll", None, FALSE))
          /\ UNCHANGED waiting
       \/ /\ valid /\ sync
          /\ failed' = FALSE
          /\ waiting' = TRUE
          /\ Send(Call("GetAll", None, TRUE))
          /\ UNCHANGED getAll
    /\ UNCHANGED <<service, matched, inbox, sync, valid, dbusOwner, listening,
                   heard, told, missed, silent>>

(* internalPropGet and internalPropSet of a property the proxy has (known) *)
(* or has not.                                                             *)
Prop(kind, known) ==
    /\ Free
    /\ \/ /\ sync
          /\ failed' = FALSE
          /\ waiting' = TRUE
          /\ Send(Call(kind, None, TRUE))
          /\ UNCHANGED getAll
       \/ /\ ~sync
          /\ IF valid /\ known
             THEN failed' = FALSE /\ Send(Call(kind, None, FALSE))
                                  /\ UNCHANGED <<getAll, waiting>>
             ELSE Refuse
    /\ UNCHANGED <<service, matched, inbox, sync, valid, dbusOwner, listening,
                   heard, told, missed, silent>>

(* connectNotify for the first receiver, disconnectNotify for the last.    *)
Listen ==
    /\ Free /\ ~listening
    /\ listening' = TRUE
    /\ silent' = TRUE
    /\ Send(Call("Match", None, FALSE))
    /\ UNCHANGED <<service, matched, inbox, sync, valid, dbusOwner, getAll,
                   waiting, failed, heard, told, missed>>

Unlisten ==
    /\ Free /\ listening
    /\ listening' = FALSE
    /\ heard' = Nothing /\ silent' = TRUE
    /\ Send(Call("Unmatch", None, FALSE))
    /\ UNCHANGED <<service, matched, inbox, sync, valid, dbusOwner, getAll,
                   waiting, failed, told, missed>>

-----------------------------------------------------------------------------
(* The event loop delivers a message to one of the slots.                  *)
Tell(m) == heard' = IF listening THEN [value |-> m.value, from |-> m.from] ELSE heard

(* onDBusNameOwnerChanged.  isValid is Qt's own and follows the name; the  *)
(* slot compares a process that ends with the one it has seen coming, and  *)
(* passes over a name that is given up.                                    *)
Validity(m) == CASE m.kind = "taken" -> TRUE
                 [] m.kind \in {"released", "gone"} -> FALSE
                 [] m.kind = "ended" -> valid

OnNameOwnerChangedSlip(m) ==  \* takes any process that ends for the one it knows
    /\ valid' = Validity(m)
    /\ IF m.kind = "taken" THEN dbusOwner' = m.from /\ told' = TRUE
       ELSE IF m.kind \in {"gone", "ended"} /\ dbusOwner # None
       THEN dbusOwner' = None /\ told' = FALSE
       ELSE UNCHANGED <<dbusOwner, told>>
    /\ UNCHANGED <<getAll, failed, heard>>

OnNameOwnerChanged(m) ==
    /\ valid' = Validity(m)
    /\ IF m.kind = "taken" THEN dbusOwner' = m.from /\ told' = TRUE
       ELSE IF m.kind \in {"gone", "ended"} /\ m.from = dbusOwner
       THEN dbusOwner' = None /\ told' = FALSE
       ELSE UNCHANGED <<dbusOwner, told>>
    /\ UNCHANGED <<getAll, failed, heard>>

OnPropertiesChangedSlip(m) ==  \* leaves it to a GetAll under way
    /\ IF getAll THEN UNCHANGED heard ELSE Tell(m)
    /\ UNCHANGED <<valid, dbusOwner, told, getAll, failed>>

OnPropertiesChanged(m) == Tell(m) /\ UNCHANGED <<valid, dbusOwner, told, getAll, failed>>

OnAsyncPropertyFinished(m) ==
    /\ failed' = ~m.ok
    /\ IF m.ok THEN Tell(m) ELSE UNCHANGED heard
    /\ UNCHANGED <<valid, dbusOwner, told, getAll>>

OnAsyncSetPropertyFinished(m) == OnAsyncPropertyFinished(m)

OnAsyncGetAllPropertiesFinishedSlip(m) ==  \* forgets the watcher on success only
    /\ getAll' = (getAll /\ ~m.ok)
    /\ failed' = ~m.ok
    /\ IF m.ok THEN Tell(m) ELSE UNCHANGED heard
    /\ UNCHANGED <<valid, dbusOwner, told>>

OnAsyncGetAllPropertiesFinished(m) ==
    /\ getAll' = FALSE
    /\ failed' = ~m.ok
    /\ IF m.ok THEN Tell(m) ELSE UNCHANGED heard
    /\ UNCHANGED <<valid, dbusOwner, told>>

OnStartServiceProcessFinished(m) ==
    /\ failed' = ~m.ok
    /\ UNCHANGED <<valid, dbusOwner, told, getAll, heard>>

Deliver ==
    /\ inbox # <<>> /\ ~waiting
    /\ inbox' = Tail(inbox)
    /\ LET m == Head(inbox) IN
       \/ m.kind \in {"taken", "released", "gone", "ended"} /\ OnNameOwnerChanged(m)
       \/ m.kind = "props" /\ OnPropertiesChanged(m)
       \/ m.kind = "Get" /\ OnAsyncPropertyFinished(m)
       \/ m.kind = "Set" /\ OnAsyncSetPropertyFinished(m)
       \/ m.kind = "GetAll" /\ OnAsyncGetAllPropertiesFinished(m)
       \/ m.kind = "Start" /\ OnStartServiceProcessFinished(m)
    /\ UNCHANGED <<service, matched, calls, sync, listening, waiting, missed, silent>>

-----------------------------------------------------------------------------
Init ==
    /\ \/ owner = None /\ owners = 0 /\ last = 0 /\ prop = None
       \/ owner = 1 /\ owners = 1 /\ last = 1 /\ prop = 1
    /\ valid = (owner # None) /\ lingering = {} /\ silent = TRUE /\ quiet = TRUE
    /\ matched = FALSE
    /\ calls = <<>>
    /\ inbox = <<>>
    /\ sync = TRUE
    /\ dbusOwner = None
    /\ listening = FALSE
    /\ getAll = FALSE
    /\ waiting = FALSE
    /\ failed = FALSE
    /\ heard = Nothing
    /\ told = None
    /\ missed = FALSE

Next ==
    \/ Appear \/ Replace \/ Vanish \/ Release
    \/ \E p \in lingering : End(p)
    \/ \E v \in {None, last + 1} : Change(v)
    \/ Handle \/ Deliver
    \/ \E i \in DOMAIN calls : Timeout(i)
    \/ StartServiceProcess \/ GetAllProperties \/ Listen \/ Unlisten
    \/ \E s, a \in BOOLEAN : SetSync(s, a)
    \/ \E kind \in {"Get", "Set"}, known \in BOOLEAN : Prop(kind, known)

(* The bus answers every call, with an error if the service does not, and  *)
(* the application returns to its event loop again and again, however many *)
(* blocking calls it makes.                                                *)
Spec == Init /\ [][Next]_vars /\ WF_vars(Handle) /\ SF_vars(Deliver)

-----------------------------------------------------------------------------
Values == 1..MaxValue \cup {None}
Owners == 1..MaxOwner \cup {None}

(* Calls of GetAll in asynchronous mode that wait, and answers to them.    *)
GetAllCalls ==
    {i \in DOMAIN calls : calls[i].kind = "GetAll" /\ calls[i].answer /\ ~calls[i].block}
GetAllAnswers == {i \in DOMAIN inbox : inbox[i].kind = "GetAll"}

(* Every variable has its type; the property has a value while there is a  *)
(* service; at most one GetAll of asynchronous mode is under way, exactly  *)
(* while its watcher is kept.                                              *)
TypeOK ==
    /\ owner \in Owners /\ prop \in Values /\ (owner = None <=> prop = None)
    /\ owners \in 0..MaxOwner /\ last \in 0..MaxValue
    /\ {matched, sync, valid, listening, getAll, waiting, failed, missed,
        silent, quiet} \subseteq BOOLEAN
    /\ lingering \subseteq Owners \ {None, owner}
    /\ \A i \in DOMAIN calls : calls[i].value = None
    /\ \A i \in DOMAIN inbox : inbox[i].from \in Owners /\ inbox[i].value \in Values
    /\ dbusOwner \in Owners
    /\ heard \in [value : Values, from : Owners]
    /\ told \in BOOLEAN \cup {None}
    /\ getAll = (GetAllCalls # {} \/ GetAllAnswers # {})
    /\ GetAllCalls = {} \/ GetAllAnswers = {}
    /\ \A i, j \in GetAllCalls : i = j
    /\ \A i, j \in GetAllAnswers : i = j

(* Once everything is delivered, and from whatever the receivers learned,  *)
(* signals, answers of Get, Set and GetAll, or past a queue of signals:    *)
(* what they have of the owner is its present value, or they know that     *)
(* theirs is invalid, unless it changed while nobody was subscribed; what  *)
(* they have is the owner's if it has sent them any; and if they are left  *)
(* with the value of an earlier process, they were told of the new one     *)
(* since, so that they can ask, unless that took the name over.            *)
HeardIsCurrent ==
    inbox = <<>> /\ owner # None =>
        /\ heard.from = owner /\ ~missed => heard.value \in {prop, None}
        /\ listening /\ ~silent => heard.from = owner
        /\ heard.from \notin {owner, None} /\ ~quiet => told = TRUE /\ dbusOwner = owner

(* Once everything is delivered, serviceValidChanged has told of an owner  *)
(* that took the free name, and of the end of every process it told of:    *)
(* one that gave up the name counts until it ends, and one that took it    *)
(* over or was there before the proxy is not told of.                      *)
ToldIsRight ==
    inbox = <<>> =>
        /\ owner # None /\ ~quiet => told = TRUE
        /\ told = TRUE => dbusOwner \in lingering \cup {owner} /\ dbusOwner # None

(* A GetAll of asynchronous mode finishes, with or without a service, so   *)
(* the next one is not taken for a repetition forever.                     *)
GetAllFinishes == getAll ~> ~getAll
=============================================================================
