---------------------------- MODULE DThreadUtils ----------------------------
(***************************************************************************)
(* DThreadUtils (include/util/dthreadutils.h): run posts a function to a   *)
(* thread, exec waits for its result.  The functions are events of one     *)
(* Caller object that lives in the thread and is made by the first call;   *)
(* calls that come at the same time each make one, and a compare and swap  *)
(* decides which stays.                                                    *)
(***************************************************************************)
EXTENDS Integers, Sequences

CONSTANTS
    Callers,   \* threads that call
    Contexts,  \* objects a call can depend on
    MaxCalls,  \* bound: calls
    None

DThreadUtilsAssumption == MaxCalls \in Nat /\ None \notin Callers \cup Contexts

VARIABLES
    looping,        \* the thread runs its event loop
    threadContext,  \* the Caller that stayed, named after the thread that made it
    objects,        \* Callers that exist
    call,           \* call[c]: [at, context, exec]
    events,         \* events posted to the thread
    alive,          \* contexts that exist
    outcome,        \* outcome[c]: the last answer to c since its last call
    begun           \* number of calls

threadVars == <<looping, threadContext, objects, call, events, alive, outcome, begun>>

At(c, where) == call' = [call EXCEPT ![c].at = where]

(* run and exec; ensureThreadContextObject finds no Caller and makes one.  *)
Begin(c, context, exec) ==
    /\ call[c].at = "idle" /\ begun < MaxCalls
    /\ context \in alive \cup {None}
    /\ begun' = begun + 1
    /\ call' = [call EXCEPT ![c] = [at |-> IF threadContext = None THEN "swap" ELSE "post",
                                    context |-> context, exec |-> exec]]
    /\ objects' = IF threadContext = None THEN objects \cup {c} ELSE objects
    /\ UNCHANGED <<looping, threadContext, events, alive, outcome>>

(* Who comes second stores its Caller as well.                             *)
SwapSlip(c) ==
    /\ call[c].at = "swap"
    /\ threadContext' = c
    /\ At(c, "post")
    /\ UNCHANGED <<objects, looping, events, alive, outcome, begun>>

(* testAndSetRelaxed: who comes second deletes its own.                    *)
Swap(c) ==
    /\ call[c].at = "swap"
    /\ IF threadContext = None
       THEN threadContext' = c /\ UNCHANGED objects
       ELSE objects' = objects \ {c} /\ UNCHANGED threadContext
    /\ At(c, "post")
    /\ UNCHANGED <<looping, events, alive, outcome, begun>>

(* call: the event is posted to the Caller that stayed.                    *)
Post(c) ==
    /\ call[c].at = "post"
    /\ events' = Append(events, [from |-> c, to |-> threadContext,
                                 context |-> call[c].context, exec |-> call[c].exec])
    /\ outcome' = [outcome EXCEPT ![c] = "none"]
    /\ At(c, IF call[c].exec THEN "waiting" ELSE "idle")
    /\ UNCHANGED <<looping, threadContext, objects, alive, begun>>

(* Events of an object that is deleted are dropped.                        *)
Answer(c, what) == outcome' = [outcome EXCEPT ![c] = what]

(* CallEvent::call, from the loop of the thread; exec waits for the answer *)
(* to its own event.                                                       *)
RunEvent ==
    LET event == Head(events) IN
    /\ looping /\ events # <<>>
    /\ events' = Tail(events)
    /\ IF event.to \notin objects THEN UNCHANGED <<outcome, call>>
       ELSE /\ Answer(event.from, IF event.context \in alive \cup {None}
                                  THEN "result" ELSE "exception")
            /\ At(event.from, IF event.exec THEN "idle" ELSE call[event.from].at)
    /\ UNCHANGED <<looping, threadContext, objects, alive, begun>>

DestroyContext(k) ==
    /\ k \in alive
    /\ alive' = alive \ {k}
    /\ UNCHANGED <<looping, threadContext, objects, call, events, outcome, begun>>

(* The thread quits its loop and may enter it again.                       *)
Loop(on) ==
    /\ looping # on
    /\ looping' = on
    /\ UNCHANGED <<threadContext, objects, call, events, alive, outcome, begun>>

(* The destructor, when no call is on its way to the queue: the events of  *)
(* the Caller go with it, their futures are cancelled and waiting ends.    *)
Destroy ==
    /\ \A c \in Callers : call[c].at \notin {"swap", "post"}
    /\ threadContext # None
    /\ threadContext' = None
    /\ objects' = objects \ {threadContext}
    /\ events' = <<>>
    /\ begun' = MaxCalls
    /\ outcome' = [c \in Callers |->
                     IF \E i \in DOMAIN events : events[i].from = c THEN "cancelled" ELSE outcome[c]]
    /\ call' = [c \in Callers |-> [call[c] EXCEPT !.at = "idle"]]
    /\ UNCHANGED <<looping, alive>>

-----------------------------------------------------------------------------
Init ==
    /\ looping = TRUE
    /\ threadContext = None /\ objects = {} /\ events = <<>>
    /\ call = [c \in Callers |-> [at |-> "idle", context |-> None, exec |-> FALSE]]
    /\ alive = Contexts
    /\ outcome = [c \in Callers |-> "none"]
    /\ begun = 0

Next ==
    \/ \E c \in Callers :
          \/ \E k \in Contexts \cup {None}, exec \in BOOLEAN : Begin(c, k, exec)
          \/ Swap(c)
          \/ Post(c)
    \/ RunEvent
    \/ \E k \in Contexts : DestroyContext(k)
    \/ \E on \in BOOLEAN : Loop(on)
    \/ Destroy

Spec == Init /\ [][Next]_threadVars /\ WF_threadVars(RunEvent)

-----------------------------------------------------------------------------
(* A thread that has called waits with its event in the queue.  One Caller *)
(* is left when no call is in between, and it is the one in use.           *)
TypeOK ==
    /\ \A c \in Callers : call[c].at \in {"idle", "swap", "post", "waiting"}
    /\ \A c \in Callers : call[c].at = "waiting" =>
          \E i \in DOMAIN events : events[i].from = c /\ events[i].exec
    /\ (\A c \in Callers : call[c].at # "swap") => objects = {threadContext} \ {None}

(* exec returns (dthreadutils.h, exec and ensureThreadContextObject in     *)
(* dthreadutils.cpp): if the thread keeps running its loop, a call that    *)
(* waits gets its answer, also when calls of several threads raced to make *)
(* the Caller and contexts died in between.                                *)
ExecReturns ==
    <>[]looping => \A c \in Callers : call[c].at = "waiting" ~> call[c].at # "waiting"
=============================================================================
