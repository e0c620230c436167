------------------------------- MODULE MCThreads -------------------------------
(* The parts of the library that hand work from one thread to another, for  *)
(* TLC.  They share nothing, so one is chosen in the initial state and the  *)
(* others rest in theirs.                                                   *)
EXTENDS Integers, Sequences, TLC

CONSTANTS Workers, MorePosts, MaxWaits, Callers, Contexts, MaxCalls,
          Keys, Values, Original, MaxSets, MaxExecs, None

VARIABLES
    active,
    status, todo, worker, mutex, fresh, carried, results, signals, blocking,
    asleep, handled, posts, waits, cancelled,
    looping, threadContext, objects, call, events, alive, outcome, begun,
    m_status, m_config, data, user, p, propertySet, saved, linked, setting,
    initLeft, configEvents, userEvents, changed, freed,
    main, execs, timed, quit, timers, waiting, asked

asyncVars == <<status, todo, worker, mutex, fresh, carried, results, signals,
               blocking, asleep, handled, posts, waits, cancelled>>
callVars == <<looping, threadContext, objects, call, events, alive, outcome, begun>>
prefVars == <<m_status, m_config, data, user, p, propertySet, saved, linked, setting,
              initLeft, configEvents, userEvents, changed, freed>>
loopVars == <<main, execs, timed, quit, timers, waiting, asked>>
vars == <<active, asyncVars, callVars, prefVars, loopVars>>

(* Several workers, and one whose owner waits.                              *)
Async      == INSTANCE DAsync WITH MaxPosts <- MorePosts, MaxWaits <- 0
AsyncWait  == INSTANCE DAsync WITH MaxPosts <- MorePosts
Calls      == INSTANCE DThreadUtils
Preference == INSTANCE DConfigPreference
Loop       == INSTANCE DTimedLoop

ASSUME MCThreadsAssumption ==
    /\ Async!DAsyncAssumption /\ AsyncWait!DAsyncAssumption /\ Calls!DThreadUtilsAssumption
    /\ Preference!DConfigPreferenceAssumption /\ Loop!DTimedLoopAssumption

AsyncParts == {"async", "asyncwait", "asyncvoid"}

Rest ==
    /\ UNCHANGED active
    /\ active \notin AsyncParts => UNCHANGED asyncVars
    /\ active # "calls" => UNCHANGED callVars
    /\ active # "preference" => UNCHANGED prefVars
    /\ active # "loop" => UNCHANGED loopVars
In(part, A) == active = part /\ A /\ Rest
InAsync(A)  == active \in AsyncParts /\ A /\ Rest

Init ==
    /\ Async!Init /\ Calls!Init /\ Preference!Init /\ Loop!Init
    /\ active \in AsyncParts \cup {"calls", "preference", "loop"}
    /\ active \notin AsyncParts => ~blocking
    /\ active # "preference" => saved = [k \in Keys |-> None]

(* An owner that cancels, waits or posts functions has one worker.          *)
OneWorker == \E w \in Workers : \A o \in Workers \ {w} : worker'[o] = "none"

Next ==
    \/ In("async", Async!Next /\ (OneWorker \/ ~cancelled'))
    \/ In("asyncwait", AsyncWait!Next /\ OneWorker)
    \/ In("asyncvoid", Async!VoidNext /\ OneWorker)
    \/ In("calls", Calls!Next)
    \/ In("preference", Preference!Next)
    \/ In("loop", Loop!Next)

(* Of the parts only one goes on, so that one condition can stand for the   *)
(* fair steps of several.  Any timer, and any thread that waits in exit,    *)
(* will do.                                                                 *)
Fair ==
    /\ WF_vars(\/ InAsync(AsyncWait!Step(AsyncWait!Owner))
               \/ In("calls", Calls!RunEvent)
               \/ In("preference", Preference!UserStep)
               \/ In("loop", Loop!Return))
    /\ WF_vars(\/ InAsync(AsyncWait!SlotRunInMain)
               \/ In("preference", Preference!ConfigStep)
               \/ In("loop", \E i \in timers : Loop!InExec(Loop!TimerFires(i))))
    /\ WF_vars(In("loop", \E c \in Callers : Loop!InExec(Loop!RunExit(c))))
    /\ \A w \in Workers : SF_vars(IF active = "asyncvoid" THEN In("asyncvoid", Async!VoidStep(w))
                              ELSE InAsync(AsyncWait!WorkerStep(w)))

Spec == Init /\ [][Next]_vars /\ Fair

(* A part that rests stays in its initial state.                            *)
Of(parts, P) == active \in parts => P

(* Every part is well typed.                                                *)
TypeOK ==
    /\ Of(AsyncParts, Async!TypeOK)
    /\ Of({"calls"}, Calls!TypeOK)
    /\ Of({"preference"}, Preference!TypeOK)
    /\ Of({"loop"}, Loop!TypeOK)
(* Results are handled once each and in order.                              *)
HandledInOrder ==
    /\ Of({"async", "asyncwait"}, Async!HandledInOrder)
    /\ Of({"asyncvoid"}, Async!RunOnce)
(* Work that is handed to another thread is done: data posted to a worker   *)
(* are handled, and so is the last function posted to one without input,    *)
(* exec of another thread's work returns while that runs its loop, and a    *)
(* timed loop ends when it is told to.                                      *)
PostedWorkIsDone == AsyncWait!DataHandled /\ Calls!ExecReturns /\ Loop!ExecEnds
(* waitForFinished returns once the work is cancelled.                      *)
WaitReturns == AsyncWait!WaitReturns
(* Copies of configuration values that another thread fills are right in    *)
(* the end.                                                                 *)
CopiesSettle == Of({"preference"}, Preference!CopiesSettle)
(* A configuration object frees all it has.                                 *)
AllFreed == Preference!AllFreed
=============================================================================
