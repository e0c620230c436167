------------------------------ MODULE DTimedLoop ------------------------------
(***************************************************************************)
(* DTimedLoop (src/util/dtimedloop.cpp, built before DTK 6): an event loop *)
(* of the main thread that a timer or exit ends.  exit hands itself to the *)
(* main thread and waits until that has run it (DThreadUtil::              *)
(* runInMainThread), so that a thread that is early cannot end a loop that *)
(* has not begun.                                                          *)
(*                                                                         *)
(* How long timers take is left open.  The timer of an exec is not taken   *)
(* back when exit ends it.                                                 *)
(***************************************************************************)
EXTENDS Integers

CONSTANTS
    Callers,  \* other threads
    MaxExecs  \* bound: calls of exec

DTimedLoopAssumption == MaxExecs \in Nat

VARIABLES
    main,     \* "busy", "loop": in another event loop, "exec": in this one
    execs,    \* number of calls of exec
    timed,    \* the exec that goes on has a duration
    quit,     \* QEventLoop: exit was called since exec began
    timers,   \* calls of exec whose timer has not fired
    waiting,  \* threads that wait in exit
    asked     \* history: an exit that was not handled outside exec is to end it

loopVars == <<main, execs, timed, quit, timers, waiting, asked>>

Handles == main \in {"loop", "exec"}

-----------------------------------------------------------------------------
(* exec, all four: the timer is started first.                             *)
Exec(withTime) ==
    /\ main # "exec" /\ execs < MaxExecs
    /\ main' = "exec" /\ timed' = withTime
    /\ execs' = execs + 1
    /\ quit' = FALSE
    /\ timers' = IF withTime THEN timers \cup {execs'} ELSE timers
    /\ UNCHANGED <<waiting, asked>>

(* Called again while it runs it returns at once, but its timer stays.     *)
ExecAgain(withTime) ==
    /\ main = "exec" /\ execs < MaxExecs
    /\ execs' = execs + 1
    /\ timers' = IF withTime THEN timers \cup {execs'} ELSE timers
    /\ UNCHANGED <<main, timed, quit, waiting, asked>>

TimerFires(i) ==
    /\ Handles /\ i \in timers
    /\ timers' = timers \ {i}
    /\ quit' = TRUE
    /\ UNCHANGED <<main, execs, timed, waiting, asked>>

(* exit is run by the thread that calls it.                                *)
ExitSlip(c) ==
    /\ c \notin waiting
    /\ quit' = TRUE /\ asked' = TRUE
    /\ UNCHANGED <<main, execs, timed, timers, waiting>>

(* exit in another thread, and proxyCall, which waits for the main thread. *)
Exit(c) ==
    /\ c \notin waiting
    /\ waiting' = waiting \cup {c}
    /\ asked' = TRUE
    /\ UNCHANGED <<main, execs, timed, quit, timers>>

ExitInMain ==
    /\ main = "exec"
    /\ quit' = TRUE
    /\ UNCHANGED <<main, execs, timed, timers, waiting, asked>>

(* The main thread comes to the call; outside exec it has no effect.       *)
RunExit(c) ==
    /\ Handles /\ c \in waiting
    /\ waiting' = waiting \ {c}
    /\ quit' = TRUE
    /\ asked' = (main = "exec" \/ waiting' # {})
    /\ UNCHANGED <<main, execs, timed, timers>>

Return ==
    /\ main = "exec" /\ quit
    /\ main' \in {"busy", "loop"}
    /\ asked' = (waiting # {})
    /\ UNCHANGED <<execs, timed, quit, timers, waiting>>

(* Event handlers of another loop run and return; or there is no other.    *)
Handler ==
    /\ main \in {"busy", "loop"}
    /\ main' \in {"busy", "loop"} \ {main}
    /\ UNCHANGED <<execs, timed, quit, timers, waiting, asked>>

-----------------------------------------------------------------------------
Init ==
    /\ main = "busy" /\ execs = 0 /\ timed = FALSE /\ quit = FALSE
    /\ timers = {} /\ waiting = {} /\ asked = FALSE

Next ==
    \/ \E withTime \in BOOLEAN : Exec(withTime) \/ ExecAgain(withTime)
    \/ \E i \in timers : TimerFires(i)
    \/ \E c \in Callers : Exit(c) \/ RunExit(c)
    \/ ExitInMain \/ Return \/ Handler

(* While the loop runs, the main thread handles what is posted to it, and  *)
(* timers fire.                                                            *)
InExec(A) == main = "exec" /\ A

Fairness ==
    /\ WF_loopVars(Return)
    /\ \A i \in 1 .. MaxExecs : WF_loopVars(InExec(TimerFires(i)))
    /\ \A c \in Callers : WF_loopVars(InExec(RunExit(c)))

Spec == Init /\ [][Next]_loopVars /\ Fairness

-----------------------------------------------------------------------------
(* Threads that wait are going to be handled.                              *)
TypeOK ==
    /\ main \in {"busy", "loop", "exec"}
    /\ timers \subseteq 1 .. execs
    /\ waiting \subseteq Callers /\ (waiting # {} => asked)

(* exec ends when its time is over and when exit is called (comment at     *)
(* dtimedloop.h:32), also by a thread that calls exit just before it       *)
(* begins: unless another loop of the main thread has taken that call.     *)
ExecEnds == (main = "exec" /\ (timed \/ asked)) ~> main # "exec"
=============================================================================
