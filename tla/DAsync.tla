------------------------------- MODULE DAsync -------------------------------
(***************************************************************************)
(* DAsync (include/util/dasync.h): an owner posts data, a detached worker  *)
(* thread turns each into a result, and the main thread hands the results  *)
(* to the function given to then.                                          *)
(*                                                                         *)
(* The flags of m_status are read, changed and written back by owner and   *)
(* workers without a lock, so a change is two steps here and can undo      *)
(* another thread's.  A worker's wait for data ends after 200 ms by        *)
(* itself: notifications of m_cvIn only make it shorter and are left out.  *)
(* A DAsync with input of type void goes by VoidNext.  Not modelled: the    *)
(* destructor running while a worker does.                                 *)
(***************************************************************************)
EXTENDS Integers, Sequences

CONSTANTS
    Workers,   \* threads startUp can start
    MaxPosts,  \* bound: data posted
    MaxWaits,  \* bound: calls of waitForFinished
    None

DAsyncAssumption == MaxPosts \in Nat /\ MaxWaits \in Nat /\ None \notin Workers

VARIABLES
    status,    \* m_status
    todo,      \* todo[t]: what thread t has still to do of a call
    worker,    \* worker[w]: where the worker is
    mutex,     \* who holds m_mtxIn
    fresh,     \* m_QueueIn
    carried,   \* what the worker inside m_mtxIn has taken and not yet put into m_QueueOut
    results,   \* m_QueueOut
    signals,   \* calls of slotRunInMain under way to the main thread
    blocking,  \* made outside the main thread: the worker waits for the slot
    asleep,    \* the owner waits for m_cvForWaitTask
    handled,   \* history: what then received
    posts, waits, cancelled  \* history

asyncVars == <<status, todo, worker, mutex, fresh, carried, results, signals,
               blocking, asleep, handled, posts, waits, cancelled>>

Owner   == "owner"
Threads == Workers \cup {Owner}
Pending == {"Ready", "Running"}

(* setFlag(flags) and setFlag(flags, false)                                *)
SetFlag(flags)   == [do |-> "set", flags |-> flags]
ClearFlag(flags) == [do |-> "clear", flags |-> flags]
Store(flags)     == [do |-> "store", flags |-> flags]
Do(what)         == [do |-> what, flags |-> {}]

Idle(t) == todo[t] = <<>>

(* One step of what is left of a call.                                     *)
Step(t) ==
    LET now  == Head(todo[t])
        rest == Tail(todo[t])
        Then(s) == todo' = [todo EXCEPT ![t] = s]
    IN
    /\ ~Idle(t)
    /\ ~(t = Owner /\ asleep)
    /\ \/ /\ now.do = "set" /\ Then(<<Store(status \cup now.flags)>> \o rest)
          /\ UNCHANGED <<status, asleep>>
       \/ /\ now.do = "clear" /\ Then(<<Store(status \ now.flags)>> \o rest)
          /\ UNCHANGED <<status, asleep>>
       \/ /\ now.do = "store" /\ Then(rest)
          /\ status' = now.flags
          /\ UNCHANGED asleep
       \* waitForFinished
       \/ /\ now.do = "test"
          /\ Then(IF "Finished" \in status THEN rest
                  ELSE <<SetFlag({"WaitFinished"}), Do("wait")>> \o rest)
          /\ UNCHANGED <<status, asleep>>
       \/ /\ now.do = "wait" /\ Then(rest)
          /\ asleep' = TRUE
          /\ UNCHANGED status
       \* ~Guard
       \/ /\ now.do = "notify" /\ Then(rest)
          /\ asleep' = (asleep /\ "WaitFinished" \notin status)
          /\ UNCHANGED status
    /\ UNCHANGED <<worker, mutex, fresh, carried, results, signals, blocking,
                   handled, posts, waits, cancelled>>

-----------------------------------------------------------------------------
(* Calls of the owner.                                                     *)
Call(steps) == todo' = [todo EXCEPT ![Owner] = steps]

Free == Idle(Owner) /\ ~asleep

(* startUp and Helper::start; called again it starts another worker.       *)
StartUp(w) ==
    /\ Free /\ worker[w] = "none"
    /\ "Cancel" \notin status
    /\ worker' = [worker EXCEPT ![w] = "start"]
    /\ Call(<<SetFlag({"Ready"})>>)
    /\ UNCHANGED <<status, mutex, fresh, carried, results, signals, blocking,
                   asleep, handled, posts, waits, cancelled>>

PostData ==
    /\ Free /\ posts < MaxPosts
    /\ "Cancel" \notin status
    /\ posts' = posts + 1
    /\ fresh' = Append(fresh, posts + 1)
    /\ UNCHANGED <<status, todo, worker, mutex, carried, results, signals,
                   blocking, asleep, handled, waits, cancelled>>

CancelAll ==
    /\ Free /\ ~cancelled
    /\ cancelled' = TRUE
    /\ Call(<<SetFlag({"Cancel"})>>)
    /\ UNCHANGED <<status, worker, mutex, fresh, carried, results, signals,
                   blocking, asleep, handled, posts, waits>>

WaitForFinished(cancelAllWorks) ==
    /\ Free /\ waits < MaxWaits
    /\ waits' = waits + 1
    /\ cancelled' = (cancelled \/ cancelAllWorks)
    /\ Call(IF cancelAllWorks THEN <<SetFlag({"Cancel"}), Do("test")>> ELSE <<Do("test")>>)
    /\ UNCHANGED <<status, worker, mutex, fresh, carried, results, signals,
                   blocking, asleep, handled, posts>>

-----------------------------------------------------------------------------
(* The worker thread.                                                      *)
Move(w, to, steps) ==
    /\ worker' = [worker EXCEPT ![w] = to]
    /\ todo' = [todo EXCEPT ![w] = steps]

Begin(w) ==
    /\ worker[w] = "start"
    /\ IF "Cancel" \in status THEN Move(w, "done", <<>>)
       ELSE Move(w, "lock", <<SetFlag({"Ready"}), ClearFlag({"Finished"})>>)
    /\ UNCHANGED <<mutex, fresh, carried, results, signals>>

Lock(w) ==
    /\ worker[w] = "lock" /\ mutex = None
    /\ mutex' = w
    /\ Move(w, "check", <<>>)
    /\ UNCHANGED <<fresh, carried, results, signals>>

(* setPending sets and clears both flags of Pending.                       *)
SetPending(isPending) == IF isPending THEN SetFlag(Pending) ELSE ClearFlag(Pending)

Check(w) ==
    /\ worker[w] = "check"
    /\ IF "Ready" \notin status \/ fresh = <<>> THEN Move(w, "sleep", <<SetPending(TRUE)>>)
       ELSE Move(w, "work", <<SetPending(FALSE)>>)
    /\ UNCHANGED <<mutex, fresh, carried, results, signals>>

Sleep(w) ==
    /\ worker[w] = "sleep"
    /\ mutex' = None
    /\ Move(w, "wake", <<>>)
    /\ UNCHANGED <<fresh, carried, results, signals>>

Wake(w) ==
    /\ worker[w] = "wake" /\ mutex = None
    /\ IF "Cancel" \in status
       THEN /\ Move(w, "done", <<SetFlag({"Finished"}), ClearFlag({"Ready"}),
                                 Do("notify"), SetPending(FALSE)>>)
            /\ UNCHANGED mutex
       ELSE /\ Move(w, "check", <<>>)
            /\ mutex' = w
    /\ UNCHANGED <<fresh, carried, results, signals>>

(* emitHelper, until the queue is empty: the next datum is taken, the      *)
(* function runs on it, its result is put behind the others and signalled. *)
Take(w) ==
    /\ worker[w] = "work"
    /\ blocking => signals = 0
    /\ IF fresh = <<>> THEN Move(w, "check", <<>>) /\ UNCHANGED <<fresh, carried>>
       ELSE /\ carried' = <<Head(fresh)>>
            /\ fresh' = Tail(fresh)
            /\ Move(w, "call", <<>>)
    /\ UNCHANGED <<mutex, results, signals>>

Deliver(w) ==
    /\ worker[w] = "call"
    /\ results' = results \o carried
    /\ carried' = <<>>
    /\ Move(w, "signal", <<>>)
    /\ UNCHANGED <<mutex, fresh, signals>>

Emit(w, then) ==
    /\ worker[w] = "signal"
    /\ signals' = signals + 1
    /\ Move(w, then, <<>>)
    /\ UNCHANGED <<mutex, fresh, carried, results>>

Run(w) ==
    /\ Idle(w)
    /\ \/ Begin(w) \/ Lock(w) \/ Check(w) \/ Sleep(w) \/ Wake(w)
       \/ Take(w) \/ Deliver(w) \/ Emit(w, "work")
    /\ UNCHANGED <<status, blocking, asleep, handled, posts, waits, cancelled>>

(* slotRunInMain takes a reference to the results and leaves them there.   *)
SlotRunInMainSlip ==
    /\ signals > 0
    /\ signals' = signals - 1
    /\ handled' = handled \o results
    /\ UNCHANGED <<results, status, todo, worker, mutex, fresh, carried, blocking,
                   asleep, posts, waits, cancelled>>

(* The main thread comes to slotRunInMain, which takes all there is.       *)
SlotRunInMain ==
    /\ signals > 0
    /\ signals' = signals - 1
    /\ handled' = handled \o results
    /\ results' = <<>>
    /\ UNCHANGED <<status, todo, worker, mutex, fresh, carried, blocking, asleep,
                   posts, waits, cancelled>>

-----------------------------------------------------------------------------
Init ==
    /\ status = {}
    /\ todo = [t \in Threads |-> <<>>]
    /\ worker = [w \in Workers |-> "none"]
    /\ mutex = None
    /\ fresh = <<>> /\ carried = <<>> /\ results = <<>> /\ signals = 0 /\ handled = <<>>
    /\ blocking \in BOOLEAN
    /\ asleep = FALSE
    /\ posts = 0 /\ waits = 0 /\ cancelled = FALSE

Next ==
    \/ \E t \in Threads : Step(t)
    \/ \E w \in Workers : StartUp(w) \/ Run(w)
    \/ PostData \/ CancelAll
    \/ \E cancelAllWorks \in BOOLEAN : WaitForFinished(cancelAllWorks)
    \/ SlotRunInMain

WorkerStep(w) == Step(w) \/ Run(w)

(* Threads that can run do run; of those that want the mutex every one     *)
(* gets it now and then.                                                   *)
Fairness ==
    /\ WF_asyncVars(Step(Owner))
    /\ WF_asyncVars(SlotRunInMain)
    /\ \A w \in Workers : SF_asyncVars(WorkerStep(w))

Spec == Init /\ [][Next]_asyncVars /\ Fairness

-----------------------------------------------------------------------------
(* Flags are flags, and one worker at most is past the lock.               *)
TypeOK ==
    /\ status \subseteq {"Ready", "Running", "Cancel", "WaitFinished", "Finished"}
    /\ mutex \in Workers \cup {None}
    /\ \A w \in Workers :
          worker[w] \in {"check", "sleep", "work", "call", "signal", "emit"} <=> mutex = w
    /\ signals \in Nat

(* then receives each result once and in the order the data were posted    *)
(* (m_QueueIn to m_QueueOut, dasync.h), with any number of workers and     *)
(* signals under way, and the main thread and the owner taking and posting *)
(* while a worker is between the one queue and the other.                  *)
HandledInOrder == handled \o results \o carried \o fresh = [i \in 1 .. posts |-> i]

(* Data posted to a DAsync that was started are handled in the end, unless *)
(* it is cancelled (post, dasync.h), whichever changes of the flags are    *)
(* lost.                                                                   *)
Started == \E w \in Workers : worker[w] # "none"
DataHandled ==
    \A k \in 1 .. MaxPosts :
        (Started /\ posts = k) ~> (cancelled \/ \E i \in DOMAIN handled : handled[i] >= k)

(* waitForFinished returns once the work is cancelled (comment at          *)
(* dasync.h:357).                                                          *)
WaitReturns == (Started /\ cancelled /\ asleep) ~> ~asleep
-----------------------------------------------------------------------------
(* DAsync with no input: the owner posts functions instead of data, and    *)
(* the worker runs each once.  There is room for one: a function posted    *)
(* before the last one was run takes its place.  Here fresh is that room,  *)
(* m_func, and functions have the numbers of their posts.                  *)
(*                                                                         *)
(* The worker holds m_mtxFunc from before the call until after the signal  *)
(* with the result, so that a post waits meanwhile.  A worker that has     *)
(* slept does not look whether it is ready.                                *)

(* m_mtxFunc is held.                                                      *)
FuncLocked == \E w \in Workers : worker[w] \in {"call", "signal", "emit"}

(* post, the first time or with a worker running.                          *)
Post ==
    /\ Free /\ posts < MaxPosts
    /\ ~FuncLocked
    /\ posts' = posts + 1
    /\ fresh' = <<posts + 1>>
    /\ UNCHANGED <<status, todo, worker, mutex, carried, results, signals,
                   blocking, asleep, handled, waits, cancelled>>

(* Helper::start(FALSE): a worker all the same, but not ready.             *)
StartDeferred(w) ==
    /\ Free /\ worker[w] = "none" /\ posts > 0
    /\ worker' = [worker EXCEPT ![w] = "start"]
    /\ Call(<<ClearFlag({"Ready"})>>)
    /\ UNCHANGED <<status, mutex, fresh, carried, results, signals, blocking,
                   asleep, handled, posts, waits, cancelled>>

-----------------------------------------------------------------------------
CheckReady(w) ==
    /\ worker[w] = "check"
    /\ IF "Ready" \in status THEN Move(w, "work", <<SetPending(FALSE)>>)
       ELSE Move(w, "sleep", <<SetPending(TRUE)>>)
    /\ UNCHANGED <<mutex, fresh, carried, results, signals>>

WakeUp(w) ==
    /\ worker[w] = "wake" /\ mutex = None
    /\ IF "Cancel" \in status
       THEN /\ Move(w, "done", <<SetFlag({"Finished"}), ClearFlag({"Ready"}),
                                 Do("notify"), SetPending(FALSE)>>)
            /\ UNCHANGED mutex
       ELSE /\ Move(w, "work", <<SetPending(FALSE)>>)
            /\ mutex' = w
    /\ UNCHANGED <<fresh, carried, results, signals>>

(* The function that is there is run.                                      *)
CallFunc(w) ==
    /\ worker[w] = "work"
    /\ IF fresh = <<>> THEN Move(w, "check", <<>>) /\ UNCHANGED carried
       ELSE /\ ~FuncLocked
            /\ carried' = fresh
            /\ Move(w, "call", <<>>)
    /\ UNCHANGED <<mutex, fresh, results, signals>>

(* The function is taken away once the signal is sent, or handled if the   *)
(* worker waits for that.                                                  *)
ResetFunc(w) ==
    /\ worker[w] = "emit"
    /\ blocking => signals = 0
    /\ fresh' = <<>>
    /\ Move(w, "check", <<>>)
    /\ UNCHANGED <<mutex, carried, results, signals>>

RunFunc(w) ==
    /\ Idle(w)
    /\ \/ Begin(w) \/ Lock(w) \/ Sleep(w)
       \/ CheckReady(w) \/ WakeUp(w)
       \/ CallFunc(w) \/ Deliver(w) \/ Emit(w, "emit") \/ ResetFunc(w)
    /\ UNCHANGED <<status, blocking, asleep, handled, posts, waits, cancelled>>

-----------------------------------------------------------------------------
VoidNext ==
    \/ \E t \in Threads : Step(t)
    \/ \E w \in Workers : StartDeferred(w) \/ RunFunc(w) \/ (posts > 0 /\ StartUp(w))
    \/ Post \/ CancelAll
    \/ SlotRunInMain

VoidStep(w) == Step(w) \/ RunFunc(w)

VoidSpec ==
    /\ Init /\ [][VoidNext]_asyncVars
    /\ WF_asyncVars(Step(Owner)) /\ WF_asyncVars(SlotRunInMain)
    /\ \A w \in Workers : SF_asyncVars(VoidStep(w))

-----------------------------------------------------------------------------
(* No function is run twice, nor after one that was posted later (m_func   *)
(* and m_mtxFunc, dasync.h), with any number of workers; a worker that     *)
(* would call an empty function would leave no result.  That the last one  *)
(* is run unless it is cancelled, ready or not, is DataHandled.            *)
RunOnce ==
    LET ran == handled \o results
    IN \A i, j \in DOMAIN ran : i < j => ran[i] < ran[j]
=============================================================================
