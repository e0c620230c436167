----------------------------- MODULE ThreadProofs -----------------------------
(***************************************************************************)
(* What the parts of the library that hand work to other threads guarantee *)
(* for any number of threads, posts, calls and keys.                       *)
(***************************************************************************)
EXTENDS MCThreads, QueueTheorems

-----------------------------------------------------------------------------
(* DAsync: where owner and workers are.                                    *)
Flags  == {"Ready", "Running", "Cancel", "WaitFinished", "Finished"}
Steps  == [do : {"set", "clear", "store", "test", "wait", "notify"}, flags : SUBSET Flags]
Owners == Workers \cup {"owner"}
Inside == {"check", "sleep", "work", "call", "signal", "emit"}
Places == {"none", "start", "lock", "wake", "done"} \cup Inside

AsyncTypes ==
    /\ Async!TypeOK
    /\ todo \in [Owners -> Seq(Steps)]
    /\ worker \in [Workers -> Places]

LEMMA StepIsTyped == \A flags \in SUBSET Flags :
    /\ Async!SetFlag(flags) \in Steps /\ Async!ClearFlag(flags) \in Steps
    /\ Async!Store(flags) \in Steps
    /\ Async!Do("test") \in Steps /\ Async!Do("wait") \in Steps /\ Async!Do("notify") \in Steps
BY DEF Steps, Async!SetFlag, Async!ClearFlag, Async!Store, Async!Do

LEMMA StepsAreTyped ==
    /\ <<>> \in Seq(Steps)
    /\ \A a \in Steps : <<a>> \in Seq(Steps)
    /\ \A a, b \in Steps : <<a, b>> \in Seq(Steps)
    /\ \A a, b, c, d \in Steps : <<a, b, c, d>> \in Seq(Steps)
OBVIOUS

(* The two instances differ in their bounds only.                          *)
LEMMA SameActions ==
    /\ \A t \in Owners : AsyncWait!Step(t) <=> Async!Step(t)
    /\ \A w \in Workers : /\ AsyncWait!StartUp(w) <=> Async!StartUp(w)
                          /\ AsyncWait!Run(w) <=> Async!Run(w)
    /\ AsyncWait!PostData <=> Async!PostData
    /\ AsyncWait!CancelAll <=> Async!CancelAll
    /\ AsyncWait!SlotRunInMain <=> Async!SlotRunInMain
<1>1. ASSUME NEW t \in Owners PROVE AsyncWait!Step(t) <=> Async!Step(t)
  BY DEF Async!Step, AsyncWait!Step, Async!Idle, AsyncWait!Idle, Async!Owner, AsyncWait!Owner,
     Async!Store, AsyncWait!Store, Async!Do, AsyncWait!Do, Async!SetFlag, AsyncWait!SetFlag
<1>2. ASSUME NEW w \in Workers PROVE AsyncWait!StartUp(w) <=> Async!StartUp(w)
  BY DEF Async!StartUp, AsyncWait!StartUp, Async!Free, AsyncWait!Free, Async!Idle,
     AsyncWait!Idle, Async!Owner, AsyncWait!Owner, Async!Call, AsyncWait!Call,
     Async!SetFlag, AsyncWait!SetFlag
<1>3. ASSUME NEW w \in Workers PROVE AsyncWait!Run(w) <=> Async!Run(w)
  BY DEF Async!Run, AsyncWait!Run, Async!Idle, AsyncWait!Idle, Async!Begin, AsyncWait!Begin,
     Async!Lock, AsyncWait!Lock, Async!Check, AsyncWait!Check, Async!Sleep, AsyncWait!Sleep,
     Async!Wake, AsyncWait!Wake, Async!Take, AsyncWait!Take, Async!Deliver, AsyncWait!Deliver,
     Async!Emit, AsyncWait!Emit, Async!Move, AsyncWait!Move,
     Async!SetFlag, AsyncWait!SetFlag, Async!ClearFlag, AsyncWait!ClearFlag, Async!Do,
     AsyncWait!Do, Async!SetPending, AsyncWait!SetPending, Async!Pending, AsyncWait!Pending
<1>4. /\ AsyncWait!PostData <=> Async!PostData
      /\ AsyncWait!CancelAll <=> Async!CancelAll
      /\ AsyncWait!SlotRunInMain <=> Async!SlotRunInMain
  BY DEF Async!PostData, AsyncWait!PostData, Async!CancelAll, AsyncWait!CancelAll,
     Async!SlotRunInMain, AsyncWait!SlotRunInMain, Async!Free, AsyncWait!Free, Async!Idle,
     AsyncWait!Idle, Async!Owner, AsyncWait!Owner, Async!Call, AsyncWait!Call,
     Async!SetFlag, AsyncWait!SetFlag
<1>. QED
  BY <1>1, <1>2, <1>3, <1>4

(* A step of a call leaves what the worker does alone.                     *)
LEMMA AsyncStepTypes ==
    ASSUME AsyncTypes, NEW t \in Owners, Async!Step(t)
    PROVE  AsyncTypes'
<1>. DEFINE now == Head(todo[t])
            rest == Tail(todo[t])
<1>1. /\ todo[t] \in Seq(Steps) /\ todo[t] # <<>> /\ status \subseteq Flags
      /\ now \in Steps /\ rest \in Seq(Steps)
  BY HeadTailProperties DEF AsyncTypes, Async!TypeOK, Async!Step, Async!Idle, Flags
<1>2. now.flags \subseteq Flags
  BY <1>1 DEF Steps
<1>3. PICK s \in Seq(Steps) : todo' = [todo EXCEPT ![t] = s]
  <2>1. CASE now.do = "set"
    <3>1. Async!Store(status \cup now.flags) \in Steps
      BY <1>1, <1>2, StepIsTyped
    <3>2. <<Async!Store(status \cup now.flags)>> \o rest \in Seq(Steps)
      BY <1>1, <3>1, StepsAreTyped, ConcatProperties
    <3>3. todo' = [todo EXCEPT ![t] = <<Async!Store(status \cup now.flags)>> \o rest]
      BY <2>1 DEF Async!Step
    <3>. QED
      BY <3>2, <3>3
  <2>2. CASE now.do = "clear"
    <3>1. Async!Store(status \ now.flags) \in Steps
      BY <1>1, <1>2, StepIsTyped
    <3>2. <<Async!Store(status \ now.flags)>> \o rest \in Seq(Steps)
      BY <1>1, <3>1, StepsAreTyped, ConcatProperties
    <3>3. todo' = [todo EXCEPT ![t] = <<Async!Store(status \ now.flags)>> \o rest]
      BY <2>2 DEF Async!Step
    <3>. QED
      BY <3>2, <3>3
  <2>3. CASE now.do \in {"store", "wait", "notify"}
    <3>1. todo' = [todo EXCEPT ![t] = rest]
      BY <2>3 DEF Async!Step
    <3>. QED
      BY <1>1, <3>1
  <2>4. CASE now.do = "test"
    <3>1. /\ Async!SetFlag({"WaitFinished"}) \in Steps /\ Async!Do("wait") \in Steps
      BY StepIsTyped DEF Flags
    <3>2. <<Async!SetFlag({"WaitFinished"}), Async!Do("wait")>> \o rest \in Seq(Steps)
      BY <1>1, <3>1, StepsAreTyped, ConcatProperties
    <3>3. \/ todo' = [todo EXCEPT ![t] = rest]
          \/ todo' = [todo EXCEPT ![t] =
                        <<Async!SetFlag({"WaitFinished"}), Async!Do("wait")>> \o rest]
      BY <2>4 DEF Async!Step
    <3>. QED
      BY <1>1, <3>2, <3>3
  <2>. QED
    BY <1>1, <2>1, <2>2, <2>3, <2>4 DEF Steps
<1>4. status' \subseteq Flags
  BY <1>1, <1>2 DEF Async!Step
<1>5. UNCHANGED <<worker, mutex, signals>>
  BY DEF Async!Step
<1>. QED
  BY <1>3, <1>4, <1>5 DEF AsyncTypes, Async!TypeOK, Flags

(* The owner begins a call, or a worker comes to another place.            *)
LEMMA AsyncMoveTypes ==
    ASSUME AsyncTypes, status' = status, signals' \in Nat, mutex' \in Workers \cup {None},
           NEW t \in Owners, NEW s \in Seq(Steps), todo' = [todo EXCEPT ![t] = s],
           \/ worker' = worker /\ mutex' = mutex
           \/ \E w \in Workers, to \in Places :
                 /\ worker' = [worker EXCEPT ![w] = to]
                 /\ to \in Inside <=> mutex' = w
                 /\ \A o \in Workers \ {w} : mutex = o <=> mutex' = o
    PROVE  AsyncTypes'
<1>1. todo' \in [Owners -> Seq(Steps)]
  BY DEF AsyncTypes
<1>2. /\ worker' \in [Workers -> Places]
      /\ \A w \in Workers : worker'[w] \in Inside <=> mutex' = w
  BY DEF AsyncTypes, Async!TypeOK, Inside
<1>. QED
  BY <1>1, <1>2 DEF AsyncTypes, Async!TypeOK, Inside

LEMMA AsyncRunTypes ==
    ASSUME AsyncTypes, NEW w \in Workers,
           \/ Async!Begin(w) \/ Async!Lock(w) \/ Async!Check(w) \/ Async!Sleep(w)
           \/ Async!Wake(w) \/ Async!Take(w) \/ Async!Deliver(w)
           \/ Async!Emit(w, "work") \/ Async!Emit(w, "emit")
           \/ Async!CheckReady(w) \/ Async!WakeUp(w)
           \/ Async!CallFunc(w) \/ Async!ResetFunc(w),
           status' = status
    PROVE  AsyncTypes'
<1>0. /\ None \notin Workers /\ w \in Owners /\ signals \in Nat /\ mutex \in Workers \cup {None}
      /\ \A o \in Workers : worker[o] \in Inside <=> mutex = o
      /\ \A o \in Workers : worker[o] \in Places
  BY MCThreadsAssumption DEF Async!DAsyncAssumption, Owners, AsyncTypes, Async!TypeOK, Inside
<1>1. ASSUME NEW to \in Places, NEW s \in Seq(Steps), Async!Move(w, to, s),
             signals' \in Nat, mutex' \in Workers \cup {None},
             to \in Inside <=> mutex' = w,
             \A o \in Workers \ {w} : mutex = o <=> mutex' = o
      PROVE  AsyncTypes'
  BY <1>0, <1>1, AsyncMoveTypes DEF Async!Move
<1>2. ASSUME NEW flags \in SUBSET Flags
      PROVE  /\ <<>> \in Seq(Steps)
             /\ <<Async!SetFlag(flags)>> \in Seq(Steps)
             /\ <<Async!ClearFlag(flags)>> \in Seq(Steps)
  BY StepIsTyped, StepsAreTyped
<1>3. Async!SetPending(TRUE) \in Steps /\ Async!SetPending(FALSE) \in Steps
  BY StepIsTyped DEF Async!SetPending, Async!Pending, Flags
<1>4. <<Async!SetFlag({"Ready"}), Async!ClearFlag({"Finished"})>> \in Seq(Steps)
  BY StepIsTyped, StepsAreTyped DEF Flags
<1>5. <<Async!SetFlag({"Finished"}), Async!ClearFlag({"Ready"}), Async!Do("notify"),
        Async!SetPending(FALSE)>> \in Seq(Steps)
  BY <1>3, StepIsTyped, StepsAreTyped DEF Flags
<1>6. /\ <<Async!SetPending(TRUE)>> \in Seq(Steps)
      /\ <<Async!SetPending(FALSE)>> \in Seq(Steps)
      /\ <<>> \in Seq(Steps)
  BY <1>3, StepsAreTyped
<1>7. /\ {"none", "start", "lock", "wake", "done"} \subseteq Places \ Inside
      /\ Inside \subseteq Places /\ Inside = {"check", "sleep", "work", "call", "signal", "emit"}
  BY DEF Places, Inside
<1>a. CASE Async!Begin(w)
  <2>1. worker[w] = "start" /\ UNCHANGED <<mutex, signals>> /\ mutex # w
    BY <1>0, <1>a DEF Async!Begin, Inside
  <2>2. \/ Async!Move(w, "done", <<>>)
        \/ Async!Move(w, "lock", <<Async!SetFlag({"Ready"}), Async!ClearFlag({"Finished"})>>)
    BY <1>a DEF Async!Begin
  <2>. QED
    BY <1>0, <1>1, <1>4, <1>6, <1>7, <2>1, <2>2
<1>b. CASE Async!Lock(w)
  <2>1. mutex = None /\ mutex' = w /\ signals' = signals /\ Async!Move(w, "check", <<>>)
    BY <1>b DEF Async!Lock
  <2>. QED
    BY <1>0, <1>1, <1>6, <1>7, <2>1
<1>c. CASE Async!Check(w)
  <2>1. worker[w] = "check" /\ UNCHANGED <<mutex, signals>>
    BY <1>c DEF Async!Check
  <2>2. \/ Async!Move(w, "sleep", <<Async!SetPending(TRUE)>>)
        \/ Async!Move(w, "work", <<Async!SetPending(FALSE)>>)
    BY <1>c DEF Async!Check
  <2>. QED
    BY <1>0, <1>1, <1>6, <1>7, <2>1, <2>2
<1>d. CASE Async!Sleep(w)
  <2>1. /\ worker[w] = "sleep" /\ mutex' = None /\ signals' = signals
        /\ Async!Move(w, "wake", <<>>)
    BY <1>d DEF Async!Sleep
  <2>. QED
    BY <1>0, <1>1, <1>6, <1>7, <2>1
<1>e. CASE Async!Wake(w)
  <2>1. worker[w] = "wake" /\ mutex = None /\ signals' = signals
    BY <1>e DEF Async!Wake
  <2>2. \/ /\ mutex' = mutex
           /\ Async!Move(w, "done", <<Async!SetFlag({"Finished"}), Async!ClearFlag({"Ready"}),
                                      Async!Do("notify"), Async!SetPending(FALSE)>>)
        \/ mutex' = w /\ Async!Move(w, "check", <<>>)
    BY <1>e DEF Async!Wake
  <2>3. /\ {"done", "check"} \subseteq Places /\ "done" \notin Inside /\ "check" \in Inside
        /\ worker[w] \notin Inside /\ mutex # w /\ \A o \in Workers : mutex # o
    BY <1>0, <1>7, <2>1
  <2>4. CASE mutex' = w
    BY <1>0, <1>1, <1>6, <2>1, <2>2, <2>3, <2>4
  <2>5. CASE mutex' = mutex
    BY <1>0, <1>1, <1>5, <2>1, <2>2, <2>3, <2>5
  <2>. QED
    BY <2>2, <2>4, <2>5
<1>f. CASE Async!Take(w)
  <2>1. worker[w] = "work" /\ UNCHANGED <<mutex, signals>>
    BY <1>f DEF Async!Take
  <2>2. Async!Move(w, "check", <<>>) \/ Async!Move(w, "call", <<>>)
    BY <1>f DEF Async!Take
  <2>. QED
    BY <1>0, <1>1, <1>6, <1>7, <2>1, <2>2
<1>k. CASE Async!Deliver(w)
  <2>1. worker[w] = "call" /\ UNCHANGED <<mutex, signals>> /\ Async!Move(w, "signal", <<>>)
    BY <1>k DEF Async!Deliver
  <2>. QED
    BY <1>0, <1>1, <1>6, <1>7, <2>1
<1>l. CASE Async!Emit(w, "work") \/ Async!Emit(w, "emit")
  <2>1. worker[w] = "signal" /\ mutex' = mutex /\ signals' = signals + 1
    BY <1>l DEF Async!Emit
  <2>2. Async!Move(w, "work", <<>>) \/ Async!Move(w, "emit", <<>>)
    BY <1>l DEF Async!Emit
  <2>3. signals' \in Nat
    BY <1>0, <2>1
  <2>. QED
    BY <1>0, <1>1, <1>6, <1>7, <2>1, <2>2, <2>3
<1>g. CASE Async!CheckReady(w)
  <2>1. worker[w] = "check" /\ UNCHANGED <<mutex, signals>>
    BY <1>g DEF Async!CheckReady
  <2>2. \/ Async!Move(w, "sleep", <<Async!SetPending(TRUE)>>)
        \/ Async!Move(w, "work", <<Async!SetPending(FALSE)>>)
    BY <1>g DEF Async!CheckReady
  <2>. QED
    BY <1>0, <1>1, <1>6, <1>7, <2>1, <2>2
<1>h. CASE Async!WakeUp(w)
  <2>1. worker[w] = "wake" /\ mutex = None /\ signals' = signals
    BY <1>h DEF Async!WakeUp
  <2>2. \/ /\ mutex' = mutex
           /\ Async!Move(w, "done", <<Async!SetFlag({"Finished"}), Async!ClearFlag({"Ready"}),
                                      Async!Do("notify"), Async!SetPending(FALSE)>>)
        \/ mutex' = w /\ Async!Move(w, "work", <<Async!SetPending(FALSE)>>)
    BY <1>h DEF Async!WakeUp
  <2>3. /\ {"done", "work"} \subseteq Places /\ "done" \notin Inside /\ "work" \in Inside
        /\ worker[w] \notin Inside /\ mutex # w /\ \A o \in Workers : mutex # o
    BY <1>0, <1>7, <2>1
  <2>4. CASE mutex' = w
    BY <1>0, <1>1, <1>6, <2>1, <2>2, <2>3, <2>4
  <2>5. CASE mutex' = mutex
    BY <1>0, <1>1, <1>5, <2>1, <2>2, <2>3, <2>5
  <2>. QED
    BY <2>2, <2>4, <2>5
<1>i. CASE Async!CallFunc(w)
  <2>1. worker[w] = "work" /\ UNCHANGED <<mutex, signals>>
    BY <1>i DEF Async!CallFunc
  <2>2. Async!Move(w, "check", <<>>) \/ Async!Move(w, "call", <<>>)
    BY <1>i DEF Async!CallFunc
  <2>. QED
    BY <1>0, <1>1, <1>6, <1>7, <2>1, <2>2
<1>j. CASE Async!ResetFunc(w)
  <2>1. worker[w] = "emit" /\ UNCHANGED <<mutex, signals>> /\ Async!Move(w, "check", <<>>)
    BY <1>j DEF Async!ResetFunc
  <2>. QED
    BY <1>0, <1>1, <1>6, <1>7, <2>1
<1>. QED
  BY <1>a, <1>b, <1>c, <1>d, <1>e, <1>f, <1>g, <1>h, <1>i, <1>j, <1>k, <1>l

(* A step of the part with or without input, with or without waiting.      *)
LEMMA AsyncTypesStep ==
    ASSUME AsyncTypes, Async!Next \/ AsyncWait!Next \/ Async!VoidNext \/ UNCHANGED asyncVars
    PROVE  AsyncTypes'
<1>0. signals \in Nat /\ mutex \in Workers \cup {None} /\ "owner" \in Owners
  BY DEF AsyncTypes, Async!TypeOK, Owners
<1>1. ASSUME NEW t \in Owners, Async!Step(t) PROVE AsyncTypes'
  BY <1>1, AsyncStepTypes
<1>2. ASSUME NEW w \in Workers, NEW s \in Seq(Steps),
             worker[w] = "none", worker' = [worker EXCEPT ![w] = "start"],
             todo' = [todo EXCEPT !["owner"] = s], UNCHANGED <<status, mutex, signals>>
      PROVE  AsyncTypes'
  <2>1. mutex # w
    BY <1>2 DEF AsyncTypes, Async!TypeOK
  <2>2. "start" \in Places /\ "start" \notin Inside
    BY DEF Places, Inside
  <2>. QED
    BY <1>0, <1>2, <2>1, <2>2, AsyncMoveTypes
<1>3. ASSUME NEW s \in Seq(Steps), todo' = [todo EXCEPT !["owner"] = s],
             UNCHANGED <<worker, status, mutex, signals>>
      PROVE  AsyncTypes'
  BY <1>0, <1>3, AsyncMoveTypes
<1>4. /\ <<Async!SetFlag({"Ready"})>> \in Seq(Steps)
      /\ <<Async!ClearFlag({"Ready"})>> \in Seq(Steps)
      /\ <<Async!SetFlag({"Cancel"})>> \in Seq(Steps)
      /\ <<Async!SetFlag({"Cancel"}), Async!Do("test")>> \in Seq(Steps)
      /\ <<Async!Do("test")>> \in Seq(Steps)
  BY StepIsTyped, StepsAreTyped DEF Flags
<1>5. ASSUME NEW w \in Workers, Async!StartUp(w) \/ Async!StartDeferred(w)
      PROVE  AsyncTypes'
  <2>1. \E s \in Seq(Steps) : todo' = [todo EXCEPT !["owner"] = s]
    BY <1>4, <1>5 DEF Async!StartUp, Async!StartDeferred, Async!Call, Async!Owner
  <2>2. worker[w] = "none" /\ worker' = [worker EXCEPT ![w] = "start"]
        /\ UNCHANGED <<status, mutex, signals>>
    BY <1>5 DEF Async!StartUp, Async!StartDeferred
  <2>. QED
    BY <1>2, <2>1, <2>2
<1>6. ASSUME \/ Async!CancelAll
             \/ \E all \in BOOLEAN : AsyncWait!WaitForFinished(all)
             \/ \E all \in BOOLEAN : Async!WaitForFinished(all)
      PROVE  AsyncTypes'
  <2>1. \E s \in Seq(Steps) : todo' = [todo EXCEPT !["owner"] = s]
    <3>1. AsyncWait!SetFlag({"Cancel"}) = Async!SetFlag({"Cancel"})
          /\ AsyncWait!Do("test") = Async!Do("test")
      BY DEF AsyncWait!SetFlag, Async!SetFlag, AsyncWait!Do, Async!Do
    <3>. QED
      BY <1>4, <1>6, <3>1 DEF Async!CancelAll, Async!WaitForFinished, AsyncWait!WaitForFinished,
         Async!Call, Async!Owner, AsyncWait!Call, AsyncWait!Owner
  <2>2. UNCHANGED <<worker, status, mutex, signals>>
    BY <1>6 DEF Async!CancelAll, Async!WaitForFinished, AsyncWait!WaitForFinished
  <2>. QED
    BY <1>3, <2>1, <2>2
<1>7. ASSUME NEW w \in Workers, Async!Run(w) \/ Async!RunFunc(w)
      PROVE  AsyncTypes'
  <2>1. \/ Async!Begin(w) \/ Async!Lock(w) \/ Async!Check(w) \/ Async!Sleep(w)
        \/ Async!Wake(w) \/ Async!Take(w) \/ Async!Deliver(w)
        \/ Async!Emit(w, "work") \/ Async!Emit(w, "emit")
        \/ Async!CheckReady(w) \/ Async!WakeUp(w)
        \/ Async!CallFunc(w) \/ Async!ResetFunc(w)
    BY <1>7, SameActions DEF Async!Run, Async!RunFunc
  <2>2. status' = status
    BY <1>7 DEF Async!Run, Async!RunFunc
  <2>. QED
    BY <2>1, <2>2, AsyncRunTypes
<1>8. CASE Async!PostData \/ Async!Post \/ Async!SlotRunInMain \/ UNCHANGED asyncVars
  <2>1. UNCHANGED <<status, todo, worker, mutex>>
    BY <1>8 DEF Async!PostData, Async!Post, Async!SlotRunInMain, asyncVars
  <2>2. signals' \in Nat
    BY <1>0, <1>8 DEF Async!PostData, Async!Post, Async!SlotRunInMain, asyncVars
  <2>. QED
    BY <2>1, <2>2 DEF AsyncTypes, Async!TypeOK
<1>9. CASE Async!Next
  BY <1>1, <1>5, <1>6, <1>7, <1>8, <1>9 DEF Async!Next, Owners, Async!Threads, Async!Owner
<1>10. CASE AsyncWait!Next
  BY <1>1, <1>5, <1>6, <1>7, <1>8, <1>10, SameActions
     DEF AsyncWait!Next, Owners, AsyncWait!Threads, AsyncWait!Owner
<1>11. CASE Async!VoidNext
  BY <1>1, <1>5, <1>6, <1>7, <1>8, <1>11, SameActions
     DEF Async!VoidNext, Owners, Async!Threads, Async!Owner
<1>. QED
  BY <1>8, <1>9, <1>10, <1>11

(* Only a worker whose function is running carries a datum.                *)
Carries == carried # <<>> => \E w \in Workers : worker[w] = "call"

LEMMA CarriesStep ==
    ASSUME AsyncTypes, Carries,
           Async!Next \/ AsyncWait!Next \/ Async!VoidNext \/ UNCHANGED asyncVars
    PROVE  Carries'
<1>1. worker \in [Workers -> Places]
  BY DEF AsyncTypes
<1>2. CASE UNCHANGED <<carried, worker>>
  BY <1>2 DEF Carries
<1>3. ASSUME NEW w \in Workers, NEW to, worker[w] # "call", carried' = carried,
             worker' = [worker EXCEPT ![w] = to]
      PROVE  Carries'
  BY <1>1, <1>3 DEF Carries
<1>4. ASSUME NEW w \in Workers, worker' = [worker EXCEPT ![w] = "call"] PROVE Carries'
  BY <1>1, <1>4 DEF Carries
<1>5. ASSUME NEW w \in Workers, Async!Run(w) \/ Async!RunFunc(w) PROVE Carries'
  <2>1. CASE Async!Begin(w) \/ Async!Lock(w) \/ Async!Check(w) \/ Async!Sleep(w) \/ Async!Wake(w)
    <3>1. carried' = carried /\ worker[w] # "call"
          /\ \E to : worker' = [worker EXCEPT ![w] = to]
      BY <2>1 DEF Async!Begin, Async!Lock, Async!Check, Async!Sleep, Async!Wake, Async!Move
    <3>. QED
      BY <1>3, <3>1
  <2>2. CASE \/ Async!CheckReady(w) \/ Async!WakeUp(w) \/ Async!ResetFunc(w)
             \/ Async!Emit(w, "work") \/ Async!Emit(w, "emit")
    <3>1. carried' = carried /\ worker[w] # "call"
          /\ \E to : worker' = [worker EXCEPT ![w] = to]
      BY <2>2 DEF Async!CheckReady, Async!WakeUp, Async!ResetFunc, Async!Emit, Async!Move
    <3>. QED
      BY <1>3, <3>1
  <2>3. CASE Async!Take(w) \/ Async!CallFunc(w)
    <3>1. /\ worker[w] = "work"
          /\ \/ carried' = carried /\ worker' = [worker EXCEPT ![w] = "check"]
             \/ worker' = [worker EXCEPT ![w] = "call"]
      BY <2>3 DEF Async!Take, Async!CallFunc, Async!Move
    <3>. QED
      BY <1>3, <1>4, <3>1
  <2>4. CASE Async!Deliver(w)
    BY <2>4 DEF Async!Deliver, Carries
  <2>. QED
    BY <1>5, <2>1, <2>2, <2>3, <2>4 DEF Async!Run, Async!RunFunc
<1>6. ASSUME NEW w \in Workers, Async!StartUp(w) \/ Async!StartDeferred(w) PROVE Carries'
  <2>1. carried' = carried /\ worker[w] = "none" /\ worker' = [worker EXCEPT ![w] = "start"]
    BY <1>6 DEF Async!StartUp, Async!StartDeferred
  <2>. QED
    BY <1>3, <2>1
<1>7. ASSUME \/ \E t \in Owners : Async!Step(t)
             \/ Async!PostData \/ Async!Post \/ Async!CancelAll \/ Async!SlotRunInMain
             \/ \E all \in BOOLEAN : Async!WaitForFinished(all)
             \/ \E all \in BOOLEAN : AsyncWait!WaitForFinished(all)
             \/ UNCHANGED asyncVars
      PROVE  Carries'
  BY <1>2, <1>7 DEF Async!Step, Async!PostData, Async!Post, Async!CancelAll,
     Async!SlotRunInMain, Async!WaitForFinished, AsyncWait!WaitForFinished, asyncVars
<1>8. CASE Async!Next
  BY <1>5, <1>6, <1>7, <1>8 DEF Async!Next, Owners, Async!Threads, Async!Owner
<1>9. CASE AsyncWait!Next
  BY <1>5, <1>6, <1>7, <1>9, SameActions
     DEF AsyncWait!Next, Owners, AsyncWait!Threads, AsyncWait!Owner
<1>10. CASE Async!VoidNext
  BY <1>5, <1>6, <1>7, <1>10 DEF Async!VoidNext, Owners, Async!Threads, Async!Owner
<1>. QED
  BY <1>7, <1>8, <1>9, <1>10

(* Nobody else is inside while a worker is.                                *)
LEMMA NoneCarried ==
    ASSUME AsyncTypes, Carries, NEW w \in Workers, worker[w] \in Inside \ {"call"}
    PROVE  carried = <<>>
<1>1. ASSUME NEW v \in Workers, worker[v] = "call" PROVE FALSE
  <2>1. mutex = v /\ mutex = w
    BY <1>1 DEF AsyncTypes, Async!TypeOK, Inside
  <2>. QED
    BY <1>1, <2>1
<1>. QED
  BY <1>1 DEF Carries
-----------------------------------------------------------------------------
(* DAsync: what is posted, under way and handled.                          *)
AsyncOrder ==
    /\ handled \in Seq(Nat) /\ results \in Seq(Nat) /\ fresh \in Seq(Nat)
    /\ carried \in Seq(Nat)
    /\ posts \in Nat
    /\ Async!HandledInOrder

LEMMA Associative == \A a, b, c \in Seq(Nat) : (a \o b) \o c = a \o (b \o c)
BY ConcatAssociative

LEMMA Joined ==
    /\ \A a \in Seq(Nat) : a \o <<>> = a /\ <<>> \in Seq(Nat)
    /\ \A a, b \in Seq(Nat) : a \o b \in Seq(Nat)
<1>2. ASSUME NEW a \in Seq(Nat) PROVE a \o <<>> = a /\ <<>> \in Seq(Nat)
  BY ConcatEmptySeq
<1>3. ASSUME NEW a \in Seq(Nat), NEW b \in Seq(Nat) PROVE a \o b \in Seq(Nat)
  BY ConcatProperties
<1>. QED
  BY <1>2, <1>3

(* The first element taken from a sequence.                                *)
LEMMA HeadAndTail ==
    \A f \in Seq(Nat) : f # <<>> => /\ <<Head(f)>> \o Tail(f) = f
                                    /\ <<Head(f)>> \in Seq(Nat) /\ Tail(f) \in Seq(Nat)
<1>. SUFFICES ASSUME NEW f \in Seq(Nat), f # <<>>
              PROVE  /\ <<Head(f)>> \o Tail(f) = f
                     /\ <<Head(f)>> \in Seq(Nat) /\ Tail(f) \in Seq(Nat)
  OBVIOUS
<1>1. /\ Len(f) \in Nat \ {0} /\ Head(f) \in Nat /\ Tail(f) \in Seq(Nat)
      /\ Len(Tail(f)) = Len(f) - 1 /\ f[1] = Head(f)
      /\ \A i \in 1..Len(Tail(f)) : Tail(f)[i] = f[i + 1]
  BY HeadTailProperties, EmptySeq, LenProperties
<1>2. /\ <<Head(f)>> \in Seq(Nat) /\ Len(<<Head(f)>>) = 1 /\ <<Head(f)>>[1] = Head(f)
  BY <1>1
<1>3. /\ <<Head(f)>> \o Tail(f) \in Seq(Nat)
      /\ Len(<<Head(f)>> \o Tail(f)) = Len(f)
      /\ \A i \in 1..Len(f) : (<<Head(f)>> \o Tail(f))[i] =
            IF i <= 1 THEN <<Head(f)>>[i] ELSE Tail(f)[i - 1]
  BY <1>1, <1>2, ConcatProperties
<1>4. ASSUME NEW i \in 1..Len(f) PROVE (<<Head(f)>> \o Tail(f))[i] = f[i]
  <2>1. CASE i = 1
    BY <1>1, <1>2, <1>3, <2>1
  <2>2. CASE i > 1
    <3>1. i - 1 \in 1..Len(Tail(f)) /\ (i - 1) + 1 = i
      BY <1>1, <2>2
    <3>. QED
      BY <1>1, <1>3, <2>2, <3>1
  <2>. QED
    BY <1>1, <2>1, <2>2
<1>. QED
  BY <1>1, <1>2, <1>3, <1>4, SeqEqual

LEMMA OneMore ==
    ASSUME NEW n \in Nat, NEW s \in Seq(Nat), NEW f \in Seq(Nat), s \o f = [i \in 1..n |-> i]
    PROVE  s \o Append(f, n + 1) = [i \in 1..(n + 1) |-> i]
<1>1. /\ Append(f, n + 1) = f \o <<n + 1>> /\ <<n + 1>> \in Seq(Nat) /\ n + 1 \in Nat
  BY AppendIsConcat
<1>2. s \o Append(f, n + 1) = (s \o f) \o <<n + 1>>
  <2>1. ASSUME NEW e \in Seq(Nat) PROVE (s \o f) \o e = s \o (f \o e)
    BY Associative, Zenon
  <2>2. (s \o f) \o <<n + 1>> = s \o (f \o <<n + 1>>)
    BY <1>1, <2>1, Zenon
  <2>. QED
    BY <1>1, <2>2, Zenon
<1>3. s \o f \in Seq(Nat) /\ Len(s \o f) = n
  <2>1. s \o f \in Seq(Nat) /\ DOMAIN (s \o f) = 1..Len(s \o f) /\ Len(s \o f) \in Nat
    BY ConcatProperties, LenProperties
  <2>. QED
    BY <2>1
<1>4. /\ DOMAIN ((s \o f) \o <<n + 1>>) = 1..(n + 1)
      /\ (s \o f) \o <<n + 1>> \in Seq(Nat)
      /\ \A i \in 1..(n + 1) : ((s \o f) \o <<n + 1>>)[i] = i
  <2>1. /\ (s \o f) \o <<n + 1>> \in Seq(Nat)
        /\ Len((s \o f) \o <<n + 1>>) = n + 1
        /\ \A i \in 1..(n + 1) : ((s \o f) \o <<n + 1>>)[i] =
              IF i <= n THEN (s \o f)[i] ELSE <<n + 1>>[i - n]
    BY <1>1, <1>3, ConcatProperties
  <2>2. \A i \in 1..n : (s \o f)[i] = i
    OBVIOUS
  <2>3. \A i \in 1..(n + 1) : i <= n \/ i - n = 1
    OBVIOUS
  <2>4. \A i \in 1..(n + 1) : ((s \o f) \o <<n + 1>>)[i] = i
    BY <2>1, <2>2, <2>3
  <2>. QED
    BY <2>1, <2>4, LenProperties
<1>5. (s \o f) \o <<n + 1>> = [i \in 1..(n + 1) |-> ((s \o f) \o <<n + 1>>)[i]]
  BY <1>4, LenProperties
<1>. QED
  BY <1>2, <1>4, <1>5

LEMMA AsyncOrderStep ==
    ASSUME AsyncTypes, Carries, AsyncOrder, Async!Next \/ AsyncWait!Next \/ UNCHANGED asyncVars
    PROVE  AsyncOrder'
<1>0. /\ handled \in Seq(Nat) /\ results \in Seq(Nat) /\ fresh \in Seq(Nat) /\ posts \in Nat
      /\ carried \in Seq(Nat)
      /\ handled \o results \o carried \o fresh = [i \in 1..posts |-> i]
      /\ handled \o results \in Seq(Nat) /\ handled \o results \o carried \in Seq(Nat)
  BY Joined DEF AsyncOrder, Async!HandledInOrder
<1>1. CASE UNCHANGED <<handled, results, carried, fresh, posts>>
  BY <1>1 DEF AsyncOrder, Async!HandledInOrder
<1>2. CASE Async!PostData
  <2>1. /\ fresh' = Append(fresh, posts + 1) /\ posts' = posts + 1
        /\ UNCHANGED <<handled, results, carried>>
    BY <1>2 DEF Async!PostData
  <2>2. handled \o results \o carried \o Append(fresh, posts + 1) = [i \in 1..(posts + 1) |-> i]
    BY <1>0, OneMore
  <2>3. fresh' \in Seq(Nat) /\ posts' \in Nat
    BY <1>0, <2>1, AppendProperties
  <2>. QED
    BY <1>0, <2>1, <2>2, <2>3 DEF AsyncOrder, Async!HandledInOrder
<1>3. CASE carried = <<>> /\ fresh # <<>> /\ fresh' = Tail(fresh) /\ carried' = <<Head(fresh)>>
           /\ UNCHANGED <<handled, results, posts>>
  <2>1. /\ Tail(fresh) \in Seq(Nat) /\ <<Head(fresh)>> \in Seq(Nat)
        /\ <<Head(fresh)>> \o Tail(fresh) = fresh
    BY <1>0, <1>3, HeadAndTail
  <2>2. handled \o results \o carried = handled \o results
    BY <1>0, <1>3, Joined
  <2>3. ASSUME NEW d \in Seq(Nat), NEW f \in Seq(Nat)
        PROVE  ((handled \o results) \o d) \o f = (handled \o results) \o (d \o f)
    <3>1. handled \o results \in Seq(Nat)
      BY <1>0
    <3>. QED
      BY <3>1, Associative, Zenon
  <2>4. ((handled \o results) \o <<Head(fresh)>>) \o Tail(fresh)
              = (handled \o results) \o (<<Head(fresh)>> \o Tail(fresh))
    BY <2>1, <2>3, Zenon
  <2>5. (handled \o results \o carried)' \o fresh' = [i \in 1..posts |-> i]
    BY <1>0, <1>3, <2>1, <2>2, <2>4
  <2>. QED
    BY <1>0, <1>3, <2>1, <2>5 DEF AsyncOrder, Async!HandledInOrder
<1>4. CASE Async!SlotRunInMain
  <2>1. /\ handled' = handled \o results /\ results' = <<>>
        /\ UNCHANGED <<carried, fresh, posts>>
    BY <1>4 DEF Async!SlotRunInMain
  <2>2. (handled \o results) \o <<>> = handled \o results /\ <<>> \in Seq(Nat)
    BY <1>0, Joined
  <2>. QED
    BY <1>0, <2>1, <2>2 DEF AsyncOrder, Async!HandledInOrder
<1>5. CASE results' = results \o carried /\ carried' = <<>> /\ UNCHANGED <<handled, fresh, posts>>
  <2>1. results \o carried \in Seq(Nat) /\ <<>> \in Seq(Nat)
    BY <1>0, Joined
  <2>2. (handled \o results) \o carried = handled \o (results \o carried)
    <3>1. handled \in Seq(Nat) /\ results \in Seq(Nat) /\ carried \in Seq(Nat)
      BY <1>0
    <3>. QED
      BY <3>1, Associative, Zenon
  <2>3. (handled \o (results \o carried)) \o <<>> = handled \o (results \o carried)
    BY <1>0, <2>1, <2>2, Joined
  <2>4. (handled \o results \o carried)' = handled \o results \o carried
    BY <1>5, <2>2, <2>3
  <2>. QED
    BY <1>0, <1>5, <2>1, <2>4 DEF AsyncOrder, Async!HandledInOrder
<1>6. ASSUME NEW w \in Workers, Async!Run(w) PROVE AsyncOrder'
  <2>1. UNCHANGED <<handled, posts>>
    BY <1>6 DEF Async!Run
  <2>2. CASE \/ Async!Begin(w) \/ Async!Lock(w) \/ Async!Check(w) \/ Async!Sleep(w)
             \/ Async!Wake(w) \/ Async!Emit(w, "work")
    <3>1. UNCHANGED <<results, carried, fresh>>
      BY <2>2 DEF Async!Begin, Async!Lock, Async!Check, Async!Sleep, Async!Wake, Async!Emit
    <3>. QED
      BY <1>1, <2>1, <3>1
  <2>3. CASE Async!Take(w)
    <3>1. /\ worker[w] \in Inside \ {"call"} /\ results' = results
          /\ \/ UNCHANGED <<carried, fresh>>
             \/ fresh # <<>> /\ fresh' = Tail(fresh) /\ carried' = <<Head(fresh)>>
      BY <2>3 DEF Async!Take, Inside
    <3>2. carried = <<>>
      BY <3>1, NoneCarried
    <3>. QED
      BY <1>1, <1>3, <2>1, <3>1, <3>2
  <2>4. CASE Async!Deliver(w)
    BY <1>5, <2>1, <2>4 DEF Async!Deliver
  <2>. QED
    BY <1>6, <2>2, <2>3, <2>4 DEF Async!Run
<1>7. ASSUME NEW t \in Owners, Async!Step(t) PROVE AsyncOrder'
  BY <1>1, <1>7 DEF Async!Step
<1>8. ASSUME \/ \E w \in Workers : Async!StartUp(w)
             \/ Async!CancelAll
             \/ \E all \in BOOLEAN : Async!WaitForFinished(all)
             \/ \E all \in BOOLEAN : AsyncWait!WaitForFinished(all)
             \/ UNCHANGED asyncVars
      PROVE  AsyncOrder'
  BY <1>1, <1>8 DEF Async!StartUp, Async!CancelAll, Async!WaitForFinished,
     AsyncWait!WaitForFinished, asyncVars
<1>9. CASE Async!Next
  BY <1>2, <1>4, <1>6, <1>7, <1>8, <1>9 DEF Async!Next, Owners, Async!Threads, Async!Owner
<1>10. CASE AsyncWait!Next
  BY <1>2, <1>4, <1>6, <1>7, <1>8, <1>10, SameActions
     DEF AsyncWait!Next, Owners, AsyncWait!Threads, AsyncWait!Owner
<1>. QED
  BY <1>8, <1>9, <1>10
-----------------------------------------------------------------------------
(* DAsync without input: a function that waits to be run was posted after  *)
(* those that were, unless its result is just sent off.                    *)
Ran       == handled \o results
Delivered == \E w \in Workers : worker[w] \in {"signal", "emit"}

VoidOrder ==
    /\ handled \in Seq(Nat) /\ results \in Seq(Nat)
    /\ posts \in Nat
    /\ fresh = <<>> \/ \E n \in 1..posts : fresh = <<n>>
    /\ Async!RunOnce
    /\ \A i \in DOMAIN Ran : Ran[i] <= posts
    /\ fresh # <<>> /\ ~Delivered => \A i \in DOMAIN Ran : Ran[i] < fresh[1]
    /\ carried \in {<<>>, fresh}

LEMMA VoidFacts ==
    VoidOrder => /\ Ran \in Seq(Nat) /\ Len(Ran) \in Nat /\ DOMAIN Ran = 1..Len(Ran)
                 /\ \A i \in DOMAIN Ran : Ran[i] \in Nat
                 /\ \A i, j \in DOMAIN Ran : i < j => Ran[i] < Ran[j]
<1>. SUFFICES ASSUME VoidOrder PROVE /\ Ran \in Seq(Nat)
                                     /\ Len(Ran) \in Nat /\ DOMAIN Ran = 1..Len(Ran)
                                     /\ \A i \in DOMAIN Ran : Ran[i] \in Nat
                                     /\ \A i, j \in DOMAIN Ran : i < j => Ran[i] < Ran[j]
  OBVIOUS
<1>1. Ran \in Seq(Nat)
  BY ConcatProperties DEF VoidOrder, Ran
<1>2. \A i, j \in DOMAIN Ran : i < j => Ran[i] < Ran[j]
  BY DEF VoidOrder, Async!RunOnce, Ran
<1>. QED
  BY <1>1, <1>2, LenProperties, ElementOfSeq

(* What neither posts nor runs a function.                                 *)
LEMMA VoidIdle ==
    ASSUME VoidOrder, UNCHANGED <<handled, results, fresh, posts>>,
           carried' \in {carried, fresh}, Delivered => Delivered'
    PROVE  VoidOrder'
BY DEF VoidOrder, Async!RunOnce, Ran

LEMMA VoidOrderStep ==
    ASSUME AsyncTypes, Carries, VoidOrder, Async!VoidNext \/ UNCHANGED asyncVars
    PROVE  VoidOrder'
<1>0. /\ handled \in Seq(Nat) /\ results \in Seq(Nat) /\ posts \in Nat
      /\ fresh = <<>> \/ \E n \in 1..posts : fresh = <<n>>
      /\ \A i \in DOMAIN Ran : Ran[i] <= posts
      /\ fresh # <<>> /\ ~Delivered => \A i \in DOMAIN Ran : Ran[i] < fresh[1]
      /\ carried \in {<<>>, fresh}
      /\ worker \in [Workers -> Places]
  BY DEF VoidOrder, AsyncTypes
<1>1. /\ Ran \in Seq(Nat) /\ Len(Ran) \in Nat /\ DOMAIN Ran = 1..Len(Ran)
      /\ \A i \in DOMAIN Ran : Ran[i] \in Nat
      /\ \A i, j \in DOMAIN Ran : i < j => Ran[i] < Ran[j]
  BY VoidFacts
<1>2. ASSUME NEW w \in Workers, NEW to, worker' = [worker EXCEPT ![w] = to],
             worker[w] \notin {"signal", "emit"} \/ to \in {"signal", "emit"}
      PROVE  Delivered => Delivered'
  BY <1>0, <1>2 DEF Delivered
<1>3. worker' = worker => (Delivered <=> Delivered')
  BY DEF Delivered
<1>4. CASE Async!Post
  <2>1. /\ fresh' = <<posts + 1>> /\ posts' = posts + 1 /\ UNCHANGED <<handled, results, carried>>
        /\ carried = <<>>
    BY <1>4 DEF Async!Post, Async!FuncLocked, Carries
  <2>2. Ran' = Ran
    BY <2>1 DEF Ran
  <2>3. \A i \in DOMAIN Ran : Ran[i] <= posts + 1 /\ Ran[i] < posts + 1
    BY <1>0, <1>1
  <2>4. Async!RunOnce'
    BY <1>1, <2>2 DEF Async!RunOnce, Ran
  <2>5. posts + 1 \in 1..(posts + 1) /\ posts' \in Nat
    BY <1>0, <2>1
  <2>. QED
    BY <1>0, <2>1, <2>2, <2>3, <2>4, <2>5 DEF VoidOrder
<1>5. CASE Async!SlotRunInMain
  <2>1. /\ handled' = handled \o results /\ results' = <<>>
        /\ UNCHANGED <<carried, fresh, posts, worker>>
    BY <1>5 DEF Async!SlotRunInMain
  <2>2. Ran' = Ran /\ handled' \in Seq(Nat) /\ results' \in Seq(Nat)
    BY <1>1, <2>1, ConcatEmptySeq DEF Ran
  <2>3. Async!RunOnce'
    BY <1>1, <2>2 DEF Async!RunOnce, Ran
  <2>. QED
    BY <1>0, <1>3, <2>1, <2>2, <2>3 DEF VoidOrder
<1>6. ASSUME NEW w \in Workers, Async!Deliver(w), UNCHANGED <<handled, posts>>
      PROVE  VoidOrder'
  <2>0. /\ worker[w] = "call" /\ results' = results \o carried /\ carried' = <<>>
        /\ fresh' = fresh /\ worker' = [worker EXCEPT ![w] = "signal"]
    BY <1>6 DEF Async!Deliver, Async!Move
  <2>a. ~Delivered /\ Delivered'
    <3>1. ASSUME NEW v \in Workers, worker[v] \in {"signal", "emit"} PROVE FALSE
      <4>1. mutex = v /\ mutex = w
        BY <2>0, <3>1 DEF AsyncTypes, Async!TypeOK
      <4>. QED
        BY <2>0, <3>1, <4>1
    <3>. QED
      BY <1>0, <2>0, <3>1 DEF Delivered
  <2>1. CASE carried = <<>>
    <3>1. results' = results
      BY <1>0, <2>0, <2>1, Joined
    <3>. QED
      BY <1>6, <2>0, <2>1, <2>a, <3>1, VoidIdle
  <2>2. ASSUME NEW n \in 1..posts, fresh = <<n>>, carried = fresh PROVE VoidOrder'
    <3>1. results' = results \o <<n>>
      BY <2>0, <2>2
    <3>3. <<n>> \in Seq(Nat) /\ Len(<<n>>) = 1 /\ <<n>>[1] = n /\ n \in Nat
      BY <1>0
    <3>4. Ran' = Ran \o <<n>> /\ results' \in Seq(Nat)
      <4>1. ASSUME NEW e \in Seq(Nat) PROVE (handled \o results) \o e = handled \o (results \o e)
        BY <1>0, Associative, Zenon
      <4>2. (handled \o results) \o <<n>> = handled \o (results \o <<n>>)
        BY <3>3, <4>1, Zenon
      <4>3. results \o <<n>> \in Seq(Nat)
        BY <1>0, <3>3, ConcatProperties
      <4>. QED
        BY <1>6, <3>1, <4>2, <4>3 DEF Ran
    <3>5. /\ DOMAIN Ran' = 1..(Len(Ran) + 1)
          /\ \A i \in 1..Len(Ran) : Ran'[i] = Ran[i]
          /\ Ran'[Len(Ran) + 1] = n
      <4>1. /\ Ran \o <<n>> \in Seq(Nat) /\ Len(Ran \o <<n>>) = Len(Ran) + 1
            /\ \A i \in 1..Len(Ran) + 1 :
                  (Ran \o <<n>>)[i] = IF i <= Len(Ran) THEN Ran[i] ELSE <<n>>[i - Len(Ran)]
        BY <1>1, <3>3, ConcatProperties
      <4>2. DOMAIN (Ran \o <<n>>) = 1..(Len(Ran) + 1)
        BY <4>1, LenProperties
      <4>3. (Len(Ran) + 1) - Len(Ran) = 1
        BY <1>1
      <4>. QED
        BY <1>1, <3>3, <3>4, <4>1, <4>2, <4>3
    <3>6. \A i \in 1..Len(Ran) : Ran[i] < n
      <4>1. fresh # <<>> /\ fresh[1] = n
        BY <2>2, <3>3
      <4>. QED
        BY <1>0, <1>1, <2>a, <4>1
    <3>7. \A i \in DOMAIN Ran' : Ran'[i] <= posts
      <4>1. ASSUME NEW i \in 1..Len(Ran) PROVE Ran'[i] <= posts
        BY <1>0, <1>1, <3>5
      <4>2. Ran'[Len(Ran) + 1] <= posts
        BY <3>5
      <4>3. \A i \in 1..(Len(Ran) + 1) : i \in 1..Len(Ran) \/ i = Len(Ran) + 1
        BY <1>1
      <4>. QED
        BY <3>5, <4>1, <4>2, <4>3
    <3>8. \A i, j \in DOMAIN Ran' : i < j => Ran'[i] < Ran'[j]
      <4>1. ASSUME NEW i \in 1..(Len(Ran) + 1), NEW j \in 1..(Len(Ran) + 1), i < j
            PROVE  Ran'[i] < Ran'[j]
        <5>1. i \in 1..Len(Ran)
          BY <1>1, <4>1
        <5>2. CASE j = Len(Ran) + 1
          BY <3>5, <3>6, <5>1, <5>2
        <5>3. CASE j \in 1..Len(Ran)
          BY <1>1, <3>5, <4>1, <5>1, <5>3
        <5>4. j = Len(Ran) + 1 \/ j \in 1..Len(Ran)
          BY <1>1
        <5>. QED
          BY <5>2, <5>3, <5>4
      <4>. QED
        BY <3>5, <4>1
    <3>9. Async!RunOnce'
      BY <3>8 DEF Async!RunOnce, Ran
    <3>. QED
      BY <1>0, <1>6, <2>0, <2>a, <3>4, <3>7, <3>9 DEF VoidOrder
  <2>. QED
    BY <1>0, <2>1, <2>2
<1>7. ASSUME NEW w \in Workers, Async!ResetFunc(w), UNCHANGED <<handled, posts>>
      PROVE  VoidOrder'
  <2>1. fresh' = <<>> /\ results' = results /\ Ran' = Ran
    BY <1>7 DEF Async!ResetFunc, Ran
  <2>3. carried = <<>> /\ carried' = carried
    <3>1. worker[w] \in Inside \ {"call"} /\ carried' = carried
      BY <1>7 DEF Async!ResetFunc, Inside
    <3>. QED
      BY <3>1, NoneCarried
  <2>2. Async!RunOnce'
    BY <1>1, <2>1 DEF Async!RunOnce, Ran
  <2>. QED
    BY <1>0, <1>7, <2>1, <2>2, <2>3 DEF VoidOrder
<1>8. ASSUME NEW w \in Workers, Async!RunFunc(w) PROVE VoidOrder'
  <2>1. UNCHANGED <<handled, posts>>
    BY <1>8 DEF Async!RunFunc
  <2>2. ASSUME NEW to, worker' = [worker EXCEPT ![w] = to],
               worker[w] \notin {"signal", "emit"} \/ to \in {"signal", "emit"},
               UNCHANGED <<results, fresh>>, carried' \in {carried, fresh}
        PROVE  VoidOrder'
    BY <1>2, <2>1, <2>2, VoidIdle
  <2>3. ASSUME \/ Async!Begin(w) \/ Async!Lock(w) \/ Async!Sleep(w)
               \/ Async!CheckReady(w) \/ Async!WakeUp(w)
        PROVE  VoidOrder'
    <3>1. UNCHANGED <<results, carried, fresh>> /\ worker[w] \notin {"signal", "emit"}
          /\ \E to : worker' = [worker EXCEPT ![w] = to]
      BY <2>3 DEF Async!Begin, Async!Lock, Async!Sleep, Async!CheckReady,
         Async!WakeUp, Async!Move
    <3>. QED
      BY <2>2, <3>1
  <2>4. ASSUME Async!CallFunc(w) PROVE VoidOrder'
    <3>1. UNCHANGED <<results, fresh>> /\ worker[w] = "work"
          /\ carried' \in {carried, fresh} /\ \E to : worker' = [worker EXCEPT ![w] = to]
      BY <2>4 DEF Async!CallFunc, Async!Move
    <3>. QED
      BY <2>2, <3>1
  <2>5. ASSUME Async!Emit(w, "emit") PROVE VoidOrder'
    <3>1. UNCHANGED <<results, carried, fresh>> /\ worker' = [worker EXCEPT ![w] = "emit"]
      BY <2>5 DEF Async!Emit, Async!Move
    <3>. QED
      BY <2>2, <3>1
  <2>. QED
    BY <1>6, <1>7, <1>8, <2>1, <2>3, <2>4, <2>5 DEF Async!RunFunc
<1>9. ASSUME NEW w \in Workers, Async!StartUp(w) \/ Async!StartDeferred(w)
      PROVE  VoidOrder'
  <2>1. /\ UNCHANGED <<handled, results, carried, fresh, posts>> /\ worker[w] = "none"
        /\ worker' = [worker EXCEPT ![w] = "start"]
    BY <1>9 DEF Async!StartUp, Async!StartDeferred
  <2>. QED
    BY <1>2, <2>1, VoidIdle
<1>10. ASSUME (\E t \in Owners : Async!Step(t)) \/ Async!CancelAll \/ UNCHANGED asyncVars
       PROVE  VoidOrder'
  <2>1. UNCHANGED <<handled, results, carried, fresh, posts, worker>>
    BY <1>10 DEF Async!Step, Async!CancelAll, asyncVars
  <2>. QED
    BY <1>3, <2>1, VoidIdle
<1>. QED
  BY <1>4, <1>5, <1>8, <1>9, <1>10, SameActions
     DEF Async!VoidNext, Owners, Async!Threads, Async!Owner
-----------------------------------------------------------------------------
(* DThreadUtils: whoever waits has its event in the queue, and what is in  *)
(* the queue is for the Caller that is in use.                             *)
CallEvents == [from : Callers, to : Callers, context : Contexts \cup {None}, exec : BOOLEAN]
ExecOf(c)  == {e \in CallEvents : e.from = c /\ e.exec}

CallsTypes ==
    /\ threadContext \in Callers \cup {None}
    /\ call \in [Callers -> [at : {"idle", "swap", "post", "waiting"},
                             context : Contexts \cup {None}, exec : BOOLEAN]]
    /\ events \in Seq(CallEvents)
ObjectsAreKnown ==
    /\ objects = ({threadContext} \ {None}) \cup {c \in Callers : call[c].at = "swap"}
    /\ \A c \in Callers : call[c].at = "swap" => threadContext # c
    /\ \A c \in Callers : call[c].at = "post" => threadContext # None
    /\ \A e \in Range(events) : e.to = threadContext
WaitingHasEvent ==
    \A c \in Callers : /\ call[c].at = "waiting" <=> Range(events) \cap ExecOf(c) # {}
                       /\ OneOf(events, ExecOf(c))

CallsInv == CallsTypes /\ ObjectsAreKnown /\ WaitingHasEvent

LEMMA CallsStep == CallsInv /\ [Calls!Next]_callVars => CallsInv'
<1>. SUFFICES ASSUME CallsInv, [Calls!Next]_callVars PROVE CallsInv'
  OBVIOUS
<1>0. CallsTypes /\ ObjectsAreKnown /\ WaitingHasEvent
  BY DEF CallsInv
<1>a. None \notin Callers
  BY MCThreadsAssumption DEF Calls!DThreadUtilsAssumption
(* Only c goes to another place, where it does not wait.                   *)
<1>b. ASSUME NEW c \in Callers, call[c].at # "waiting", events' = events,
             call'[c].at # "waiting",
             \A d \in Callers : d # c => call'[d] = call[d]
      PROVE  WaitingHasEvent'
  BY <1>0, <1>b DEF WaitingHasEvent
<1>1. ASSUME NEW c \in Callers, NEW k \in Contexts \cup {None}, NEW exec \in BOOLEAN,
             Calls!Begin(c, k, exec)
      PROVE  CallsInv'
  <2>. DEFINE new == [at |-> IF threadContext = None THEN "swap" ELSE "post",
                      context |-> k, exec |-> exec]
  <2>1. /\ call[c].at = "idle" /\ call' = [call EXCEPT ![c] = new]
        /\ objects' = IF threadContext = None THEN objects \cup {c} ELSE objects
        /\ UNCHANGED <<threadContext, events>>
    BY <1>1 DEF Calls!Begin
  <2>2. new \in [at : {"idle", "swap", "post", "waiting"}, context : Contexts \cup {None},
                 exec : BOOLEAN]
        /\ new.at = (IF threadContext = None THEN "swap" ELSE "post")
    OBVIOUS
  <2>. HIDE DEF new
  <2>3. CallsTypes'
    BY <1>0, <2>1, <2>2 DEF CallsTypes
  <2>4. call'[c].at = new.at /\ \A d \in Callers : d # c => call'[d] = call[d]
    BY <1>0, <2>1 DEF CallsTypes
  <2>5. ObjectsAreKnown'
    BY <1>0, <1>a, <2>1, <2>2, <2>4 DEF CallsTypes, ObjectsAreKnown
  <2>6. WaitingHasEvent'
    BY <1>b, <2>1, <2>2, <2>4
  <2>. QED
    BY <2>3, <2>5, <2>6 DEF CallsInv
<1>2. ASSUME NEW c \in Callers, Calls!Swap(c) PROVE CallsInv'
  <2>1. /\ call[c].at = "swap" /\ call' = [call EXCEPT ![c].at = "post"]
        /\ IF threadContext = None THEN threadContext' = c /\ objects' = objects
           ELSE objects' = objects \ {c} /\ threadContext' = threadContext
        /\ events' = events
    BY <1>2 DEF Calls!Swap, Calls!At
  <2>2. call'[c].at = "post" /\ \A d \in Callers : d # c => call'[d] = call[d]
    BY <1>0, <2>1 DEF CallsTypes
  <2>3. CallsTypes'
    BY <1>0, <2>1 DEF CallsTypes
  <2>4. threadContext = None => Range(events) = {}
    <3>1. \A e \in Range(events) : e \in CallEvents
      BY <1>0, RangeOfSeq DEF CallsTypes
    <3>. QED
      BY <1>0, <1>a, <3>1 DEF ObjectsAreKnown, CallEvents
  <2>5. ObjectsAreKnown'
    <3>1. CASE threadContext = None
      <4>1. threadContext' = c /\ objects' = objects /\ Range(events') = {}
        BY <2>1, <2>4, <3>1
      <4>2. objects' = {c} \cup {d \in Callers : call'[d].at = "swap"}
        BY <1>0, <2>1, <2>2, <3>1, <4>1 DEF ObjectsAreKnown
      <4>. QED
        BY <1>0, <1>a, <2>2, <4>1, <4>2 DEF ObjectsAreKnown
    <3>2. CASE threadContext # None
      BY <1>0, <1>a, <2>1, <2>2, <3>2 DEF ObjectsAreKnown
    <3>. QED
      BY <3>1, <3>2
  <2>6. WaitingHasEvent'
    BY <1>b, <2>1, <2>2
  <2>. QED
    BY <2>3, <2>5, <2>6 DEF CallsInv
<1>3. ASSUME NEW c \in Callers, Calls!Post(c) PROVE CallsInv'
  <2>. DEFINE e == [from |-> c, to |-> threadContext, context |-> call[c].context,
                    exec |-> call[c].exec]
  <2>1. /\ call[c].at = "post" /\ events' = Append(events, e)
        /\ call' = [call EXCEPT ![c].at = IF call[c].exec THEN "waiting" ELSE "idle"]
        /\ UNCHANGED <<threadContext, objects>>
    BY <1>3 DEF Calls!Post, Calls!At
  <2>2. /\ e \in CallEvents /\ e.from = c /\ e.to = threadContext
        /\ e.exec = call[c].exec /\ call[c].exec \in BOOLEAN
    BY <1>0, <2>1 DEF CallsTypes, ObjectsAreKnown, CallEvents
  <2>3. e \in ExecOf(c) <=> call[c].exec
    BY <2>2 DEF ExecOf
  <2>4. \A d \in Callers : d # c => e \notin ExecOf(d)
    BY <2>2 DEF ExecOf
  <2>. HIDE DEF e
  <2>5. /\ call'[c].at = (IF call[c].exec THEN "waiting" ELSE "idle")
        /\ \A d \in Callers : d # c => call'[d] = call[d]
        /\ call' \in [Callers -> [at : {"idle", "swap", "post", "waiting"},
                                  context : Contexts \cup {None}, exec : BOOLEAN]]
    BY <1>0, <2>1 DEF CallsTypes
  <2>6. Append(events, e) \in Seq(CallEvents) /\ Range(Append(events, e)) = Range(events) \cup {e}
    BY <1>0, <2>2, AppendedIsLast DEF CallsTypes
  <2>7. CallsTypes'
    BY <1>0, <2>1, <2>5, <2>6 DEF CallsTypes
  <2>8. ObjectsAreKnown'
    BY <1>0, <2>1, <2>2, <2>5, <2>6 DEF ObjectsAreKnown
  <2>9. WaitingHasEvent'
    <3>1. ASSUME NEW d \in Callers
          PROVE  /\ call'[d].at = "waiting" <=> Range(events') \cap ExecOf(d) # {}
                 /\ OneOf(events', ExecOf(d))
      <4>1. e \in ExecOf(d) => Range(events) \cap ExecOf(d) = {}
        BY <1>0, <2>1, <2>4 DEF WaitingHasEvent
      <4>2. OneOf(events', ExecOf(d))
        BY <1>0, <2>1, <2>2, <4>1, OneOfQueue DEF WaitingHasEvent, CallsTypes
      <4>3. CASE d = c
        BY <1>0, <2>1, <2>2, <2>3, <2>5, <2>6, <4>2, <4>3 DEF WaitingHasEvent
      <4>4. CASE d # c
        BY <1>0, <2>1, <2>4, <2>5, <2>6, <4>2, <4>4 DEF WaitingHasEvent
      <4>. QED
        BY <4>3, <4>4
    <3>. QED
      BY <3>1 DEF WaitingHasEvent
  <2>. QED
    BY <2>7, <2>8, <2>9 DEF CallsInv
<1>4. CASE Calls!RunEvent
  <2>0. PICK e \in CallEvents : e = Head(events) /\ e \in Range(events)
    BY <1>0, <1>4, TakenIsFirst DEF Calls!RunEvent, CallsTypes
  <2>1. e.to = threadContext /\ e.to \in objects /\ e.from \in Callers /\ e.exec \in BOOLEAN
    BY <1>0, <1>a, <2>0 DEF ObjectsAreKnown, CallEvents
  <2>2. /\ events # <<>> /\ events' = Tail(events)
        /\ call' = [call EXCEPT ![e.from].at = IF e.exec THEN "idle" ELSE call[e.from].at]
        /\ UNCHANGED <<threadContext, objects>>
    BY <1>4, <2>0, <2>1 DEF Calls!RunEvent, Calls!At
  <2>3. /\ Tail(events) \in Seq(CallEvents)
        /\ Range(events) = Range(Tail(events)) \cup {e}
    BY <1>0, <2>0, <2>2, TakenIsFirst DEF CallsTypes
  <2>4. /\ call'[e.from].at = (IF e.exec THEN "idle" ELSE call[e.from].at)
        /\ \A d \in Callers : d # e.from => call'[d] = call[d]
        /\ call' \in [Callers -> [at : {"idle", "swap", "post", "waiting"},
                                  context : Contexts \cup {None}, exec : BOOLEAN]]
    BY <1>0, <2>1, <2>2 DEF CallsTypes
  <2>5. e.exec => call[e.from].at = "waiting"
    BY <1>0, <2>0, <2>1 DEF WaitingHasEvent, ExecOf
  <2>6. CallsTypes'
    BY <1>0, <2>2, <2>3, <2>4 DEF CallsTypes
  <2>7. ObjectsAreKnown'
    <3>1. /\ \A d \in Callers : call'[d].at = "swap" <=> call[d].at = "swap"
          /\ \A d \in Callers : call'[d].at = "post" <=> call[d].at = "post"
      BY <2>4, <2>5
    <3>. QED
      BY <1>0, <2>2, <2>3, <3>1 DEF ObjectsAreKnown
  <2>8. WaitingHasEvent'
    <3>1. ASSUME NEW d \in Callers
          PROVE  /\ call'[d].at = "waiting" <=> Range(events') \cap ExecOf(d) # {}
                 /\ OneOf(events', ExecOf(d))
      <4>1. /\ OneOf(events', ExecOf(d))
            /\ e \in ExecOf(d) => Range(events') \cap ExecOf(d) = {}
        BY <1>0, <2>0, <2>2, OneOfQueue DEF WaitingHasEvent, CallsTypes
      <4>2. CASE e \in ExecOf(d)
        BY <2>4, <4>1, <4>2 DEF ExecOf
      <4>3. CASE e \notin ExecOf(d)
        <5>1. Range(events') \cap ExecOf(d) # {} <=> Range(events) \cap ExecOf(d) # {}
          BY <2>2, <2>3, <4>3
        <5>2. call'[d].at = call[d].at
          BY <2>0, <2>4, <4>3 DEF ExecOf
        <5>. QED
          BY <1>0, <4>1, <5>1, <5>2 DEF WaitingHasEvent
      <4>. QED
        BY <4>2, <4>3
    <3>. QED
      BY <3>1 DEF WaitingHasEvent
  <2>. QED
    BY <2>6, <2>7, <2>8 DEF CallsInv
<1>5. ASSUME \/ \E k \in Contexts : Calls!DestroyContext(k)
             \/ \E on \in BOOLEAN : Calls!Loop(on)
             \/ UNCHANGED callVars
      PROVE  CallsInv'
  <2>1. UNCHANGED <<threadContext, objects, call, events>>
    BY <1>5 DEF Calls!DestroyContext, Calls!Loop, callVars
  <2>. QED
    BY <1>0, <2>1 DEF CallsInv, CallsTypes, ObjectsAreKnown, WaitingHasEvent
<1>6. CASE Calls!Destroy
  <2>1. /\ \A c \in Callers : call[c].at \notin {"swap", "post"}
        /\ threadContext' = None /\ objects' = objects \ {threadContext} /\ events' = <<>>
        /\ call' = [c \in Callers |-> [call[c] EXCEPT !.at = "idle"]]
    BY <1>6 DEF Calls!Destroy
  <2>2. \A c \in Callers : /\ call'[c].at = "idle"
                           /\ call'[c] \in [at : {"idle", "swap", "post", "waiting"},
                                            context : Contexts \cup {None}, exec : BOOLEAN]
    BY <1>0, <2>1 DEF CallsTypes
  <2>3. CallsTypes'
    BY <1>0, <2>1, <2>2, EmptyQueue DEF CallsTypes
  <2>4. ObjectsAreKnown'
    BY <1>0, <2>1, <2>2, EmptyQueue DEF ObjectsAreKnown
  <2>5. WaitingHasEvent'
    <3>1. \A c \in Callers : OneOf(<<>>, ExecOf(c))
      BY EmptyQueue
    <3>. QED
      BY <2>1, <2>2, <3>1, EmptyQueue DEF WaitingHasEvent
  <2>. QED
    BY <2>3, <2>4, <2>5 DEF CallsInv
<1>. QED
  BY <1>1, <1>2, <1>3, <1>4, <1>5, <1>6 DEF Calls!Next

-----------------------------------------------------------------------------
(* DTimedLoop and the readings of words.                                   *)
LoopInv == Loop!TypeOK /\ execs \in Nat

LEMMA LoopStep == LoopInv /\ [Loop!Next]_loopVars => LoopInv'
<1>. SUFFICES ASSUME LoopInv, [Loop!Next]_loopVars PROVE LoopInv'
  OBVIOUS
<1>. USE DEF LoopInv, Loop!TypeOK
<1>1. ASSUME NEW withTime \in BOOLEAN, Loop!Exec(withTime) PROVE LoopInv'
  BY <1>1 DEF Loop!Exec
<1>2. ASSUME NEW withTime \in BOOLEAN, Loop!ExecAgain(withTime) PROVE LoopInv'
  BY <1>2 DEF Loop!ExecAgain
<1>3. ASSUME NEW i \in timers, Loop!TimerFires(i) PROVE LoopInv'
  BY <1>3 DEF Loop!TimerFires
<1>4. ASSUME NEW c \in Callers, Loop!Exit(c) \/ Loop!RunExit(c) PROVE LoopInv'
  BY <1>4 DEF Loop!Exit, Loop!RunExit
<1>5. CASE Loop!ExitInMain \/ Loop!Return \/ Loop!Handler
  BY <1>5 DEF Loop!ExitInMain, Loop!Return, Loop!Handler
<1>6. CASE UNCHANGED loopVars
  BY <1>6 DEF loopVars
<1>. QED
  BY <1>1, <1>2, <1>3, <1>4, <1>5, <1>6 DEF Loop!Next

-----------------------------------------------------------------------------
(* The generated configuration class.  The values that are under way to    *)
(* the copy of key k, and those that are under way to the DConfig.         *)
UserEvents ==
    [do : {"update"}, key : Keys, value : Values]
    \cup [do : {"succeed", "fail", "free"}, key : {None}, value : {None}]
ConfigEvents ==
    [do : {"set"}, key : Keys, value : Values \cup {None}]
    \cup [do : {"notify"}, key : Keys, value : {None}]
    \cup [do : {"create", "release"}, key : {None}, value : {None}]
SetEvents  == [do : {"set"}, key : Keys, value : Values]
Told       == {e \in UserEvents : e.do \in {"succeed", "fail"}}
Updates(k) == {e \in UserEvents : e.do = "update" /\ e.key = k}
Creates    == {e \in ConfigEvents : e.do = "create"}

PrefTypes ==
    /\ Preference!TypeOK
    /\ m_config \in {"none", "live", "deleted"} /\ data \in {"live", "deleted"}
    /\ user \in BOOLEAN /\ linked \in BOOLEAN
    /\ p \in [Keys -> Values] /\ saved \in [Keys -> Values \cup {None}]
    /\ setting \in SetEvents \cup {None}
    /\ initLeft \subseteq Keys
    /\ configEvents \in Seq(ConfigEvents) /\ userEvents \in Seq(UserEvents)

(* How far the DConfig is, while the object exists.                        *)
Phases ==
    /\ OneOf(configEvents, Creates)
    /\ user =>
       /\ m_status # "Destroyed"
       /\ \A e \in Range(userEvents) : e.do # "free"
       /\ \A e \in Range(configEvents) : e.do # "release"
       /\ m_status = "Invalid" => m_config = "none"
       /\ m_status # "Invalid" => Range(configEvents) \cap Creates = {}
       /\ m_status = "Succeeded" => m_config = "live"
       /\ m_config = "none" => initLeft = {}
       /\ m_config = "live" /\ initLeft = {} /\ Keys # {} => linked
       /\ initLeft # {} => m_status = "Initializing" /\ Range(userEvents) \cap Told = {}
       /\ OneOf(userEvents, Told)
       /\ \A e \in Range(userEvents) : e.do = "succeed" => m_config = "live"
       /\ Range(userEvents) \cap Told # {} => m_status = "Initializing"

(* Until a key is initialized nothing is on its way to its copy.           *)
NoUpdatesYet ==
    user => \A k \in Keys :
        m_config = "none" \/ k \in initLeft => Range(userEvents) \cap Updates(k) = {}

(* What the copy of k, now c, is going to be once all of s is delivered.   *)
Becomes(s, c, k, x) ==
    IF Range(s) \cap Updates(k) = {} THEN c = x
    ELSE \E e \in Updates(k) : LastAmong(s, Updates(k), e) /\ e.value = x
UnderWay(k) == {e \in Range(configEvents) \cup ({setting} \ {None}) : e.key = k}

(* The copy becomes the value of the DConfig, or the DConfig is going to   *)
(* be told what the copy becomes, or is going to look itself.              *)
Agrees(k) ==
    \/ Becomes(userEvents, p[k], k, Preference!Value(k))
    \/ \E e \in UnderWay(k) :
          \/ e.do = "notify"
          \/ e.do = "set" /\ Becomes(userEvents, p[k], k, Preference!Shown(e.value))
InitializedAgree ==
    user /\ m_config = "live" => \A k \in Keys \ initLeft : Agrees(k)

PrefInv == PrefTypes /\ Phases /\ NoUpdatesYet /\ InitializedAgree

LEMMA PrefEvents ==
    /\ \A k \in Keys, v \in Values : /\ Preference!Event("update", k, v) \in UserEvents
                                     /\ Preference!Event("update", k, v) \in Updates(k)
                                     /\ Preference!Event("set", k, v) \in SetEvents
    /\ \A k \in Keys, v \in Values \cup {None} : Preference!Event("set", k, v) \in ConfigEvents
    /\ \A k \in Keys : Preference!Event("notify", k, None) \in ConfigEvents
    /\ SetEvents \subseteq ConfigEvents
    /\ {Preference!Succeed, Preference!Fail, Preference!FreeData} \subseteq UserEvents
    /\ {Preference!Create, Preference!Release} \subseteq ConfigEvents
    /\ \A e \in ConfigEvents : e.do = "create" <=> e = Preference!Create
    /\ \A e \in ConfigEvents : e.do = "release" <=> e = Preference!Release
    /\ \A e \in ConfigEvents : e.do \in {"set", "notify"} => e.key \in Keys
    /\ \A e \in ConfigEvents : e.do = "set" => e.value \in Values \cup {None}
    /\ \A e \in UserEvents : e.do = "update" => e.key \in Keys /\ e.value \in Values
BY DEF Preference!Event, UserEvents, Updates, SetEvents, ConfigEvents, Preference!Succeed,
   Preference!Fail, Preference!FreeData, Preference!Create, Preference!Release

LEMMA PrefAssumption ==
    Original \in Values /\ None \notin Values /\ None \notin SetEvents
BY MCThreadsAssumption DEF Preference!DConfigPreferenceAssumption, SetEvents

(* What is delivered last is what the copy becomes.                        *)
LEMMA BecomesAppended ==
    ASSUME NEW s \in Seq(UserEvents), NEW e \in UserEvents, NEW k, NEW c
    PROVE  /\ e \in Updates(k) => Becomes(Append(s, e), c, k, e.value)
           /\ e \notin Updates(k) =>
                 \A x : Becomes(s, c, k, x) => Becomes(Append(s, e), c, k, x)
<1>1. /\ Range(Append(s, e)) = Range(s) \cup {e}
      /\ \A K, x : LastAmong(Append(s, e), K, x)
                      <=> IF e \in K THEN x = e ELSE LastAmong(s, K, x)
  BY AppendedIsLast
<1>2. ASSUME e \in Updates(k) PROVE Becomes(Append(s, e), c, k, e.value)
  BY <1>1, <1>2 DEF Becomes
<1>3. ASSUME e \notin Updates(k), NEW x, Becomes(s, c, k, x)
      PROVE  Becomes(Append(s, e), c, k, x)
  <2>1. Range(Append(s, e)) \cap Updates(k) = Range(s) \cap Updates(k)
    BY <1>1, <1>3
  <2>. QED
    BY <1>1, <1>3, <2>1 DEF Becomes
<1>. QED
  BY <1>2, <1>3

LEMMA LastOfTail ==
    ASSUME NEW T, NEW s \in Seq(T), s # <<>>, NEW K, NEW x, LastAmong(s, K, x)
    PROVE  IF Range(Tail(s)) \cap K = {} THEN x = Head(s) ELSE LastAmong(Tail(s), K, x)
<1>1. /\ Len(s) \in Nat \ {0} /\ DOMAIN s = 1..Len(s)
      /\ DOMAIN Tail(s) = 1..(Len(s) - 1)
      /\ \A i \in 1..(Len(s) - 1) : Tail(s)[i] = s[i + 1]
      /\ s[1] = Head(s)
  BY HeadTailProperties, EmptySeq
<1>2. PICK i \in 1..Len(s) : s[i] = x /\ \A j \in 1..Len(s) : j > i => s[j] \notin K
  BY <1>1 DEF LastAmong
<1>3. x \in K
  BY DEF LastAmong
<1>4. CASE i = 1
  <2>1. \A j \in 1..(Len(s) - 1) : Tail(s)[j] \notin K
    <3>1. ASSUME NEW j \in 1..(Len(s) - 1) PROVE Tail(s)[j] \notin K
      <4>1. j + 1 \in 1..Len(s) /\ j + 1 > i
        BY <1>1, <1>4
      <4>. QED
        BY <1>1, <1>2, <4>1
    <3>. QED
      BY <3>1
  <2>2. Range(Tail(s)) \cap K = {}
    BY <1>1, <2>1 DEF Range
  <2>. QED
    BY <1>1, <1>2, <1>4, <2>2
<1>5. CASE i > 1
  <2>1. i - 1 \in DOMAIN Tail(s) /\ Tail(s)[i - 1] = x
    <3>1. i - 1 \in 1..(Len(s) - 1) /\ (i - 1) + 1 = i
      BY <1>1, <1>5
    <3>. QED
      BY <1>1, <1>2, <3>1
  <2>2. ASSUME NEW j \in DOMAIN Tail(s), j > i - 1 PROVE Tail(s)[j] \notin K
    <3>1. j + 1 \in 1..Len(s) /\ j + 1 > i /\ Tail(s)[j] = s[j + 1]
      BY <1>1, <2>2
    <3>. QED
      BY <1>2, <3>1
  <2>3. LastAmong(Tail(s), K, x)
    BY <1>3, <2>1, <2>2 DEF LastAmong
  <2>4. Range(Tail(s)) \cap K # {}
    BY <1>3, <2>1 DEF Range
  <2>. QED
    BY <2>3, <2>4
<1>. QED
  BY <1>1, <1>4, <1>5

LEMMA BecomesDelivered ==
    ASSUME NEW s \in Seq(UserEvents), s # <<>>, NEW k, NEW c, NEW x, Becomes(s, c, k, x)
    PROVE  IF Head(s) \in Updates(k) THEN Becomes(Tail(s), Head(s).value, k, x)
           ELSE Becomes(Tail(s), c, k, x)
<1>. DEFINE d == IF Head(s) \in Updates(k) THEN Head(s).value ELSE c
<1>1. Range(s) = Range(Tail(s)) \cup {Head(s)}
  BY TakenIsFirst
<1>2. CASE Range(s) \cap Updates(k) = {}
  BY <1>1, <1>2 DEF Becomes
<1>3. CASE Range(s) \cap Updates(k) # {}
  <2>1. PICK e \in Updates(k) : LastAmong(s, Updates(k), e) /\ e.value = x
    BY <1>3 DEF Becomes
  <2>2. IF Range(Tail(s)) \cap Updates(k) = {} THEN e = Head(s)
        ELSE LastAmong(Tail(s), Updates(k), e)
    BY <2>1, LastOfTail
  <2>3. CASE Range(Tail(s)) \cap Updates(k) = {}
    BY <2>1, <2>2, <2>3 DEF Becomes
  <2>4. CASE Range(Tail(s)) \cap Updates(k) # {}
    BY <2>1, <2>2, <2>4 DEF Becomes
  <2>. QED
    BY <2>3, <2>4
<1>. QED
  BY <1>2, <1>3

LEMMA AgreesKept ==
    ASSUME NEW k, Agrees(k), Preference!Value(k)' = Preference!Value(k),
           \A x : Becomes(userEvents, p[k], k, x) => Becomes(userEvents', p'[k], k, x),
           UnderWay(k) \subseteq UnderWay(k)'
    PROVE  Agrees(k)'
<1>1. CASE Becomes(userEvents, p[k], k, Preference!Value(k))
  BY <1>1 DEF Agrees
<1>2. ASSUME NEW e \in UnderWay(k),
             \/ e.do = "notify"
             \/ e.do = "set" /\ Becomes(userEvents, p[k], k, Preference!Shown(e.value))
      PROVE  Agrees(k)'
  <2>1. e \in UnderWay(k)'
    OBVIOUS
  <2>2. \/ e.do = "notify"
        \/ e.do = "set" /\ Becomes(userEvents', p'[k], k, Preference!Shown(e.value))
    BY <1>2
  <2>. QED
    BY <2>1, <2>2 DEF Agrees, Preference!Shown
<1>. QED
  BY <1>1, <1>2 DEF Agrees

(* The setter marks; then it posts, or another call or program does.       *)
LEMMA PrefSet ==
    ASSUME PrefInv, NEW k \in Keys, NEW v \in Values, Preference!Set(k, v)
    PROVE  PrefInv'
<1>0. PrefTypes /\ Phases /\ NoUpdatesYet /\ InitializedAgree
  BY DEF PrefInv
<1>1. /\ user /\ setting = None
      /\ p' = [p EXCEPT ![k] = v] /\ propertySet' = propertySet \cup {k}
      /\ setting' = Preference!Event("set", k, v)
      /\ UNCHANGED <<m_status, m_config, data, user, saved, linked, initLeft,
                     configEvents, userEvents, freed>>
  BY DEF Preference!Set, Preference!Busy
<1>2. /\ setting' \in SetEvents /\ setting' # None
      /\ setting'.do = "set" /\ setting'.key = k /\ setting'.value = v
  BY <1>1, PrefEvents, PrefAssumption DEF Preference!Event
<1>3. PrefTypes'
  BY <1>0, <1>1, <1>2 DEF PrefTypes, Preference!TypeOK
<1>4. Phases' /\ NoUpdatesYet'
  BY <1>0, <1>1 DEF Phases, NoUpdatesYet
<1>5. ASSUME m_config = "live", NEW j \in Keys \ initLeft PROVE Agrees(j)'
  <2>1. Agrees(j) /\ Preference!Value(j)' = Preference!Value(j)
    BY <1>0, <1>1, <1>5 DEF InitializedAgree, Preference!Value
  <2>2. UnderWay(j) \subseteq UnderWay(j)'
    BY <1>1 DEF UnderWay
  <2>3. CASE j = k /\ Range(userEvents) \cap Updates(k) = {}
    <3>1. Becomes(userEvents', p'[k], k, v)
      BY <1>0, <1>1, <2>3 DEF Becomes, PrefTypes
    <3>2. setting' \in UnderWay(k)' /\ Preference!Shown(v) = v
      BY <1>2, PrefAssumption DEF UnderWay, Preference!Shown
    <3>. QED
      BY <1>2, <2>3, <3>1, <3>2 DEF Agrees, Preference!Shown
  <2>4. CASE j # k \/ Range(userEvents) \cap Updates(k) # {}
    <3>1. \A x : Becomes(userEvents, p[j], j, x) => Becomes(userEvents', p'[j], j, x)
      BY <1>0, <1>1, <2>4 DEF Becomes, PrefTypes
    <3>. QED
      BY <2>1, <2>2, <3>1, AgreesKept
  <2>. QED
    BY <2>3, <2>4
<1>. QED
  BY <1>1, <1>3, <1>4, <1>5 DEF PrefInv, InitializedAgree

LEMMA PrefPosted ==
    ASSUME PrefInv, NEW e \in ConfigEvents, e.do \in {"set", "notify"},
           configEvents' = Append(configEvents, e),
           setting' = setting \/ (setting' = None /\ setting = e),
           UNCHANGED <<m_status, m_config, data, user, p, propertySet, linked,
                       initLeft, userEvents, freed>>,
           saved' \in [Keys -> Values \cup {None}],
           \A j \in Keys : (e.do = "notify" /\ j = e.key) \/ saved'[j] = saved[j]
    PROVE  PrefInv'
<1>0. PrefTypes /\ Phases /\ NoUpdatesYet /\ InitializedAgree
  BY DEF PrefInv
<1>1. /\ configEvents \in Seq(ConfigEvents) /\ configEvents' \in Seq(ConfigEvents)
      /\ Range(configEvents') = Range(configEvents) \cup {e}
      /\ e \notin Creates /\ e.do # "release"
      /\ OneOf(configEvents, Creates) => OneOf(configEvents', Creates)
  <2>1. e \notin Creates /\ e.do # "release" /\ configEvents \in Seq(ConfigEvents)
    BY <1>0 DEF Creates, PrefTypes
  <2>. QED
    BY <2>1, AppendedIsLast, OneOfQueue
<1>2. PrefTypes'
  BY <1>0, <1>1 DEF PrefTypes, Preference!TypeOK
<1>3. Phases'
  <2>1. OneOf(configEvents', Creates)
    BY <1>0, <1>1 DEF Phases
  <2>2. user => \A a \in Range(configEvents') : a.do # "release"
    BY <1>0, <1>1 DEF Phases
  <2>3. user => (m_status # "Invalid" => Range(configEvents') \cap Creates = {})
    BY <1>0, <1>1 DEF Phases
  <2>. QED
    BY <1>0, <2>1, <2>2, <2>3 DEF Phases, Creates, Told
<1>4. NoUpdatesYet'
  BY <1>0 DEF NoUpdatesYet
<1>5. ASSUME user, m_config = "live", NEW j \in Keys \ initLeft PROVE Agrees(j)'
  <2>1. Agrees(j)
    BY <1>0, <1>5 DEF InitializedAgree
  <2>2. UnderWay(j) \subseteq UnderWay(j)'
    BY <1>1 DEF UnderWay
  <2>3. CASE saved'[j] = saved[j]
    <3>1. Preference!Value(j)' = Preference!Value(j)
      BY <2>3 DEF Preference!Value
    <3>. QED
      BY <2>1, <2>2, <3>1, AgreesKept
  <2>4. CASE e.do = "notify" /\ j = e.key
    BY <1>1, <2>4 DEF Agrees, UnderWay
  <2>. QED
    BY <2>3, <2>4
<1>. QED
  BY <1>2, <1>3, <1>4, <1>5 DEF PrefInv, InitializedAgree

(* What happens without the DConfig, and what changes no value.            *)
LEMMA PrefQuiet ==
    ASSUME PrefInv,
           UNCHANGED <<m_status, m_config, data, user, p, propertySet, linked, initLeft,
                       configEvents, userEvents, freed>>,
           setting' = setting \/ setting' = None,
           saved' \in [Keys -> Values \cup {None}],
           m_config = "live" => setting' = setting /\ saved' = saved
    PROVE  PrefInv'
<1>0. PrefTypes /\ Phases /\ NoUpdatesYet /\ InitializedAgree
  BY DEF PrefInv
<1>1. PrefTypes'
  BY <1>0 DEF PrefTypes, Preference!TypeOK
<1>2. Phases' /\ NoUpdatesYet'
  BY <1>0 DEF Phases, NoUpdatesYet
<1>3. ASSUME user, m_config = "live", NEW j \in Keys \ initLeft PROVE Agrees(j)'
  BY <1>0, <1>3 DEF InitializedAgree, Agrees, UnderWay, Preference!Value
<1>. QED
  BY <1>1, <1>2, <1>3 DEF PrefInv, InitializedAgree

LEMMA PrefPostSteps ==
    ASSUME PrefInv,
           \/ Preference!PostSet \/ \E k \in Keys : Preference!Reset(k)
           \/ \E k \in Keys, v \in Values : Preference!Outside(k, v)
    PROVE  PrefInv'
<1>0. PrefTypes /\ Phases
  BY DEF PrefInv
<1>1. CASE Preference!PostSet
  <2>1. /\ setting # None /\ setting' = None
        /\ configEvents' = IF m_config = "none" THEN configEvents
                           ELSE Append(configEvents, setting)
        /\ UNCHANGED <<m_status, m_config, data, user, p, propertySet, saved, linked,
                       initLeft, userEvents, freed>>
    BY <1>1 DEF Preference!PostSet, Preference!Busy
  <2>2. setting \in ConfigEvents /\ setting.do = "set"
    BY <1>0, <2>1, PrefEvents DEF PrefTypes, SetEvents
  <2>3. saved' \in [Keys -> Values \cup {None}] /\ saved' = saved
    BY <1>0, <2>1 DEF PrefTypes
  <2>4. CASE m_config = "none"
    BY <2>1, <2>3, <2>4, PrefQuiet
  <2>5. CASE m_config # "none"
    <3>1. PICK e \in ConfigEvents : e = setting
      BY <2>2
    <3>2. /\ e.do \in {"set", "notify"} /\ configEvents' = Append(configEvents, e)
          /\ setting' = None /\ setting = e
      BY <2>1, <2>2, <2>5, <3>1
    <3>. QED
      BY <2>1, <2>3, <3>2, PrefPosted
  <2>. QED
    BY <2>4, <2>5
<1>2. ASSUME NEW k \in Keys, Preference!Reset(k) PROVE PrefInv'
  <2>0. Preference!Event("set", k, None) \in ConfigEvents
    <3>1. None \in Values \cup {None}
      OBVIOUS
    <3>. QED
      BY <3>1, PrefEvents
  <2>1. PICK e \in ConfigEvents : e = Preference!Event("set", k, None) /\ e.do = "set"
    BY <2>0 DEF Preference!Event
  <2>2. /\ configEvents' = Append(configEvents, e)
        /\ UNCHANGED <<m_status, m_config, data, user, p, propertySet, saved, linked, setting,
                       initLeft, userEvents, freed>>
    BY <1>2, <2>1 DEF Preference!Reset
  <2>3. saved' \in [Keys -> Values \cup {None}] /\ saved' = saved
    BY <1>0, <2>2 DEF PrefTypes
  <2>. QED
    BY <2>1, <2>2, <2>3, PrefPosted
<1>3. ASSUME NEW k \in Keys, NEW v \in Values, Preference!Outside(k, v) PROVE PrefInv'
  <2>1. PICK e \in ConfigEvents :
            e = Preference!Event("notify", k, None) /\ e.do = "notify" /\ e.key = k
    BY PrefEvents DEF Preference!Event
  <2>2. /\ saved' = [saved EXCEPT ![k] = v]
        /\ configEvents' = IF v # saved[k] /\ m_config = "live" THEN Append(configEvents, e)
                           ELSE configEvents
        /\ UNCHANGED <<m_status, m_config, data, user, p, propertySet, linked, setting,
                       initLeft, userEvents, freed>>
    BY <1>3, <2>1 DEF Preference!Outside
  <2>3. /\ saved \in [Keys -> Values \cup {None}] /\ saved' \in [Keys -> Values \cup {None}]
        /\ saved'[k] = v /\ \A j \in Keys : j = k \/ saved'[j] = saved[j]
    BY <1>0, <2>2 DEF PrefTypes
  <2>4. CASE v # saved[k] /\ m_config = "live"
    <3>1. /\ configEvents' = Append(configEvents, e)
          /\ \A j \in Keys : (e.do = "notify" /\ j = e.key) \/ saved'[j] = saved[j]
      BY <2>1, <2>2, <2>3, <2>4
    <3>. QED
      BY <2>1, <2>2, <2>3, <3>1, PrefPosted
  <2>5. CASE ~(v # saved[k] /\ m_config = "live")
    <3>1. configEvents' = configEvents
      BY <2>2, <2>5
    <3>2. m_config = "live" => saved' = saved
      BY <2>2, <2>3, <2>5
    <3>. QED
      BY <2>2, <2>3, <3>1, <3>2, PrefQuiet
  <2>. QED
    BY <2>4, <2>5
<1>. QED
  BY <1>1, <1>2, <1>3

(* Without the object nothing has to agree any more.                       *)
LEMMA PrefGone == PrefTypes' /\ OneOf(configEvents', Creates) /\ ~user' => PrefInv'
BY DEF PrefInv, Phases, NoUpdatesYet, InitializedAgree

LEMMA PrefDestroy ==
    ASSUME PrefInv, Preference!Destroy
    PROVE  PrefInv'
<1>0. PrefTypes /\ Phases
  BY DEF PrefInv
<1>1. /\ user' = FALSE /\ m_status' = "Destroyed"
      /\ configEvents' = configEvents \/ configEvents' = Append(configEvents, Preference!Release)
      /\ userEvents' = userEvents \/ userEvents' = Append(userEvents, Preference!FreeData)
      /\ UNCHANGED <<m_config, data, p, propertySet, saved, linked, setting, initLeft, freed>>
  BY DEF Preference!Destroy
<1>2. Preference!Release \in ConfigEvents /\ Preference!FreeData \in UserEvents
      /\ Preference!Release \notin Creates
  BY PrefEvents DEF Creates, Preference!Release, Preference!Event
<1>3. configEvents \in Seq(ConfigEvents) /\ userEvents \in Seq(UserEvents)
      /\ OneOf(configEvents, Creates)
  BY <1>0 DEF PrefTypes, Phases
<1>4. configEvents' \in Seq(ConfigEvents) /\ OneOf(configEvents', Creates)
  <2>1. Append(configEvents, Preference!Release) \in Seq(ConfigEvents)
    BY <1>2, <1>3, AppendedIsLast
  <2>2. OneOf(Append(configEvents, Preference!Release), Creates)
    BY <1>2, <1>3, OneOfQueue
  <2>. QED
    BY <1>1, <1>3, <2>1, <2>2
<1>5. userEvents' \in Seq(UserEvents)
  BY <1>1, <1>2, <1>3, AppendedIsLast
<1>6. PrefTypes'
  BY <1>0, <1>1, <1>4, <1>5 DEF PrefTypes, Preference!TypeOK
<1>. QED
  BY <1>1, <1>4, <1>6, PrefGone

(* The user's thread takes an event: a value, or how the making of the     *)
(* DConfig ended.                                                          *)
LEMMA PrefUserTypes ==
    ASSUME PrefInv, Preference!UserEvent
    PROVE  /\ PrefTypes' /\ OneOf(configEvents', Creates)
           /\ userEvents # <<>> /\ userEvents' = Tail(userEvents)
           /\ UNCHANGED <<m_config, user, propertySet, saved, linked, setting, initLeft>>
           /\ user =>
              \/ /\ Head(userEvents).do = "update"
                 /\ p' = [p EXCEPT ![Head(userEvents).key] = Head(userEvents).value]
                 /\ UNCHANGED <<m_status, data, configEvents>>
              \/ /\ Head(userEvents) \in Told
                 /\ m_status = "Initializing"
                 /\ m_status' = IF Head(userEvents).do = "succeed" THEN "Succeeded"
                                ELSE "Failed"
                 /\ UNCHANGED <<p, data, configEvents>>
<1>0. PrefTypes /\ Phases
  BY DEF PrefInv
<1>1. /\ userEvents # <<>> /\ userEvents' = Tail(userEvents)
      /\ UNCHANGED <<m_config, user, propertySet, saved, linked, setting, initLeft>>
  BY DEF Preference!UserEvent
<1>2. PICK e \in UserEvents : e = Head(userEvents) /\ e \in Range(userEvents)
  BY <1>0, <1>1, TakenIsFirst DEF PrefTypes
<1>3. userEvents' \in Seq(UserEvents)
  BY <1>0, <1>1, TakenIsFirst DEF PrefTypes
<1>4. \/ /\ data = "deleted" /\ UNCHANGED <<p, m_status, data, configEvents, freed>>
      \/ /\ data = "live" /\ e.do = "update"
         /\ p' = IF user THEN [p EXCEPT ![e.key] = e.value] ELSE p
         /\ UNCHANGED <<m_status, data, configEvents, freed>>
      \/ /\ data = "live" /\ e.do \in {"succeed", "fail"} /\ m_status = "Initializing"
         /\ m_status' = IF e.do = "succeed" THEN "Succeeded" ELSE "Failed"
         /\ UNCHANGED <<p, data, configEvents, freed>>
      \/ /\ data = "live" /\ e.do \in {"succeed", "fail"} /\ m_status # "Initializing"
         /\ configEvents' = configEvents
            \/ configEvents' = Append(configEvents, Preference!Release)
         /\ data' = "deleted" /\ freed' = freed + 1 /\ UNCHANGED <<p, m_status>>
      \/ /\ data = "live" /\ e.do = "free" /\ data' = "deleted" /\ freed' = freed + 1
         /\ UNCHANGED <<p, m_status, configEvents>>
  <2>1. data \in {"live", "deleted"}
    BY <1>0 DEF PrefTypes
  <2>. QED
    BY <1>2, <2>1 DEF Preference!UserEvent, Preference!Update, Preference!Told, Preference!Free
<1>5. Preference!Release \in ConfigEvents /\ Preference!Release \notin Creates
  BY PrefEvents DEF Creates, Preference!Release, Preference!Event
<1>6. configEvents \in Seq(ConfigEvents) /\ OneOf(configEvents, Creates)
  BY <1>0 DEF PrefTypes, Phases
<1>7. configEvents' \in Seq(ConfigEvents) /\ OneOf(configEvents', Creates)
  <2>1. Append(configEvents, Preference!Release) \in Seq(ConfigEvents)
    BY <1>5, <1>6, AppendedIsLast
  <2>2. OneOf(Append(configEvents, Preference!Release), Creates)
    BY <1>5, <1>6, OneOfQueue
  <2>. QED
    BY <1>4, <1>6, <2>1, <2>2
<1>8. user => data = "live" /\ e.do # "free"
              /\ (e.do \in {"succeed", "fail"} => e \in Told /\ m_status = "Initializing")
  BY <1>0, <1>2 DEF PrefTypes, Preference!TypeOK, Phases, Told
<1>9. p' \in [Keys -> Values]
  <2>1. e.do = "update" => e.key \in Keys /\ e.value \in Values
    BY PrefEvents
  <2>. QED
    BY <1>0, <1>4, <2>1 DEF PrefTypes
<1>10. /\ data' \in {"live", "deleted"} /\ freed' = (IF data' = "deleted" THEN 1 ELSE 0)
       /\ m_status' \in {"Invalid", "Initializing", "Succeeded", "Failed", "Destroyed"}
       /\ user' => data' = "live"
  BY <1>0, <1>1, <1>4, <1>8 DEF PrefTypes, Preference!TypeOK
<1>11. PrefTypes'
  BY <1>0, <1>1, <1>3, <1>7, <1>9, <1>10 DEF PrefTypes, Preference!TypeOK
<1>. QED
  BY <1>1, <1>2, <1>4, <1>7, <1>8, <1>11

LEMMA PrefUser ==
    ASSUME PrefInv, Preference!UserEvent
    PROVE  PrefInv'
<1>0. PrefTypes /\ Phases /\ NoUpdatesYet /\ InitializedAgree
  BY DEF PrefInv
<1>1. /\ PrefTypes' /\ OneOf(configEvents', Creates)
      /\ userEvents # <<>> /\ userEvents' = Tail(userEvents)
      /\ UNCHANGED <<m_config, user, propertySet, saved, linked, setting, initLeft>>
  BY PrefUserTypes
<1>2. CASE ~user
  BY <1>1, <1>2, PrefGone
<1>3. CASE user
  <2>1. PICK e \in UserEvents : e = Head(userEvents)
    BY <1>0, <1>1, TakenIsFirst DEF PrefTypes
  <2>2. /\ Range(userEvents) = Range(userEvents') \cup {e}
        /\ OneOf(userEvents, Told) =>
              OneOf(userEvents', Told) /\ (e \in Told => Range(userEvents') \cap Told = {})
    <3>1. userEvents \in Seq(UserEvents)
      BY <1>0 DEF PrefTypes
    <3>. QED
      BY <1>1, <2>1, <3>1, TakenIsFirst, OneOfQueue
  <2>3. \/ /\ e.do = "update"
           /\ p' = [p EXCEPT ![e.key] = e.value]
           /\ UNCHANGED <<m_status, data, configEvents>>
        \/ /\ e \in Told /\ m_status = "Initializing"
           /\ m_status' = IF e.do = "succeed" THEN "Succeeded" ELSE "Failed"
           /\ UNCHANGED <<p, data, configEvents>>
    BY <1>3, <2>1, PrefUserTypes
  <2>4. UNCHANGED configEvents
    BY <2>3
  <2>5. NoUpdatesYet'
    BY <1>0, <1>1, <2>2 DEF NoUpdatesYet
  <2>6. Phases'
    <3>1. /\ m_status # "Destroyed"
          /\ \A x \in Range(userEvents) : x.do # "free"
          /\ \A x \in Range(configEvents) : x.do # "release"
          /\ m_status = "Invalid" => m_config = "none"
          /\ m_status # "Invalid" => Range(configEvents) \cap Creates = {}
          /\ m_status = "Succeeded" => m_config = "live"
          /\ m_config = "none" => initLeft = {}
          /\ m_config = "live" /\ initLeft = {} /\ Keys # {} => linked
          /\ initLeft # {} => m_status = "Initializing" /\ Range(userEvents) \cap Told = {}
          /\ OneOf(userEvents, Told)
          /\ \A x \in Range(userEvents) : x.do = "succeed" => m_config = "live"
          /\ Range(userEvents) \cap Told # {} => m_status = "Initializing"
      BY <1>0, <1>3 DEF Phases
    <3>2. CASE e \in Told
      <4>1. /\ m_status = "Initializing" /\ initLeft = {}
            /\ m_status' \in {"Succeeded", "Failed"}
            /\ m_status' = "Succeeded" => m_config = "live"
            /\ Range(userEvents') \cap Told = {}
        BY <2>2, <2>3, <3>1, <3>2 DEF Told
      <4>. QED
        BY <1>1, <2>2, <2>4, <3>1, <4>1 DEF Phases
    <3>3. CASE e \notin Told
      <4>1. m_status' = m_status
        BY <2>3, <3>3
      <4>. QED
        BY <1>1, <2>2, <2>4, <3>1, <4>1 DEF Phases
    <3>. QED
      BY <3>2, <3>3
  <2>7. ASSUME m_config = "live", NEW j \in Keys \ initLeft PROVE Agrees(j)'
    <3>1. \A x : Becomes(userEvents, p[j], j, x) => Becomes(userEvents', p'[j], j, x)
      <4>1. userEvents \in Seq(UserEvents) /\ p \in [Keys -> Values]
        BY <1>0 DEF PrefTypes
      <4>2. p'[j] = IF e \in Updates(j) THEN e.value ELSE p[j]
        <5>1. e \in Updates(j) <=> e.do = "update" /\ e.key = j
          BY DEF Updates
        <5>2. e \in Told => e.do # "update"
          BY DEF Told
        <5>. QED
          BY <2>3, <4>1, <5>1, <5>2
      <4>. QED
        BY <1>1, <2>1, <4>1, <4>2, BecomesDelivered
    <3>2. /\ Agrees(j) /\ Preference!Value(j)' = Preference!Value(j)
          /\ UnderWay(j) \subseteq UnderWay(j)'
      BY <1>0, <1>1, <1>3, <2>4, <2>7
         DEF InitializedAgree, Preference!Value, UnderWay
    <3>. QED
      BY <3>1, <3>2, AgreesKept
  <2>. QED
    BY <1>1, <2>5, <2>6, <2>7 DEF PrefInv, InitializedAgree
<1>. QED
  BY <1>2, <1>3

(* A key is initialized: its copy is told the value, or the DConfig is     *)
(* given what was set in the meantime.                                     *)
LEMMA PrefInitializeKey ==
    ASSUME PrefInv, NEW k \in Keys, Preference!InitializeKey(k)
    PROVE  PrefInv'
<1>0. PrefTypes /\ Phases /\ NoUpdatesYet /\ InitializedAgree
  BY DEF PrefInv
<1>1. /\ k \in initLeft /\ initLeft' = initLeft \ {k} /\ linked' = (initLeft = {k})
      /\ saved' = IF k \in propertySet THEN [saved EXCEPT ![k] = p[k]] ELSE saved
      /\ propertySet' = propertySet \/ propertySet' = propertySet \cup {k}
      /\ UNCHANGED <<m_status, m_config, data, user, p, setting, configEvents, freed>>
  BY DEF Preference!InitializeKey
<1>2. /\ userEvents \in Seq(UserEvents) /\ p[k] \in Values /\ saved[k] \in Values \cup {None}
      /\ p \in [Keys -> Values] /\ saved \in [Keys -> Values \cup {None}]
  BY <1>0 DEF PrefTypes
<1>3. PICK e \in UserEvents : /\ e = Preference!Event("update", k, Preference!Value(k))
                              /\ e \in Updates(k) /\ e.value = Preference!Value(k)
                              /\ e.do = "update"
  <2>1. Preference!Value(k) \in Values
    BY <1>2, PrefAssumption DEF Preference!Value
  <2>. QED
    BY <2>1, PrefEvents DEF Preference!Event
<1>4. PICK d \in UserEvents : d = Preference!Succeed /\ d.do = "succeed" /\ d \in Told
                              /\ \A j : d \notin Updates(j)
  BY PrefEvents DEF Preference!Succeed, Preference!Event, Told, Updates
<1>5. PICK s \in Seq(UserEvents) :
          s = IF k \in propertySet THEN userEvents ELSE Append(userEvents, e)
  BY <1>2, AppendedIsLast
<1>6. userEvents' = IF initLeft = {k} THEN Append(s, d) ELSE s
  <2>1. \A t \in Seq(UserEvents), x \in UserEvents : t \o <<>> = t /\ t \o <<x>> = Append(t, x)
    OBVIOUS
  <2>2. s = userEvents \o (IF k \in propertySet THEN <<>>
                           ELSE <<Preference!Event("update", k, Preference!Value(k))>>)
    BY <1>2, <1>3, <1>5, <2>1
  <2>3. userEvents' = s \o (IF initLeft = {k} THEN <<Preference!Succeed>> ELSE <<>>)
    BY <2>2 DEF Preference!InitializeKey
  <2>. QED
    BY <1>4, <2>1, <2>3
<1>7. /\ userEvents' \in Seq(UserEvents)
      /\ Range(userEvents') \subseteq Range(userEvents) \cup {e, d}
      /\ d \in Range(userEvents') => d \in Range(userEvents) \/ initLeft = {k}
  <2>1. Range(s) \subseteq Range(userEvents) \cup {e}
    BY <1>2, <1>5, AppendedIsLast
  <2>2. /\ Append(s, d) \in Seq(UserEvents) /\ Range(Append(s, d)) = Range(s) \cup {d}
    BY AppendedIsLast
  <2>3. e # d
    BY <1>3, <1>4
  <2>. QED
    BY <1>6, <2>1, <2>2, <2>3
<1>8. PrefTypes'
  <2>1. saved' \in [Keys -> Values \cup {None}] /\ linked' \in BOOLEAN
    BY <1>1, <1>2
  <2>. QED
    BY <1>0, <1>1, <1>7, <2>1 DEF PrefTypes, Preference!TypeOK
<1>9. CASE ~user
  BY <1>0, <1>1, <1>8, <1>9, PrefGone DEF Phases
<1>10. CASE user
  <2>1. /\ m_config = "live" /\ m_status = "Initializing"
        /\ Range(userEvents) \cap Told = {}
        /\ Range(userEvents) \cap Updates(k) = {}
    BY <1>0, <1>1, <1>10 DEF Phases, PrefTypes, Preference!TypeOK, NoUpdatesYet
  <2>2. e \notin Told /\ e.do # "free" /\ d.do # "free"
    BY <1>3, <1>4 DEF Told
  <2>3. OneOf(userEvents', Told)
    <3>1. OneOf(userEvents, Told)
      BY <1>0, <1>10 DEF Phases
    <3>2. OneOf(s, Told)
      BY <1>2, <1>5, <2>2, <3>1, OneOfQueue
    <3>3. Range(s) \cap Told = {}
      BY <1>2, <1>5, <2>1, <2>2, AppendedIsLast
    <3>4. OneOf(Append(s, d), Told)
      BY <3>2, <3>3, OneOfQueue
    <3>. QED
      BY <1>6, <3>2, <3>4
  <2>4. Phases'
    <3>1. /\ OneOf(configEvents, Creates)
          /\ \A x \in Range(userEvents) : x.do # "free"
          /\ \A x \in Range(configEvents) : x.do # "release"
          /\ Range(configEvents) \cap Creates = {}
      BY <1>0, <1>10, <2>1 DEF Phases
    <3>2. /\ \A x \in Range(userEvents') : x.do # "free"
          /\ initLeft' # {} => Range(userEvents') \cap Told = {}
          /\ initLeft' = {} => linked'
      BY <1>1, <1>7, <2>1, <2>2, <3>1
    <3>. QED
      BY <1>1, <2>1, <2>3, <3>1, <3>2 DEF Phases
  <2>5. NoUpdatesYet'
    <3>1. ASSUME NEW j \in Keys, j \in initLeft' PROVE Range(userEvents') \cap Updates(j) = {}
      <4>1. j \in initLeft /\ j # k
        BY <1>1, <3>1
      <4>2. Range(userEvents) \cap Updates(j) = {}
        BY <1>0, <1>10, <4>1 DEF NoUpdatesYet
      <4>3. e \notin Updates(j) /\ d \notin Updates(j)
        BY <1>3, <1>4, <4>1 DEF Updates
      <4>. QED
        BY <1>7, <4>2, <4>3
    <3>. QED
      BY <1>1, <2>1, <3>1 DEF NoUpdatesYet
  <2>6. \A j, c, x : Becomes(s, c, j, x) => Becomes(userEvents', c, j, x)
    BY <1>4, <1>6, BecomesAppended
  <2>7. ASSUME NEW j \in Keys \ initLeft' PROVE Agrees(j)'
    <3>1. CASE j = k
      <4>1. CASE k \in propertySet
        <5>1. saved'[k] = p[k] /\ Preference!Value(k)' = p[k]
          BY <1>1, <1>2, <4>1, PrefAssumption DEF Preference!Value
        <5>2. Becomes(s, p[k], k, p[k])
          BY <1>5, <2>1, <4>1 DEF Becomes
        <5>3. Becomes(userEvents', p[k], k, p[k])
          BY <2>6, <5>2
        <5>4. p'[k] = p[k]
          BY <1>1
        <5>. QED
          BY <3>1, <5>1, <5>3, <5>4 DEF Agrees
      <4>2. CASE k \notin propertySet
        <5>1. Preference!Value(k)' = e.value /\ p'[k] = p[k]
          BY <1>1, <1>3, <4>2 DEF Preference!Value
        <5>2. Becomes(s, p[k], k, e.value)
          BY <1>2, <1>3, <1>5, <4>2, BecomesAppended
        <5>3. Becomes(userEvents', p[k], k, e.value)
          BY <2>6, <5>2
        <5>. QED
          BY <3>1, <5>1, <5>3 DEF Agrees
      <4>. QED
        BY <4>1, <4>2
    <3>2. CASE j # k
      <4>1. j \in Keys \ initLeft /\ saved'[j] = saved[j] /\ p'[j] = p[j]
        BY <1>1, <1>2, <3>2
      <4>2. /\ Agrees(j) /\ Preference!Value(j)' = Preference!Value(j)
            /\ UnderWay(j) \subseteq UnderWay(j)'
        BY <1>0, <1>1, <1>10, <2>1, <4>1 DEF InitializedAgree, Preference!Value, UnderWay
      <4>3. e \notin Updates(j)
        BY <1>3, <3>2 DEF Updates
      <4>4. \A x : Becomes(userEvents, p[j], j, x) => Becomes(s, p[j], j, x)
        BY <1>2, <1>5, <4>3, BecomesAppended
      <4>5. \A x : Becomes(userEvents, p[j], j, x) => Becomes(userEvents', p'[j], j, x)
        BY <2>6, <4>1, <4>4
      <4>. QED
        BY <4>2, <4>5, AgreesKept
    <3>. QED
      BY <3>1, <3>2
  <2>. QED
    BY <1>8, <2>4, <2>5, <2>7 DEF PrefInv, InitializedAgree
<1>. QED
  BY <1>9, <1>10

(* The configuration thread takes an event: it makes the DConfig, or gives *)
(* it a value, or lets the copy know what the value is.                    *)
LEMMA PrefConfigTypes ==
    ASSUME PrefInv, Preference!ConfigEvent, NEW e, e = Head(configEvents)
    PROVE  /\ PrefTypes' /\ OneOf(configEvents', Creates)
           /\ e \in ConfigEvents /\ configEvents # <<>> /\ configEvents' = Tail(configEvents)
           /\ Range(configEvents) = Range(configEvents') \cup {e}
           /\ e \in Creates => Range(configEvents') \cap Creates = {}
           /\ initLeft = {} /\ UNCHANGED <<data, user, p, setting, freed>>
<1>0. PrefTypes /\ Phases
  BY DEF PrefInv
<1>1. /\ configEvents # <<>> /\ configEvents' = Tail(configEvents) /\ initLeft = {}
      /\ UNCHANGED <<data, user, p, setting, freed>>
  BY DEF Preference!ConfigEvent
<1>2. configEvents \in Seq(ConfigEvents) /\ OneOf(configEvents, Creates)
  BY <1>0 DEF PrefTypes, Phases
<1>3. /\ e \in ConfigEvents /\ configEvents' \in Seq(ConfigEvents)
      /\ Range(configEvents) = Range(configEvents') \cup {e}
  BY <1>1, <1>2, TakenIsFirst
<1>4. OneOf(configEvents', Creates) /\ (e \in Creates => Range(configEvents') \cap Creates = {})
  BY <1>1, <1>2, OneOfQueue
<1>5. saved \in [Keys -> Values \cup {None}] /\ userEvents \in Seq(UserEvents)
  BY <1>0 DEF PrefTypes
<1>6. e.do \in {"set", "notify"} => e.key \in Keys /\ saved[e.key] \in Values \cup {None}
  BY <1>3, <1>5, PrefEvents
<1>7. e.do = "set" => e.value \in Values \cup {None}
  BY <1>3, PrefEvents
<1>8. /\ saved' \in [Keys -> Values \cup {None}]
      /\ propertySet' \subseteq Keys
  <2>1. propertySet \subseteq Keys
    BY <1>0 DEF PrefTypes, Preference!TypeOK
  <2>2. \/ saved' = saved
        \/ e.do = "set" /\ saved' = [saved EXCEPT ![e.key] = e.value]
    BY DEF Preference!ConfigEvent, Preference!SetInConfig
  <2>3. \/ propertySet' = propertySet
        \/ e.do \in {"set", "notify"}
           /\ (propertySet' = propertySet \ {e.key} \/ propertySet' = propertySet \cup {e.key})
    BY DEF Preference!ConfigEvent, Preference!SetInConfig, Preference!Refresh
  <2>. QED
    BY <1>5, <1>6, <1>7, <2>1, <2>2, <2>3
<1>9. userEvents' \in Seq(UserEvents)
  <2>1. \A v \in Values \cup {None} : Preference!Shown(v) \in Values
    BY PrefAssumption DEF Preference!Shown
  <2>2. \/ userEvents' = userEvents
        \/ userEvents' = Append(userEvents, Preference!FreeData)
        \/ userEvents' = Append(userEvents, Preference!Fail)
        \/ /\ e.do = "set"
           /\ userEvents' = Append(userEvents,
                                   Preference!Event("update", e.key, Preference!Shown(e.value)))
        \/ /\ e.do = "notify"
           /\ userEvents' = Append(userEvents, Preference!Event("update", e.key,
                                                   Preference!Shown(saved[e.key])))
    BY DEF Preference!ConfigEvent, Preference!SetInConfig, Preference!Refresh, Preference!ToUser
  <2>3. PICK x \in UserEvents : userEvents' = userEvents \/ userEvents' = Append(userEvents, x)
    <3>1. /\ Preference!FreeData \in UserEvents /\ Preference!Fail \in UserEvents
          /\ e.do = "set" =>
                Preference!Event("update", e.key, Preference!Shown(e.value)) \in UserEvents
          /\ e.do = "notify" =>
                Preference!Event("update", e.key, Preference!Shown(saved[e.key])) \in UserEvents
      BY <1>6, <1>7, <2>1, PrefEvents
    <3>. QED
      BY <2>2, <3>1
  <2>. QED
    BY <1>5, <2>3, AppendedIsLast
<1>10. user => e.do # "release"
  BY <1>0, <1>3 DEF Phases
<1>11. /\ m_status' \in {"Invalid", "Initializing", "Succeeded", "Failed", "Destroyed"}
       /\ m_config' \in {"none", "live", "deleted"} /\ initLeft' \subseteq Keys
       /\ linked' = linked
       /\ user => m_config' # "deleted"
  <2>1. /\ m_status' = m_status \/ m_status' = "Initializing"
        /\ \/ m_config' = m_config \/ m_config' = "live"
           \/ m_config' = "deleted" /\ e.do = "release"
        /\ initLeft' = initLeft \/ initLeft' = Keys
        /\ linked' = linked
    BY PrefEvents, <1>3 DEF Preference!ConfigEvent
  <2>2. /\ m_status \in {"Invalid", "Initializing", "Succeeded", "Failed", "Destroyed"}
        /\ m_config \in {"none", "live", "deleted"}
        /\ user => m_config # "deleted"
    BY <1>0 DEF PrefTypes, Preference!TypeOK
  <2>. QED
    BY <1>1, <1>10, <2>1, <2>2
<1>12. PrefTypes'
  BY <1>0, <1>1, <1>3, <1>8, <1>9, <1>11 DEF PrefTypes, Preference!TypeOK
<1>. QED
  BY <1>1, <1>3, <1>4, <1>12

(* A value on its way to the copy does not change how far the DConfig is.  *)
LEMMA PrefToldValue ==
    ASSUME Phases, NoUpdatesYet, user, user', m_config = "live", initLeft = {},
           NEW x \in UserEvents, x.do = "update",
           userEvents \in Seq(UserEvents),
           userEvents' = userEvents \/ userEvents' = Append(userEvents, x),
           OneOf(configEvents', Creates),
           Range(configEvents') \subseteq Range(configEvents),
           UNCHANGED <<m_status, m_config, initLeft, linked>>
    PROVE  Phases' /\ NoUpdatesYet'
<1>1. x \notin Told /\ x.do # "free" /\ x.do # "succeed"
  BY DEF Told
<1>2. OneOf(userEvents', Told)
  <2>1. OneOf(userEvents, Told)
    BY DEF Phases
  <2>2. OneOf(Append(userEvents, x), Told)
    BY <1>1, <2>1, OneOfQueue
  <2>. QED
    BY <2>1, <2>2
<1>3. Range(userEvents') \subseteq Range(userEvents) \cup {x}
  BY AppendedIsLast
<1>4. Range(userEvents') \cap Told \subseteq Range(userEvents) \cap Told
  BY <1>1, <1>3
<1>5. Phases'
  BY <1>1, <1>2, <1>3, <1>4 DEF Phases
<1>6. NoUpdatesYet'
  BY DEF NoUpdatesYet
<1>. QED
  BY <1>5, <1>6

LEMMA PrefConfig ==
    ASSUME PrefInv, Preference!ConfigEvent
    PROVE  PrefInv'
<1>0. PrefTypes /\ Phases /\ NoUpdatesYet /\ InitializedAgree
  BY DEF PrefInv
<1>1. PICK e \in ConfigEvents : e = Head(configEvents)
  BY PrefConfigTypes
<1>2. /\ PrefTypes' /\ OneOf(configEvents', Creates)
      /\ configEvents # <<>> /\ configEvents' = Tail(configEvents)
      /\ Range(configEvents) = Range(configEvents') \cup {e}
      /\ e \in Creates => Range(configEvents') \cap Creates = {}
      /\ initLeft = {} /\ UNCHANGED <<data, user, p, setting, freed>>
  BY <1>1, PrefConfigTypes
<1>3. userEvents \in Seq(UserEvents) /\ saved \in [Keys -> Values \cup {None}]
  BY <1>0 DEF PrefTypes
<1>4. CASE ~user
  BY <1>2, <1>4, PrefGone
<1>5. CASE user /\ e.do = "create"
  <2>1. /\ m_status = "Invalid" /\ m_config = "none" /\ e \in Creates
        /\ Range(userEvents) \cap Told = {}
        /\ \A k \in Keys : Range(userEvents) \cap Updates(k) = {}
    BY <1>0, <1>2, <1>5 DEF Phases, NoUpdatesYet, Creates
  <2>2. /\ m_status' = "Initializing" /\ UNCHANGED linked
        /\ \/ m_config' = "live" /\ initLeft' = Keys /\ UNCHANGED userEvents
           \/ /\ userEvents' = Append(userEvents, Preference!Fail)
              /\ UNCHANGED <<m_config, initLeft>>
    <3>1. e = Preference!Create
      BY <1>5, PrefEvents
    <3>2. e # Preference!Release
      BY <1>5 DEF Preference!Release, Preference!Event
    <3>. QED
      BY <1>1, <1>5, <2>1, <3>1, <3>2
         DEF Preference!ConfigEvent, Preference!ToUser
  <2>3. /\ \A x \in Range(userEvents) : x.do # "free" /\ x.do # "succeed"
        /\ \A x \in Range(configEvents') : x.do # "release"
        /\ Range(configEvents') \cap Creates = {}
        /\ OneOf(userEvents, Told)
    <3>1. Range(userEvents) \subseteq UserEvents
      BY <1>3 DEF Range
    <3>. QED
      BY <1>0, <1>2, <1>5, <2>1, <3>1 DEF Phases, Told
  <2>4. CASE m_config' = "live" /\ initLeft' = Keys /\ UNCHANGED userEvents
    <3>1. Phases'
      BY <1>2, <2>1, <2>2, <2>3, <2>4 DEF Phases
    <3>2. NoUpdatesYet'
      BY <2>1, <2>4 DEF NoUpdatesYet
    <3>. QED
      BY <1>2, <2>4, <3>1, <3>2 DEF PrefInv, InitializedAgree
  <2>5. CASE userEvents' = Append(userEvents, Preference!Fail) /\ UNCHANGED <<m_config, initLeft>>
    <3>1. PICK d \in UserEvents : d = Preference!Fail /\ d.do = "fail"
      BY PrefEvents DEF Preference!Fail, Preference!Event
    <3>2. Range(userEvents') = Range(userEvents) \cup {d} /\ OneOf(userEvents', Told)
      BY <1>3, <2>1, <2>3, <2>5, <3>1, AppendedIsLast, OneOfQueue
    <3>3. Phases'
      BY <1>2, <2>1, <2>2, <2>3, <2>5, <3>1, <3>2 DEF Phases
    <3>4. NoUpdatesYet'
      BY <2>1, <3>1, <3>2 DEF NoUpdatesYet, Updates
    <3>. QED
      BY <1>2, <2>1, <2>5, <3>3, <3>4 DEF PrefInv, InitializedAgree
  <2>. QED
    BY <2>2, <2>4, <2>5
<1>6. CASE user /\ e.do \in {"set", "notify"}
  <2>1. PICK k \in Keys : k = e.key /\ (e.do = "set" => e.value \in Values \cup {None})
    BY <1>6, PrefEvents
  <2>2. e # Preference!Create /\ e # Preference!Release
    BY <1>6 DEF Preference!Create, Preference!Release, Preference!Event
  <2>3. UNCHANGED <<m_status, m_config, initLeft, linked>>
    BY <1>1, <1>6, <2>2 DEF Preference!ConfigEvent
  <2>4. CASE m_config # "live"
    <3>1. UNCHANGED <<saved, userEvents>>
      BY <1>1, <1>6, <2>2, <2>4 DEF Preference!ConfigEvent
    <3>2. Phases' /\ NoUpdatesYet'
      BY <1>0, <1>2, <1>6, <2>3, <3>1 DEF Phases, NoUpdatesYet
    <3>. QED
      BY <1>2, <2>3, <2>4, <3>2 DEF PrefInv, InitializedAgree
  <2>5. CASE m_config = "live"
    <3>1. linked
      BY <1>0, <1>2, <1>6, <2>5 DEF Phases
    <3>2. /\ e.do = "set" => /\ saved' = [saved EXCEPT ![k] = e.value]
                             /\ saved'[k] = e.value
          /\ e.do = "notify" => saved' = saved
          /\ \A j \in Keys : j # k => saved'[j] = saved[j]
      <4>1. /\ e.do = "set" => saved' = [saved EXCEPT ![k] = e.value]
            /\ e.do = "notify" => saved' = saved
        BY <1>1, <1>6, <2>1, <2>2, <2>5 DEF Preference!ConfigEvent, Preference!SetInConfig
      <4>. QED
        BY <1>3, <1>6, <4>1
    <3>3. PICK v \in Values : v = Preference!Value(k)'
      BY <1>2, PrefAssumption DEF PrefTypes, Preference!Value
    <3>4. PICK x \in UserEvents : /\ x = Preference!Event("update", k, v)
                                  /\ x \in Updates(k) /\ x.do = "update" /\ x.value = v
      BY PrefEvents DEF Preference!Event
    <3>5. \/ userEvents' = Append(userEvents, x)
          \/ userEvents' = userEvents /\ e.do = "set" /\ v = Preference!Value(k)
      <4>1. CASE e.do = "set"
        <5>1. Preference!Shown(e.value) = v
          BY <3>2, <3>3, <4>1 DEF Preference!Value, Preference!Shown
        <5>2. Preference!SetInConfig(k, e.value)
          BY <1>1, <2>1, <2>2, <2>5, <4>1 DEF Preference!ConfigEvent
        <5>. QED
          BY <3>1, <3>4, <4>1, <5>1, <5>2
             DEF Preference!SetInConfig, Preference!Refresh, Preference!ToUser
      <4>2. CASE e.do = "notify"
        <5>1. Preference!Shown(saved[k]) = v
          BY <3>2, <3>3, <4>2 DEF Preference!Value, Preference!Shown
        <5>2. Preference!Refresh(k, saved[k])
          BY <1>1, <2>1, <2>2, <2>5, <3>1, <4>2 DEF Preference!ConfigEvent
        <5>. QED
          BY <3>4, <5>1, <5>2 DEF Preference!Refresh, Preference!ToUser
      <4>. QED
        BY <1>6, <4>1, <4>2
    <3>6. Phases' /\ NoUpdatesYet'
      BY <1>0, <1>2, <1>3, <1>6, <2>3, <2>5, <3>4, <3>5, PrefToldValue
    <3>7. ASSUME NEW j \in Keys PROVE Agrees(j)'
      <4>1. Agrees(j)
        BY <1>0, <1>2, <1>6, <2>5 DEF InitializedAgree
      <4>2. CASE j # k
        <5>1. Preference!Value(j)' = Preference!Value(j)
          BY <3>2, <4>2 DEF Preference!Value
        <5>2. UnderWay(j) \subseteq UnderWay(j)'
          BY <1>2, <2>1, <4>2 DEF UnderWay
        <5>3. x \notin Updates(j)
          BY <3>4, <4>2 DEF Updates
        <5>4. \A y : Becomes(userEvents, p[j], j, y) => Becomes(userEvents', p'[j], j, y)
          <6>1. p'[j] = p[j]
            BY <1>2
          <6>2. \A y : Becomes(userEvents, p[j], j, y)
                           => Becomes(Append(userEvents, x), p[j], j, y)
            BY <1>3, <5>3, BecomesAppended
          <6>. QED
            BY <3>5, <6>1, <6>2
        <5>. QED
          BY <4>1, <5>1, <5>2, <5>4, AgreesKept
      <4>3. CASE j = k /\ userEvents' = Append(userEvents, x)
        <5>1. Becomes(userEvents', p'[k], k, v)
          BY <1>3, <3>4, <4>3, BecomesAppended
        <5>. QED
          BY <3>3, <4>3, <5>1 DEF Agrees
      <4>4. CASE j = k /\ userEvents' = userEvents /\ e.do = "set" /\ v = Preference!Value(k)
        <5>1. \A y : Becomes(userEvents, p[k], k, y) => Becomes(userEvents', p'[k], k, y)
          BY <1>2, <4>4
        <5>2. Preference!Shown(e.value) = v
          BY <3>2, <3>3, <4>4 DEF Preference!Value, Preference!Shown
        <5>3. CASE Becomes(userEvents, p[k], k, v)
          BY <3>3, <4>4, <5>1, <5>3 DEF Agrees
        <5>4. ASSUME NEW d \in UnderWay(k),
                     \/ d.do = "notify"
                     \/ d.do = "set" /\ Becomes(userEvents, p[k], k, Preference!Shown(d.value))
              PROVE  Agrees(k)'
          <6>1. CASE d = e
            BY <3>3, <4>4, <5>1, <5>2, <5>4, <6>1 DEF Agrees
          <6>2. CASE d # e
            <7>1. d \in UnderWay(k)'
              BY <1>2, <6>2 DEF UnderWay
            <7>2. \/ d.do = "notify"
                  \/ d.do = "set" /\ Becomes(userEvents', p'[k], k, Preference!Shown(d.value))
              BY <5>1, <5>4
            <7>. QED
              BY <7>1, <7>2 DEF Agrees, Preference!Shown
          <6>. QED
            BY <6>1, <6>2
        <5>. QED
          BY <4>1, <4>4, <5>3, <5>4 DEF Agrees
      <4>. QED
        BY <3>5, <4>2, <4>3, <4>4
    <3>. QED
      BY <1>2, <3>6, <3>7 DEF PrefInv, InitializedAgree
  <2>. QED
    BY <2>4, <2>5
<1>7. CASE user /\ e.do = "release"
  BY <1>0, <1>2, <1>7 DEF Phases
<1>. QED
  BY <1>4, <1>5, <1>6, <1>7 DEF ConfigEvents

LEMMA PrefStep == PrefInv /\ [Preference!Next]_prefVars => PrefInv'
<1>. SUFFICES ASSUME PrefInv, [Preference!Next]_prefVars PROVE PrefInv'
  OBVIOUS
<1>1. CASE UNCHANGED prefVars
  BY <1>1 DEF prefVars, PrefInv, PrefTypes, Preference!TypeOK, Phases, NoUpdatesYet,
     InitializedAgree, Agrees, UnderWay, Preference!Value
<1>2. CASE Preference!Next
  BY <1>2, PrefSet, PrefPostSteps, PrefInitializeKey, PrefDestroy, PrefUser, PrefConfig
     DEF Preference!Next
<1>. QED
  BY <1>1, <1>2

-----------------------------------------------------------------------------
(* All parts, one of which is active.                                      *)
ThreadInv ==
    /\ Of(AsyncParts, AsyncTypes /\ Carries)
    /\ Of({"async", "asyncwait"}, AsyncOrder)
    /\ Of({"asyncvoid"}, VoidOrder)
    /\ Of({"calls"}, CallsInv)
    /\ Of({"preference"}, PrefInv)
    /\ Of({"loop"}, LoopInv)

LEMMA AsyncInit ==
    ASSUME Async!Init
    PROVE  AsyncTypes /\ Carries /\ AsyncOrder /\ VoidOrder
<1>1. /\ status = {} /\ todo = [t \in Async!Threads |-> <<>>]
      /\ worker = [w \in Workers |-> "none"] /\ mutex = None /\ signals = 0
      /\ fresh = <<>> /\ carried = <<>> /\ results = <<>> /\ handled = <<>> /\ posts = 0
  BY DEF Async!Init
<1>2. None \notin Workers
  BY MCThreadsAssumption DEF Async!DAsyncAssumption
<1>3. AsyncTypes
  BY <1>1, <1>2, StepsAreTyped
     DEF AsyncTypes, Async!TypeOK, Owners, Async!Threads, Async!Owner, Places
<1>4. AsyncOrder
  <2>1. handled \o results \o carried \o fresh = <<>> /\ [i \in 1..posts |-> i] = <<>>
    BY <1>1
  <2>. QED
    BY <1>1, <2>1 DEF AsyncOrder, Async!HandledInOrder
<1>5. VoidOrder
  <2>1. handled \o results = <<>> /\ DOMAIN <<>> = {}
    BY <1>1
  <2>. QED
    BY <1>1, <2>1 DEF VoidOrder, Async!RunOnce, Ran
<1>6. Carries
  BY <1>1 DEF Carries
<1>. QED
  BY <1>3, <1>4, <1>5, <1>6

LEMMA CallsInit ==
    ASSUME Calls!Init
    PROVE  CallsInv
<1>1. /\ threadContext = None /\ objects = {} /\ events = <<>>
      /\ call = [c \in Callers |-> [at |-> "idle", context |-> None, exec |-> FALSE]]
  BY DEF Calls!Init
<1>2. CallsTypes
  BY <1>1, EmptyQueue DEF CallsTypes
<1>3. \A c \in Callers : call[c].at = "idle"
  BY <1>1
<1>. QED
  BY <1>1, <1>2, <1>3, EmptyQueue DEF CallsInv, ObjectsAreKnown, WaitingHasEvent

LEMMA PrefInit ==
    ASSUME Preference!Init
    PROVE  PrefInv
<1>1. /\ m_status = "Invalid" /\ m_config = "none" /\ data = "live" /\ user = TRUE
      /\ p = [k \in Keys |-> Original] /\ propertySet = {}
      /\ saved \in [Keys -> Values \cup {None}]
      /\ linked = FALSE /\ setting = None /\ initLeft = {}
      /\ configEvents = <<Preference!Create>> /\ userEvents = <<>> /\ freed = 0
  BY DEF Preference!Init
<1>2. PICK e \in ConfigEvents : e = Preference!Create /\ e.do = "create"
  BY PrefEvents DEF Preference!Create, Preference!Event
<1>3. /\ configEvents \in Seq(ConfigEvents) /\ OneOf(configEvents, Creates)
      /\ Range(configEvents) = {e}
  BY <1>1, <1>2 DEF OneOf, Range
<1>4. userEvents \in Seq(UserEvents) /\ Range(userEvents) = {} /\ OneOf(userEvents, Told)
  BY <1>1, EmptyQueue
<1>5. PrefTypes
  BY <1>1, <1>3, <1>4, PrefAssumption DEF PrefTypes, Preference!TypeOK
<1>6. Phases
  BY <1>1, <1>2, <1>3, <1>4 DEF Phases
<1>. QED
  BY <1>1, <1>4, <1>5, <1>6 DEF PrefInv, NoUpdatesYet, InitializedAgree

LEMMA ThreadInit == Init => ThreadInv
<1>. SUFFICES ASSUME Init PROVE ThreadInv
  OBVIOUS
<1>1. Async!Init /\ Calls!Init /\ Preference!Init /\ Loop!Init
  BY DEF Init
<1>2. LoopInv
  BY <1>1 DEF Loop!Init, LoopInv, Loop!TypeOK
<1>. QED
  BY <1>1, <1>2, AsyncInit, CallsInit, PrefInit DEF ThreadInv, Of

(* A step is a step of the active part, and the part stays the same.       *)
LEMMA ThreadStep == ThreadInv /\ [Next]_vars => ThreadInv'
<1>. SUFFICES ASSUME ThreadInv, [Next]_vars PROVE ThreadInv'
  OBVIOUS
<1>1. active' = active
  BY DEF Next, In, Rest, vars
<1>2. ASSUME active \in AsyncParts PROVE AsyncTypes' /\ Carries'
  <2>1. Async!Next \/ AsyncWait!Next \/ Async!VoidNext \/ UNCHANGED asyncVars
    BY <1>2 DEF Next, In, vars, AsyncParts
  <2>. QED
    BY <1>2, <2>1, AsyncTypesStep, CarriesStep DEF ThreadInv, Of
<1>3. ASSUME active \in {"async", "asyncwait"} PROVE AsyncOrder'
  <2>1. Async!Next \/ AsyncWait!Next \/ UNCHANGED asyncVars
    BY <1>3 DEF Next, In, vars
  <2>. QED
    BY <1>3, <2>1, AsyncOrderStep DEF ThreadInv, Of, AsyncParts
<1>4. ASSUME active = "asyncvoid" PROVE VoidOrder'
  <2>1. Async!VoidNext \/ UNCHANGED asyncVars
    BY <1>4 DEF Next, In, vars
  <2>. QED
    BY <1>4, <2>1, VoidOrderStep DEF ThreadInv, Of, AsyncParts
<1>5. ASSUME active = "calls" PROVE CallsInv'
  <2>1. [Calls!Next]_callVars
    BY <1>5 DEF Next, In, vars
  <2>. QED
    BY <1>5, <2>1, CallsStep DEF ThreadInv, Of
<1>6. ASSUME active = "preference" PROVE PrefInv'
  <2>1. [Preference!Next]_prefVars
    BY <1>6 DEF Next, In, vars
  <2>. QED
    BY <1>6, <2>1, PrefStep DEF ThreadInv, Of
<1>7. ASSUME active = "loop" PROVE LoopInv'
  <2>1. [Loop!Next]_loopVars
    BY <1>7 DEF Next, In, vars
  <2>. QED
    BY <1>7, <2>1, LoopStep DEF ThreadInv, Of
<1>. QED
  BY <1>1, <1>2, <1>3, <1>4, <1>5, <1>6, <1>7 DEF ThreadInv, Of

(* In every part what its threads hand over stays in order and agrees.     *)
THEOREM ThreadInvariant == Spec => []ThreadInv
<1>. QED
  BY ThreadInit, ThreadStep, PTL DEF Spec

(* Every part is well typed, with any number of threads, posts, calls and  *)
(* keys: in DAsync::startUp and its worker who is inside the mutex holds   *)
(* it, whoever waits in DUtil::DThreadUtil::exec has its event in the      *)
(* queue, and Data of a configuration class is deleted at most once and    *)
(* never while the object exists.                                          *)
THEOREM ThreadTypes == Spec => []TypeOK
<1>1. ThreadInv => TypeOK
  <2>. SUFFICES ASSUME ThreadInv PROVE TypeOK
    OBVIOUS
  <2>1. ASSUME CallsInv PROVE Calls!TypeOK
    <3>1. CallsTypes /\ ObjectsAreKnown /\ WaitingHasEvent
      BY <2>1 DEF CallsInv
    <3>2. \A c \in Callers : call[c].at \in {"idle", "swap", "post", "waiting"}
      BY <3>1 DEF CallsTypes
    <3>3. ASSUME NEW c \in Callers, call[c].at = "waiting"
          PROVE  \E i \in DOMAIN events : events[i].from = c /\ events[i].exec
      <4>1. Range(events) \cap ExecOf(c) # {}
        BY <3>1, <3>3 DEF WaitingHasEvent
      <4>. QED
        BY <4>1 DEF Range, ExecOf
    <3>. QED
      BY <3>1, <3>2, <3>3 DEF Calls!TypeOK, ObjectsAreKnown
  <2>. QED
    BY <2>1 DEF ThreadInv, TypeOK, Of, AsyncTypes, PrefInv, PrefTypes, LoopInv
<1>. QED
  BY <1>1, ThreadInvariant, PTL

(* DAsync hands each datum that was posted to its worker once, and its     *)
(* results to the owner in the order of the posts, and a function without  *)
(* input is run after those posted before it and at most once.             *)
THEOREM ResultsInOrder == Spec => []HandledInOrder
<1>1. ThreadInv => HandledInOrder
  BY DEF ThreadInv, HandledInOrder, Of, AsyncOrder, VoidOrder
<1>. QED
  BY <1>1, ThreadInvariant, PTL

(* The copies a configuration class keeps of its values are those of the   *)
(* DConfig once nothing is under way, however many keys are set here and   *)
(* elsewhere before, while and after the DConfig is made.                  *)
THEOREM CopiesEndUpCurrent == Spec => []CopiesSettle
<1>1. ThreadInv => CopiesSettle
  <2>. SUFFICES ASSUME PrefInv PROVE Preference!CopiesSettle
    BY DEF CopiesSettle, ThreadInv, Of
  <2>. SUFFICES ASSUME user, m_status = "Succeeded", setting = None, configEvents = <<>>,
                       userEvents = <<>>, NEW k \in Keys
                PROVE  p[k] = Preference!Value(k)
    BY DEF Preference!CopiesSettle
  <2>1. m_config = "live" /\ initLeft = {}
    BY DEF PrefInv, Phases
  <2>2. Agrees(k)
    BY <2>1 DEF PrefInv, InitializedAgree
  <2>3. UnderWay(k) = {} /\ Range(userEvents) = {}
    BY EmptyQueue DEF UnderWay
  <2>. QED
    BY <2>2, <2>3 DEF Agrees, Becomes
<1>. QED
  BY <1>1, ThreadInvariant, PTL
=============================================================================
