------------------------------ MODULE DExpected ------------------------------
(***************************************************************************)
(* DExpected<T, E> (include/base/dexpected.h): a value or an error in the  *)
(* same storage, and a flag that says which.  Changing from one to the     *)
(* other destroys what is there and constructs the new content, and each   *)
(* constructor may throw: which order is safe depends on what the types    *)
(* promise, and the code has one variant for each case.                    *)
(***************************************************************************)
EXTENDS Integers, FiniteSets

CONSTANTS
    Objects,  \* objects of the type DExpected<T, E>
    Vals,     \* contents of values and of errors
    Moved     \* what is left of a content that was moved away

DExpectedAssumption == Vals # {} /\ Moved \notin Vals

VARIABLES
    traitT, traitE, \* what the types promise; traitT is "void" for DExpected<void, E>
    has,      \* m_has_value
    slot,     \* what lives in the storage
    expect,   \* history: what should, from what was asked for
    spoiled   \* history: a guard was not disarmed, or emplace forgot the flag

expectedVars == <<traitT, traitE, has, slot, expect, spoiled>>

(* "noexcept": no constructor throws; "copythrows": moving does not;       *)
(* "throws": both do.                                                      *)
Traits == {"noexcept", "copythrows", "throws"}

Content(is, v) == [is |-> is, v |-> v]
Dead == Content("dead", Moved)

Trait(is)         == IF is = "value" THEN traitT ELSE traitE
NothrowMove(is)   == Trait(is) # "throws"
Nothrow(is, move) == Trait(is) \in {"noexcept", "void"} \/ (move /\ Trait(is) = "copythrows")

(* Every way a step of an operation can end: what is in the storage, and   *)
(* whether it has thrown.                                                  *)
Result(content, threw, guarded) == [content |-> content, threw |-> threw, guarded |-> guarded]

-----------------------------------------------------------------------------
(* The old content is destroyed before a construction that throws.         *)
ReinitSlip(old, new, move) ==
    IF Nothrow(new.is, move) THEN {Result(new, FALSE, FALSE)}
    ELSE IF NothrowMove(new.is) THEN {Result(Dead, TRUE, FALSE), Result(new, FALSE, FALSE)}
    ELSE {Result(old, TRUE, FALSE), Result(old, FALSE, TRUE)}

(* reinit, from the content old to new.                                    *)
(* - the construction cannot throw: destroy, construct;                    *)
(* - it can, but a move cannot: construct a copy first;                    *)
(* - both can: the old content is kept in a Guard, whose destructor puts   *)
(*   it back.  release does not disarm it: it puts it back always.         *)
Reinit(old, new, move) ==
    IF Nothrow(new.is, move) THEN {Result(new, FALSE, FALSE)}
    ELSE IF NothrowMove(new.is) THEN {Result(old, TRUE, FALSE), Result(new, FALSE, FALSE)}
    ELSE {Result(old, TRUE, FALSE), Result(old, FALSE, TRUE)}

(* Assignment to what is of the same kind may throw and then has not       *)
(* changed it.                                                             *)
Assign(old, new, move) ==
    {Result(new, FALSE, FALSE)}
    \cup (IF Nothrow(new.is, move) THEN {} ELSE {Result(old, TRUE, FALSE)})

(* assign_val and assign_err.  DExpected<void, E> has nothing to destroy   *)
(* and constructs the error before it changes the flag.                    *)
AssignContent(o, new, move) ==
    IF has[o] = (new.is = "value") THEN Assign(slot[o], new, move)
    ELSE IF traitT = "void" THEN Assign(slot[o], new, move)
    ELSE Reinit(slot[o], new, move)

Store(o, new, move) ==
    \E r \in AssignContent(o, new, move) :
        /\ slot' = [slot EXCEPT ![o] = r.content]
        /\ has' = [has EXCEPT ![o] = IF r.threw THEN @ ELSE new.is = "value"]
        /\ expect' = [expect EXCEPT ![o] = IF r.threw THEN @ ELSE new]
        /\ spoiled' = (spoiled \/ r.guarded)
        /\ UNCHANGED <<traitT, traitE>>

(* operator=(U &&), operator=(DUnexpected<G>).                             *)
Put(o, is, v, move) == Store(o, Content(is, IF is = "value" /\ traitT = "void" THEN Moved ELSE v), move)

(* operator=(DExpected &&): what was moved away is left behind.            *)
MoveAssign(o, other) ==
    /\ o # other
    /\ \E r \in AssignContent(o, slot[other], TRUE) :
          /\ slot' = [slot EXCEPT ![o] = r.content,
                                 ![other].v = IF r.threw THEN @ ELSE Moved]
          /\ has' = [has EXCEPT ![o] = IF r.threw THEN @ ELSE has[other]]
          /\ expect' = [expect EXCEPT ![o] = IF r.threw THEN @ ELSE expect[other],
                                     ![other].v = IF r.threw THEN @ ELSE Moved]
          /\ spoiled' = (spoiled \/ r.guarded)
    /\ UNCHANGED <<traitT, traitE>>

(* emplace(args): what is there is destroyed, the flag follows; the value  *)
(* is constructed by a constructor that may not throw.                     *)
Emplace(o, v) ==
    LET new == Content("value", IF traitT = "void" THEN Moved ELSE v) IN
    /\ slot' = [slot EXCEPT ![o] = new]
    /\ has' = [has EXCEPT ![o] = TRUE]
    /\ expect' = [expect EXCEPT ![o] = new]
    /\ UNCHANGED <<traitT, traitE, spoiled>>

(* emplace(list, args) leaves the flag as it was.                          *)
EmplaceList(o, v) ==
    /\ traitT # "void"
    /\ slot' = [slot EXCEPT ![o] = Content("value", v)]
    /\ expect' = [expect EXCEPT ![o] = Content("value", v)]
    /\ spoiled' = (spoiled \/ ~has[o])
    /\ UNCHANGED <<traitT, traitE, has>>

-----------------------------------------------------------------------------
(* The constructors from a value, an error or their arguments: a new       *)
(* object takes the place of o.                                            *)
Construct(o, is, v) ==
    /\ slot' = [slot EXCEPT ![o] = Content(is, IF is = "value" /\ traitT = "void" THEN Moved ELSE v)]
    /\ has' = [has EXCEPT ![o] = is = "value"]
    /\ expect' = [expect EXCEPT ![o] = slot'[o]]
    /\ UNCHANGED <<traitT, traitE, spoiled>>

(* The constructors from another DExpected, which is moved or copied.      *)
ConstructFrom(o, other, move) ==
    LET left == IF move THEN Moved ELSE slot[other].v IN
    /\ o # other
    /\ slot' = [slot EXCEPT ![o] = slot[other], ![other].v = left]
    /\ has' = [has EXCEPT ![o] = has[other]]
    /\ expect' = [expect EXCEPT ![o] = expect[other],
                               ![other].v = IF move THEN Moved ELSE @]
    /\ UNCHANGED <<traitT, traitE, spoiled>>

(* value and error: by the flag, what is in the storage.  value throws     *)
(* without a value, error asserts.                                         *)
ReadValue(o) == IF has[o] THEN slot[o] ELSE Dead
ReadError(o) == IF has[o] THEN Dead ELSE slot[o]

(* swap of two of the same kind.                                           *)
SwapSame(x, y) ==
    /\ has[x] = has[y]
    /\ slot' = [slot EXCEPT ![x] = slot[y], ![y] = slot[x]]
    /\ expect' = [expect EXCEPT ![x] = expect[y], ![y] = expect[x]]
    /\ UNCHANGED <<traitT, traitE, has, spoiled>>

(* swap_val_err: x has the value, y the error.  The guard on the error of  *)
(* y puts back, over the value just constructed there, what is left of the *)
(* error.  When only T can be moved safely the guard is on a value y does  *)
(* not have, and nothing certain can be said of either.                    *)
SwapValErr(x, y) ==
    /\ x # y /\ has[x] /\ ~has[y] /\ traitT # "void"
    /\ IF NothrowMove("error")
       THEN \/ /\ slot' = [slot EXCEPT ![x] = slot[y], ![y] = Content("error", Moved)]
               /\ has' = [has EXCEPT ![x] = FALSE, ![y] = TRUE]
               /\ expect' = [expect EXCEPT ![x] = expect[y], ![y] = expect[x]]
               /\ spoiled' = TRUE
            \/ /\ ~NothrowMove("value")
               /\ UNCHANGED <<slot, has, expect, spoiled>>
       ELSE /\ slot' = [slot EXCEPT ![x] = Dead, ![y] = Dead]
            /\ has' = [has EXCEPT ![x] = FALSE, ![y] = TRUE]
            /\ expect' = [expect EXCEPT ![x] = expect[y], ![y] = expect[x]]
            /\ spoiled' = TRUE
    /\ UNCHANGED <<traitT, traitE>>

(* swap of DExpected<void, E>: the error moves over.                       *)
SwapVoid(x, y) ==
    /\ has[x] /\ ~has[y] /\ traitT = "void"
    /\ \/ /\ slot' = [slot EXCEPT ![x] = slot[y], ![y] = slot[x]]
          /\ has' = [has EXCEPT ![x] = FALSE, ![y] = TRUE]
          /\ expect' = [expect EXCEPT ![x] = expect[y], ![y] = expect[x]]
       \/ /\ ~NothrowMove("error")
          /\ UNCHANGED <<slot, has, expect>>
    /\ UNCHANGED <<traitT, traitE, spoiled>>

-----------------------------------------------------------------------------
(* Assignment and swap need one of the two types to move without throwing. *)
Init ==
    /\ traitT \in Traits \cup {"void"} /\ traitE \in Traits
    /\ ~(traitT = "throws" /\ traitE = "throws")
    /\ has = [o \in Objects |-> TRUE]
    /\ slot = [o \in Objects |-> Content("value", Moved)]
    /\ expect = slot
    /\ spoiled = FALSE

Next ==
    \E o \in Objects :
        \/ \E v \in Vals :
              \/ \E is \in {"value", "error"}, move \in BOOLEAN : Put(o, is, v, move)
              \/ Emplace(o, v)
              \/ EmplaceList(o, v)
              \/ \E is \in {"value", "error"} : Construct(o, is, v)
        \/ \E other \in Objects :
              \/ MoveAssign(o, other)
              \/ \E move \in BOOLEAN : ConstructFrom(o, other, move)
              \/ SwapSame(o, other) \/ SwapValErr(o, other) \/ SwapVoid(o, other)

Spec == Init /\ [][Next]_expectedVars

-----------------------------------------------------------------------------
(* Contents are values or errors, or no longer anything.                   *)
TypeOK ==
    /\ has \in [Objects -> BOOLEAN]
    /\ slot \in [Objects -> [is : {"value", "error", "dead"}, v : Vals \cup {Moved}]]

(* value and error give what was put into the object and only one of them  *)
(* does (dexpected.h:182 to 430), whatever throws on the way, as long as   *)
(* neither a guard nor emplace with a list was involved.                   *)
HoldsWhatWasPut ==
    ~spoiled => \A o \in Objects :
        IF expect[o].is = "value" THEN ReadValue(o) = expect[o] /\ ReadError(o) = Dead
        ELSE ReadError(o) = expect[o] /\ ReadValue(o) = Dead

(* swap exchanges what the two objects hold (comment at dexpected.h:916).  *)
SwapExchanges ==
    [][\A x, y \in Objects :
         ~spoiled /\ SwapValErr(x, y) /\ has' # has
           => slot'[x] = slot[y] /\ slot'[y] = slot[x]]_expectedVars
=============================================================================
