------------------------------ MODULE DVtableHook ------------------------------
(***************************************************************************)
(* DVtableHook (src/util/dvtablehook.cpp, include/util/dvtablehook.h):     *)
(* virtual functions of one object are replaced by giving it a table of    *)
(* its own.  Three maps by address tell which objects have one; addresses  *)
(* are used again, and an object may end without its table being told.     *)
(*                                                                         *)
(* A table maps functions to implementations; Dtor is the destructor, and  *)
(* the layout of tables in memory is left out.  The search for the         *)
(* destructor's place is part of EnsureVtable.                             *)
(***************************************************************************)
EXTENDS Integers, Sequences, Functions

CONSTANTS
    Addresses, Classes,
    Functions,    \* virtual functions other than the destructor
    Replacements, \* implementations callers provide
    MaxTables,    \* bound: tables allocated
    MaxCalls,     \* bound: nested calls of originals
    None

Dtor      == "destructor"
AutoClean == <<None, Dtor>>
OwnTable  == 0
Wild      == -1

DVtableHookAssumption ==
    /\ MaxTables \in Nat /\ MaxCalls \in Nat
    /\ Dtor \notin Functions /\ None \notin Classes

VARIABLES
    object,     \* object[a]: [class, vptr], None if there is none; vptr is
                \* OwnTable for the class's, else the table's number, or Wild
    classTable, \* classTable[c][f]
    tables,     \* tables[t]: [freed, class, fn]
    original,   \* objToOriginalVfptr: addresses; the class is the table's
    ghost,      \* objToGhostVfptr
    destruct,   \* objDestructFun
    calls,      \* callOriginalFun under way, innermost last: [addr, f, old, table]
    due,        \* history: due[a][f]: the implementation a call should reach
    unsound     \* history: addresses where the code's result is undefined

hookVars == <<object, classTable, tables, original, ghost, destruct, calls, due, unsound>>

-----------------------------------------------------------------------------
Own(c)   == [f \in Functions \cup {Dtor} |-> <<c, f>>]
Live     == {a \in Addresses : object[a] # None}
Hooked(a) == object[a].vptr \in DOMAIN tables
Table(a) == IF Hooked(a) THEN tables[object[a].vptr].fn ELSE classTable[object[a].class]
OriginalFun(a, f) == classTable[object[a].class][f]
HasVtable(a) == a \in DOMAIN ghost /\ object[a].vptr = ghost[a]

Without(m, a) == Restrict(m, DOMAIN m \ {a})
With(m, a, x) == [b \in DOMAIN m \cup {a} |-> IF b = a THEN x ELSE m[b]]
(* clearGhostVtable, which does nothing for an address it does not know.   *)
Freed(ts, a) == IF a \in original /\ a \in DOMAIN ghost
                THEN [ts EXCEPT ![ghost[a]].freed = TRUE] ELSE ts
ClearGhostVtable(a, ts) ==
    /\ tables' = Freed(ts, a)
    /\ original' = original \ {a}
    /\ ghost' = IF a \in original THEN Without(ghost, a) ELSE ghost
    /\ destruct' = IF a \in original THEN Without(destruct, a) ELSE destruct

(* A constructor sets the pointer and knows nothing of the maps.           *)
Construct(a, c) ==
    /\ object[a] = None
    /\ object' = [object EXCEPT ![a] = [class |-> c, vptr |-> OwnTable]]
    /\ due' = [due EXCEPT ![a] = classTable[c]]
    /\ unsound' = unsound \ {a}
    /\ UNCHANGED <<classTable, tables, original, ghost, destruct, calls>>

-----------------------------------------------------------------------------
(* ensureVtable: a table that is not the object's is cleared, a new one    *)
(* copied from what the object has, and its destructor replaced.           *)
KnownSlip(a) == a \in original
Known(a) == a \in original /\ ghost[a] = object[a].vptr

CopyVtable(a) == [freed |-> FALSE, class |-> object[a].class,
                  fn |-> [Table(a) EXCEPT ![Dtor] = AutoClean]]

OverrideVfptrFun(a, f, r) ==
    /\ object[a] # None /\ object[a].vptr # Wild
    /\ due' = [due EXCEPT ![a][f] = r]
    /\ IF Known(a)
       THEN /\ tables' = [tables EXCEPT ![ghost[a]].fn[f] = r]
            /\ UNCHANGED <<object, original, ghost, destruct>>
       ELSE LET t == Len(tables) + 1 IN
               /\ t <= MaxTables
               /\ tables' = Append(Freed(tables, a), [CopyVtable(a) EXCEPT !.fn[f] = r])
               /\ object' = [object EXCEPT ![a].vptr = t]
               /\ original' = original \cup {a}
               /\ ghost' = With(ghost, a, t)
               /\ destruct' = With(destruct, a, Table(a)[Dtor])
    /\ UNCHANGED <<classTable, calls, unsound>>

(* The class's own table is written, if the memory can be made writable.   *)
OverrideClass(c, f, r) ==
    /\ classTable' = [classTable EXCEPT ![c][f] = r]
    /\ due' = [a \in Addresses |-> IF object[a] # None /\ object[a].class = c /\ ~Hooked(a)
                                   THEN [due[a] EXCEPT ![f] = r] ELSE due[a]]
    /\ UNCHANGED <<object, tables, original, ghost, destruct, calls, unsound>>

(* originalFun is 0 for an object without a table of its own.              *)
ResetVfptrFun(a, f) ==
    /\ object[a] # None /\ HasVtable(a)
    /\ tables' = [tables EXCEPT ![ghost[a]].fn[f] = OriginalFun(a, f)]
    /\ due' = [due EXCEPT ![a][f] = OriginalFun(a, f)]
    /\ UNCHANGED <<object, classTable, original, ghost, destruct, calls, unsound>>

(* The old pointer is read behind the table.  There it is 0 or anything    *)
(* for an object without a table of its own; it is used if the maps still  *)
(* hold an earlier object at this address.                                 *)
ResetVtable(a) ==
    /\ object[a] # None /\ object[a].vptr # Wild
    /\ a \in original
    /\ \/ /\ object' = [object EXCEPT ![a].vptr = IF Hooked(a) THEN OwnTable ELSE Wild]
          /\ ClearGhostVtable(a, tables)
          /\ unsound' = IF Hooked(a) THEN unsound ELSE unsound \cup {a}
          /\ due' = [due EXCEPT ![a] = classTable[object[a].class]]
       \/ /\ ~Hooked(a)
          /\ UNCHANGED <<object, tables, original, ghost, destruct, due, unsound>>
    /\ UNCHANGED <<classTable, calls>>

-----------------------------------------------------------------------------
(* callOriginalFun puts the original in place, calls, and restores what    *)
(* was there through the pointer it read before the call.                  *)
CallOriginalFun(a, f) ==
    /\ object[a] # None /\ HasVtable(a) /\ Len(calls) < MaxCalls
    /\ calls' = Append(calls, [addr |-> a, f |-> f, old |-> Table(a)[f], table |-> ghost[a]])
    /\ tables' = [tables EXCEPT ![ghost[a]].fn[f] = OriginalFun(a, f)]
    /\ due' = [due EXCEPT ![a][f] = OriginalFun(a, f)]
    /\ UNCHANGED <<object, classTable, original, ghost, destruct, unsound>>

(* What the original did to the same function is undone.  If the table is  *)
(* gone, memory of others is written.                                      *)
OriginalReturns ==
    LET call == calls[Len(calls)] IN
    /\ calls # <<>>
    /\ calls' = SubSeq(calls, 1, Len(calls) - 1)
    /\ tables' = [tables EXCEPT ![call.table].fn[call.f] = call.old]
    /\ IF tables[call.table].freed
       THEN unsound' = Addresses /\ due' = due
       ELSE /\ due' = IF object[call.addr] # None /\ object[call.addr].vptr = call.table
                      THEN [due EXCEPT ![call.addr][call.f] = call.old] ELSE due
            /\ UNCHANGED unsound
    /\ UNCHANGED <<object, classTable, original, ghost, destruct>>

(* delete: through the table; autoCleanVtable clears the maps and calls    *)
(* the destructor it replaced.                                             *)
Delete(a) ==
    /\ object[a] # None /\ object[a].vptr # Wild
    /\ IF Table(a)[Dtor] = AutoClean
       THEN /\ a \in DOMAIN destruct
            /\ IF HasVtable(a) THEN ClearGhostVtable(a, tables)
               ELSE UNCHANGED <<tables, original, ghost, destruct>>
       ELSE UNCHANGED <<tables, original, ghost, destruct>>
    /\ object' = [object EXCEPT ![a] = None]
    /\ UNCHANGED <<classTable, calls, due, unsound>>

(* An object on the stack, or a destructor the compiler calls directly.    *)
GoOutOfScope(a) ==
    /\ object[a] # None /\ object[a].vptr # Wild
    /\ object' = [object EXCEPT ![a] = None]
    /\ UNCHANGED <<classTable, tables, original, ghost, destruct, calls, due, unsound>>

-----------------------------------------------------------------------------
Init ==
    /\ object = [a \in Addresses |-> None]
    /\ classTable = [c \in Classes |-> Own(c)]
    /\ tables = <<>> /\ original = {} /\ ghost = <<>> /\ destruct = <<>>
    /\ calls = <<>>
    /\ due = [a \in Addresses |-> [f \in Functions \cup {Dtor} |-> None]]
    /\ unsound = {}

Next ==
    \/ \E a \in Addresses, c \in Classes : Construct(a, c)
    \/ \E a \in Addresses, f \in Functions, r \in Replacements : OverrideVfptrFun(a, f, r)
    \/ \E c \in Classes, f \in Functions, r \in Replacements : OverrideClass(c, f, r)
    \/ \E a \in Addresses, f \in Functions : ResetVfptrFun(a, f) \/ CallOriginalFun(a, f)
    \/ \E a \in Addresses : ResetVtable(a) \/ Delete(a) \/ GoOutOfScope(a)
    \/ OriginalReturns

Spec == Init /\ [][Next]_hookVars

-----------------------------------------------------------------------------
TypeOK ==
    /\ original = DOMAIN ghost /\ original = DOMAIN destruct
    /\ \A a \in Live : object[a].vptr \in {OwnTable, Wild} \cup DOMAIN tables
    /\ unsound \subseteq Addresses

(* A virtual call reaches what was last put in place for this object, and  *)
(* its class's own implementation if nothing was, also when an earlier     *)
(* object at the address left its entries in the maps; and no live object  *)
(* points at a table that is freed.                                        *)
CallsReachTheirs ==
    \A a \in Live \ unsound :
        /\ \A f \in Functions : Table(a)[f] = due[a][f]
        /\ Hooked(a) => ~tables[object[a].vptr].freed
        /\ Table(a)[Dtor] = AutoClean => a \in DOMAIN destruct /\ destruct[a] = classTable[object[a].class][Dtor]
=============================================================================
