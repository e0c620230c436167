---------------------------- MODULE DConfigView ----------------------------
(***************************************************************************)
(* What DConfigFile promises its clients, with no cache, serial or file:   *)
(* every user reads one value per item.  Outside of loading another meta,  *)
(* a call is either private to one user, and touches only that user's      *)
(* writable items, or concerns the items flagged "global", which every     *)
(* user reads alike.  Read-only items always show their default.           *)
(***************************************************************************)
CONSTANTS Keys, Users

VARIABLES
    view,      \* view[u][k]: what user u reads for item k
    default,   \* default[k]: the value of the meta, overrides applied
    serial,    \* serial[k]: a new one withdraws what users have stored
    shared,    \* the items flagged "global"
    writable   \* the items whose permissions are "readwrite"

items == <<default, serial, shared, writable>>
vars  == <<view, default, serial, shared, writable>>

Consistent ==
    \A u \in Users, k \in Keys :
        /\ k \notin writable => view[u][k] = default[k]
        /\ k \in shared => \A w \in Users : view[w][k] = view[u][k]

Init == Consistent

(* A call made for user u: set, reset or load of u's own cache.            *)
PrivateChange(u) ==
    /\ \A w \in Users, k \in Keys :
          view'[w][k] # view[w][k] => w = u /\ k \in writable \ shared
    /\ UNCHANGED items

(* A set or reset of a global item by anyone, or a load of the global      *)
(* cache.                                                                  *)
SharedChange ==
    /\ \A w \in Users, k \in Keys :
          view'[w][k] # view[w][k] => k \in writable \cap shared
    /\ Consistent'
    /\ UNCHANGED items

(* Another meta is loaded, or the process goes away.                       *)
Reload ==
    /\ items' # items
    /\ Consistent'

Next == (\E u \in Users : PrivateChange(u)) \/ SharedChange \/ Reload

Spec == Init /\ [][Next]_vars
=============================================================================
