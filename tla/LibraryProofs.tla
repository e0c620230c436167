---------------------------- MODULE LibraryProofs ----------------------------
(***************************************************************************)
(* Proofs about the parts of Library, for every value of its constants.    *)
(* What a part's specification promises is promised whatever is active.    *)
(***************************************************************************)
EXTENDS Library, Integers, Sequences, SequenceTheorems, FiniteSetTheorems,
        WellFoundedInduction, TLAPS

-----------------------------------------------------------------------------
(* Numbers and sequences.                                                  *)
LEMMA Smallest ==
    ASSUME NEW T \in SUBSET Nat, T # {}
    PROVE  \E i \in T : \A j \in T : i <= j
<1>. DEFINE R == {ss \in Nat \X Nat : ss[1] < ss[2]}
<1>1. IsWellFoundedOn(R, Nat)
  BY NatLessThanWellFounded DEF OpToRel
<1>. HIDE DEF R
<1>2. PICK i \in T : \A j \in T : ~(<<j, i>> \in R)
  BY <1>1, WFMin
<1>3. \A j \in T : <<j, i>> \in R <=> j < i
  BY DEF R
<1>4. ASSUME NEW j \in T PROVE i <= j
  <2>1. i \in Nat /\ j \in Nat /\ ~(j < i)
    BY <1>2, <1>3
  <2>. QED
    BY <2>1
<1>. QED
  BY <1>4

LEMMA WithoutOne ==
    ASSUME NEW S, NEW s \in Seq(S), NEW k \in 1 .. Len(s)
    PROVE  LET without == SubSeq(s, 1, k - 1) \o SubSeq(s, k + 1, Len(s))
           IN  /\ without \in Seq(S) /\ Len(without) = Len(s) - 1
               /\ \A i \in 1 .. Len(s) - 1 : without[i] = s[IF i < k THEN i ELSE i + 1]
<1>. DEFINE l == SubSeq(s, 1, k - 1)
            r == SubSeq(s, k + 1, Len(s))
<1>0. Len(s) \in Nat /\ \A i \in 1 .. Len(s) : s[i] \in S
  BY LenProperties, ElementOfSeq
<1>1. /\ l \in Seq(S) /\ Len(l) = k - 1
      /\ \A i \in 1 .. k - 1 : l[i] = s[i]
  <2>1. \A i \in 1 .. k - 1 : s[i] \in S
    BY <1>0
  <2>2. /\ l \in Seq(S) /\ Len(l) = (IF 1 <= k - 1 THEN k - 1 - 1 + 1 ELSE 0)
        /\ \A i \in 1 .. k - 1 - 1 + 1 : l[i] = s[1 + i - 1]
    BY <1>0, <2>1, SubSeqProperties
  <2>. QED
    BY <1>0, <2>2
<1>2. /\ r \in Seq(S) /\ Len(r) = Len(s) - k
      /\ \A i \in 1 .. Len(s) - k : r[i] = s[k + i]
  <2>1. \A i \in k + 1 .. Len(s) : s[i] \in S
    BY <1>0
  <2>2. /\ r \in Seq(S) /\ Len(r) = (IF k + 1 <= Len(s) THEN Len(s) - (k + 1) + 1 ELSE 0)
        /\ \A i \in 1 .. Len(s) - (k + 1) + 1 : r[i] = s[k + 1 + i - 1]
    BY <1>0, <2>1, SubSeqProperties
  <2>. QED
    BY <1>0, <2>2
<1>. HIDE DEF l, r
<1>3. /\ l \o r \in Seq(S) /\ Len(l \o r) = Len(l) + Len(r)
      /\ \A i \in 1 .. Len(l) + Len(r) : (l \o r)[i] = IF i <= Len(l) THEN l[i] ELSE r[i - Len(l)]
  BY <1>1, <1>2, ConcatProperties
<1>4. /\ l \o r \in Seq(S) /\ Len(l \o r) = Len(s) - 1
      /\ \A i \in 1 .. Len(s) - 1 : (l \o r)[i] = s[IF i < k THEN i ELSE i + 1]
  BY <1>0, <1>1, <1>2, <1>3
<1>. QED
  BY <1>4 DEF l, r

-----------------------------------------------------------------------------
(* DExpected: as long as nothing is spoiled the storage has what should be *)
(* there, and the flag says of which kind it is.                           *)
Slots == [is : {"value", "error"}, v : Vals \cup {Moved}]

ResultInv ==
    /\ has \in [Objects -> BOOLEAN] /\ spoiled \in BOOLEAN
    /\ slot \in [Objects -> [is : {"value", "error", "dead"}, v : Vals \cup {Moved}]]
    /\ ~spoiled => /\ slot \in [Objects -> Slots]
                   /\ expect = slot
                   /\ \A o \in Objects : has[o] <=> slot[o].is = "value"

(* An assignment leaves the new content, or throws and leaves the old one, *)
(* or the guard has put the old one back.                                  *)
LEMMA AssignLeaves ==
    ASSUME NEW o \in Objects, NEW new, NEW move \in BOOLEAN,
           NEW r \in Result!AssignContent(o, new, move)
    PROVE  \/ r = [content |-> new, threw |-> FALSE, guarded |-> FALSE]
           \/ r = [content |-> slot[o], threw |-> TRUE, guarded |-> FALSE]
           \/ r = [content |-> slot[o], threw |-> FALSE, guarded |-> TRUE]
<1>1. r \in Result!Assign(slot[o], new, move) \/ r \in Result!Reinit(slot[o], new, move)
  BY DEF Result!AssignContent
<1>2. CASE r \in Result!Assign(slot[o], new, move)
  BY <1>2 DEF Result!Assign, Result!Result
<1>3. CASE r \in Result!Reinit(slot[o], new, move)
  BY <1>3 DEF Result!Reinit, Result!Result
<1>. QED
  BY <1>1, <1>2, <1>3

LEMMA ResultStep ==
    ASSUME ResultInv, Result!Next \/ UNCHANGED Result!expectedVars
    PROVE  ResultInv'
<1>. DEFINE Any == [is : {"value", "error", "dead"}, v : Vals \cup {Moved}]
<1>0. /\ has \in [Objects -> BOOLEAN] /\ spoiled \in BOOLEAN /\ slot \in [Objects -> Any]
      /\ Slots \subseteq Any /\ Result!Dead \in Any
      /\ ~spoiled => /\ slot \in [Objects -> Slots] /\ expect = slot
                     /\ \A o \in Objects : has[o] <=> slot[o].is = "value"
  BY DEF ResultInv, Slots, Result!Dead, Result!Content
(* An object gets a new content, and the flag of its kind.                 *)
<1>1. ASSUME NEW o \in Objects, NEW new \in Slots,
             slot' = [slot EXCEPT ![o] = new], expect' = [expect EXCEPT ![o] = new],
             has' \in [Objects -> BOOLEAN], has'[o] <=> new.is = "value",
             \A x \in Objects \ {o} : has'[x] = has[x], spoiled' = spoiled
      PROVE  ResultInv'
  <2>1. slot' \in [Objects -> Any]
    BY <1>0, <1>1
  <2>2. ASSUME ~spoiled'
        PROVE  /\ slot' \in [Objects -> Slots] /\ expect' = slot'
               /\ \A x \in Objects : has'[x] <=> slot'[x].is = "value"
    BY <1>0, <1>1, <2>2
  <2>. QED
    BY <1>0, <1>1, <2>1, <2>2 DEF ResultInv
<1>2. ASSUME NEW o \in Objects, NEW new \in Slots, NEW move \in BOOLEAN,
             Result!Store(o, new, move)
      PROVE  ResultInv'
  <2>1. PICK r \in Result!AssignContent(o, new, move) :
          /\ slot' = [slot EXCEPT ![o] = r.content]
          /\ has' = [has EXCEPT ![o] = IF r.threw THEN @ ELSE new.is = "value"]
          /\ expect' = [expect EXCEPT ![o] = IF r.threw THEN @ ELSE new]
          /\ spoiled' = (spoiled \/ r.guarded)
    BY <1>2 DEF Result!Store
  <2>2. has' \in [Objects -> BOOLEAN] /\ \A x \in Objects \ {o} : has'[x] = has[x]
    BY <1>0, <2>1
  <2>3. CASE r = [content |-> new, threw |-> FALSE, guarded |-> FALSE]
    <3>1. r.content = new /\ r.threw = FALSE /\ r.guarded = FALSE
      BY <2>3
    <3>2. slot' = [slot EXCEPT ![o] = new] /\ expect' = [expect EXCEPT ![o] = new]
      BY <2>1, <3>1
    <3>3. (has'[o] <=> new.is = "value") /\ spoiled' = spoiled
      BY <1>0, <2>1, <3>1
    <3>. QED
      BY <1>1, <2>2, <3>2, <3>3
  <2>4. CASE r = [content |-> slot[o], threw |-> TRUE, guarded |-> FALSE]
    <3>1. r.content = slot[o] /\ r.threw = TRUE /\ r.guarded = FALSE
      BY <2>4
    <3>2. slot' = slot /\ has' = has /\ spoiled' = spoiled
      BY <1>0, <2>1, <3>1
    <3>3. ~spoiled => expect' = expect
      BY <1>0, <2>1, <3>1
    <3>. QED
      BY <1>0, <3>2, <3>3 DEF ResultInv
  <2>5. CASE r = [content |-> slot[o], threw |-> FALSE, guarded |-> TRUE]
    <3>1. r.content = slot[o] /\ r.guarded = TRUE
      BY <2>5
    <3>2. slot' = slot /\ spoiled' = TRUE
      BY <1>0, <2>1, <3>1
    <3>. QED
      BY <1>0, <2>2, <3>2 DEF ResultInv
  <2>. QED
    BY <2>3, <2>4, <2>5, AssignLeaves
<1>3. ASSUME NEW v \in Vals, NEW is \in {"value", "error"}
      PROVE  Result!Content(is, IF is = "value" /\ traitT = "void" THEN Moved ELSE v) \in Slots
  BY DEF Slots, Result!Content
<1>4. ASSUME NEW o \in Objects, NEW v \in Vals PROVE
      /\ \A is \in {"value", "error"}, move \in BOOLEAN : Result!Put(o, is, v, move) => ResultInv'
      /\ Result!Emplace(o, v) => ResultInv'
      /\ Result!EmplaceList(o, v) => ResultInv'
      /\ \A is \in {"value", "error"} : Result!Construct(o, is, v) => ResultInv'
  <2>1. ASSUME NEW is \in {"value", "error"}, NEW move \in BOOLEAN, Result!Put(o, is, v, move)
        PROVE  ResultInv'
    BY <1>2, <1>3, <2>1 DEF Result!Put
  <2>2. ASSUME Result!Emplace(o, v) PROVE ResultInv'
    <3>1. Result!Content("value", IF traitT = "void" THEN Moved ELSE v) \in Slots
          /\ Result!Content("value", IF traitT = "void" THEN Moved ELSE v).is = "value"
      BY DEF Slots, Result!Content
    <3>. QED
      BY <1>0, <1>1, <2>2, <3>1 DEF Result!Emplace
  <2>3. ASSUME Result!EmplaceList(o, v) PROVE ResultInv'
    <3>1. Result!Content("value", v) \in Slots /\ Result!Content("value", v).is = "value"
      BY DEF Slots, Result!Content
    <3>2. /\ slot' = [slot EXCEPT ![o] = Result!Content("value", v)] /\ has' = has
          /\ expect' = [expect EXCEPT ![o] = Result!Content("value", v)]
          /\ spoiled' = (spoiled \/ ~has[o])
      BY <2>3 DEF Result!EmplaceList
    <3>. QED
      BY <1>0, <3>1, <3>2 DEF ResultInv
  <2>4. ASSUME NEW is \in {"value", "error"}, Result!Construct(o, is, v) PROVE ResultInv'
    <3>. DEFINE new == Result!Content(is, IF is = "value" /\ traitT = "void" THEN Moved ELSE v)
    <3>1. new \in Slots /\ new.is = is
      BY <1>3 DEF Result!Content
    <3>2. /\ slot' = [slot EXCEPT ![o] = new] /\ has' = [has EXCEPT ![o] = is = "value"]
          /\ expect' = [expect EXCEPT ![o] = slot'[o]] /\ spoiled' = spoiled
      BY <2>4 DEF Result!Construct
    <3>3. slot'[o] = new
      BY <1>0, <3>2
    <3>4. /\ has' \in [Objects -> BOOLEAN] /\ (has'[o] <=> new.is = "value")
          /\ \A x \in Objects \ {o} : has'[x] = has[x]
      BY <1>0, <3>1, <3>2
    <3>. HIDE DEF new
    <3>. QED
      BY <1>1, <3>1, <3>2, <3>3, <3>4
  <2>. QED
    BY <2>1, <2>2, <2>3, <2>4
<1>5. ASSUME NEW o \in Objects, NEW other \in Objects PROVE
      /\ Result!MoveAssign(o, other) => ResultInv'
      /\ \A move \in BOOLEAN : Result!ConstructFrom(o, other, move) => ResultInv'
  <2>1. ASSUME Result!MoveAssign(o, other) PROVE ResultInv'
    <3>1. PICK r \in Result!AssignContent(o, slot[other], TRUE) :
            /\ slot' = [slot EXCEPT ![o] = r.content,
                                   ![other].v = IF r.threw THEN @ ELSE Moved]
            /\ has' = [has EXCEPT ![o] = IF r.threw THEN @ ELSE has[other]]
            /\ expect' = [expect EXCEPT ![o] = IF r.threw THEN @ ELSE expect[other],
                                       ![other].v = IF r.threw THEN @ ELSE Moved]
            /\ spoiled' = (spoiled \/ r.guarded)
      BY <2>1 DEF Result!MoveAssign
    <3>2. o # other
      BY <2>1 DEF Result!MoveAssign
    <3>3. has' \in [Objects -> BOOLEAN] /\ \A x \in Objects \ {o} : has'[x] = has[x]
      BY <1>0, <3>1
    <3>4. CASE r = [content |-> slot[other], threw |-> FALSE, guarded |-> FALSE]
      <4>1. r.content = slot[other] /\ r.threw = FALSE /\ r.guarded = FALSE
        BY <3>4
      <4>2. /\ slot' = [slot EXCEPT ![o] = slot[other], ![other].v = Moved]
            /\ expect' = [expect EXCEPT ![o] = expect[other], ![other].v = Moved]
        BY <3>1, <4>1
      <4>3. has'[o] = has[other] /\ spoiled' = spoiled
        BY <1>0, <3>1, <4>1
      <4>4. slot' \in [Objects -> Any]
        BY <1>0, <4>2
      <4>5. ASSUME ~spoiled'
            PROVE  /\ slot' \in [Objects -> Slots] /\ expect' = slot'
                   /\ \A x \in Objects : has'[x] <=> slot'[x].is = "value"
        BY <1>0, <3>2, <3>3, <4>2, <4>3, <4>5 DEF Slots
      <4>. QED
        BY <1>0, <3>3, <4>3, <4>4, <4>5 DEF ResultInv
    <3>5. CASE r = [content |-> slot[o], threw |-> TRUE, guarded |-> FALSE]
      <4>1. r.content = slot[o] /\ r.threw = TRUE /\ r.guarded = FALSE
        BY <3>5
      <4>2. /\ slot' = [slot EXCEPT ![o] = slot[o], ![other].v = slot[other].v]
            /\ expect' = [expect EXCEPT ![o] = expect[o], ![other].v = expect[other].v]
        BY <3>1, <3>2, <4>1
      <4>3. slot' = slot
        BY <1>0, <4>2
      <4>4. ~spoiled => expect' = expect
        BY <1>0, <4>2 DEF Slots
      <4>5. has' = has /\ spoiled' = spoiled
        BY <1>0, <3>1, <4>1
      <4>. QED
        BY <1>0, <4>3, <4>4, <4>5 DEF ResultInv
    <3>6. CASE r = [content |-> slot[o], threw |-> FALSE, guarded |-> TRUE]
      <4>1. r.content = slot[o] /\ r.threw = FALSE /\ r.guarded = TRUE
        BY <3>6
      <4>2. slot' = [slot EXCEPT ![o] = slot[o], ![other].v = Moved]
        BY <3>1, <4>1
      <4>3. slot' \in [Objects -> Any]
        BY <1>0, <4>2
      <4>4. spoiled' = TRUE
        BY <3>1, <4>1
      <4>. QED
        BY <3>3, <4>3, <4>4 DEF ResultInv
    <3>. QED
      BY <3>4, <3>5, <3>6, AssignLeaves
  <2>2. ASSUME NEW move \in BOOLEAN, Result!ConstructFrom(o, other, move) PROVE ResultInv'
    <3>1. /\ o # other
          /\ slot' = [slot EXCEPT ![o] = slot[other],
                                 ![other].v = IF move THEN Moved ELSE slot[other].v]
          /\ has' = [has EXCEPT ![o] = has[other]]
          /\ expect' = [expect EXCEPT ![o] = expect[other],
                                     ![other].v = IF move THEN Moved ELSE @]
          /\ spoiled' = spoiled
      BY <2>2 DEF Result!ConstructFrom
    <3>2. /\ has' \in [Objects -> BOOLEAN] /\ slot' \in [Objects -> Any]
      BY <1>0, <3>1
    <3>3. ASSUME ~spoiled'
          PROVE  /\ slot' \in [Objects -> Slots] /\ expect' = slot'
                 /\ \A x \in Objects : has'[x] <=> slot'[x].is = "value"
      BY <1>0, <3>1, <3>3 DEF Slots
    <3>. QED
      BY <1>0, <3>1, <3>2, <3>3 DEF ResultInv
  <2>. QED
    BY <2>1, <2>2
<1>6. ASSUME NEW x \in Objects, NEW y \in Objects,
             Result!SwapSame(x, y) \/ Result!SwapVoid(x, y)
      PROVE  ResultInv'
  <2>1. CASE UNCHANGED <<slot, has, expect, spoiled>>
    BY <1>0, <2>1 DEF ResultInv
  <2>2. CASE /\ slot' = [slot EXCEPT ![x] = slot[y], ![y] = slot[x]]
             /\ expect' = [expect EXCEPT ![x] = expect[y], ![y] = expect[x]]
             /\ has' = [has EXCEPT ![x] = has[y], ![y] = has[x]]
             /\ spoiled' = spoiled
    BY <1>0, <2>2 DEF ResultInv
  <2>3. has[x] = has[y] => has = [has EXCEPT ![x] = has[y], ![y] = has[x]]
    BY <1>0
  <2>4. has[x] /\ ~has[y] => has[x] = TRUE /\ has[y] = FALSE
    BY <1>0
  <2>. QED
    BY <1>6, <2>1, <2>2, <2>3, <2>4 DEF Result!SwapSame, Result!SwapVoid
<1>7. ASSUME NEW x \in Objects, NEW y \in Objects, Result!SwapValErr(x, y)
      PROVE  ResultInv'
  <2>1. CASE UNCHANGED <<slot, has, expect, spoiled>>
    BY <1>0, <2>1 DEF ResultInv
  <2>2. CASE spoiled' = TRUE
    <3>1. Result!Content("error", Moved) \in Any
      BY DEF Result!Content
    <3>2. \/ UNCHANGED <<slot, has>>
          \/ /\ has' = [has EXCEPT ![x] = FALSE, ![y] = TRUE]
             /\ \/ slot' = [slot EXCEPT ![x] = slot[y], ![y] = Result!Content("error", Moved)]
                \/ slot' = [slot EXCEPT ![x] = Result!Dead, ![y] = Result!Dead]
      BY <1>7 DEF Result!SwapValErr
    <3>3. has' \in [Objects -> BOOLEAN]
      BY <1>0, <3>2
    <3>4. slot' \in [Objects -> Any]
      <4>. HIDE DEF Any
      <4>. QED
        BY <1>0, <3>1, <3>2
    <3>. QED
      BY <2>2, <3>3, <3>4 DEF ResultInv
  <2>. QED
    BY <1>7, <2>1, <2>2 DEF Result!SwapValErr
<1>8. CASE UNCHANGED Result!expectedVars
  BY <1>0, <1>8 DEF ResultInv, Result!expectedVars
<1>. QED
  BY <1>4, <1>5, <1>6, <1>7, <1>8 DEF Result!Next

LEMMA ResultStarts ==
    ASSUME Result!Init
    PROVE  ResultInv
<1>. Result!DExpectedAssumption
  BY LibraryAssumption
<1>1. /\ Result!Content("value", Moved) \in Slots
      /\ Result!Content("value", Moved).is = "value"
  BY DEF Slots, Result!Content
<1>2. Slots \subseteq [is : {"value", "error", "dead"}, v : Vals \cup {Moved}]
  BY DEF Slots
<1>3. /\ has = [o \in Objects |-> TRUE] /\ expect = slot /\ spoiled = FALSE
      /\ slot = [o \in Objects |-> Result!Content("value", Moved)]
  BY DEF Result!Init
<1>4. /\ slot \in [Objects -> Slots] /\ has \in [Objects -> BOOLEAN]
      /\ \A o \in Objects : has[o] <=> slot[o].is = "value"
  BY <1>1, <1>3
<1>. QED
  BY <1>2, <1>3, <1>4 DEF ResultInv

(* value and error of a DExpected give what was put into it, and only one  *)
(* of them does (dexpected.h:182 to 430), whatever throws on the way.      *)
THEOREM ExpectedHolds == Result!Spec => []HoldsWhatWasPut
<1>. Result!DExpectedAssumption
  BY LibraryAssumption
<1>1. Result!Init => ResultInv
  BY ResultStarts
<1>2. ResultInv /\ [Result!Next]_(Result!expectedVars) => ResultInv'
  BY ResultStep
<1>3. ResultInv => Result!HoldsWhatWasPut
  BY DEF ResultInv, Slots, Result!HoldsWhatWasPut, Result!ReadValue, Result!ReadError
<1>4. ResultInv => HoldsWhatWasPut
  BY <1>3 DEF HoldsWhatWasPut, Of
<1>. QED
  BY <1>1, <1>2, <1>4, PTL DEF Result!Spec

-----------------------------------------------------------------------------
(* DCap: a path that was appended is, or is really below, one on the list. *)
CapInv ==
    /\ pathList \in Seq(CapPaths)
    /\ granted \subseteq CapPaths
    /\ \A p \in granted : \E i \in DOMAIN pathList : Cap!IsAbove(pathList[i], p)

LEMMA CleanIsPath ==
    ASSUME Cap!DCapAssumption
    PROVE  /\ \A p \in CapPaths : p # <<>> /\ Cap!CleanPath(p) = p /\ Cap!IsSubFileOf(p, p)
           /\ \A path \in Cap!Written : Cap!CleanPath(path) \in CapPaths
<1>. DEFINE S == (UNION {{p[i] : i \in DOMAIN p} : p \in CapPaths}) \cup {Sep}
<1>1. ASSUME NEW p \in CapPaths
      PROVE  /\ p # <<>> /\ Cap!CleanPath(p) = p /\ Cap!IsSubFileOf(p, p)
             /\ Cap!CleanPath(Append(p, Sep)) = p
  <2>1. /\ p \in Seq(S) /\ p # <<>> /\ p[Len(p)] # Sep
    BY SeqMonotonic DEF Cap!DCapAssumption
  <2>2. Len(p) \in Nat \ {0}
    BY <2>1, EmptySeq
  <2>3. Cap!CleanPath(p) = p
    BY <2>1 DEF Cap!CleanPath
  <2>4. Cap!IsSubFileOf(p, p)
    <3>1. SubSeq(p, 1, Len(p)) = p
      BY <2>1, SubSeqFull
    <3>. QED
      BY <2>2, <2>3, <3>1 DEF Cap!IsSubFileOf, Cap!StartsWith
  <2>5. /\ Append(p, Sep) \in Seq(S) /\ Len(Append(p, Sep)) = Len(p) + 1
        /\ \A i \in 1 .. Len(p) : Append(p, Sep)[i] = p[i]
        /\ Append(p, Sep)[Len(p) + 1] = Sep
    <3>1. Sep \in S
      OBVIOUS
    <3>. HIDE DEF S
    <3>. QED
      BY <2>1, <3>1, AppendProperties
  <2>6. SubSeq(Append(p, Sep), 1, Len(p)) = p
    <3>1. \A i \in 1 .. Len(p) : Append(p, Sep)[i] \in S
      BY <2>1, <2>5, ElementOfSeq
    <3>2. /\ SubSeq(Append(p, Sep), 1, Len(p)) \in Seq(S)
          /\ Len(SubSeq(Append(p, Sep), 1, Len(p))) = Len(p)
          /\ \A i \in 1 .. Len(p) : SubSeq(Append(p, Sep), 1, Len(p))[i] = p[i]
      <4>. HIDE DEF S
      <4>. QED
        BY <2>2, <2>5, <3>1, SubSeqProperties
    <3>. QED
      BY <2>1, <3>2, SeqEqual
  <2>7. Cap!CleanPath(Append(p, Sep)) = p
    <3>. DEFINE whole == Append(p, Sep)
    <3>1. Len(whole) >= 2 /\ Len(whole) - 1 = Len(p) /\ whole[Len(whole)] = Sep
      BY <2>2, <2>5
    <3>. HIDE DEF whole
    <3>2. Cap!CleanPath(whole) = SubSeq(whole, 1, Len(p))
      BY <3>1 DEF Cap!CleanPath
    <3>. QED
      BY <2>6, <3>2 DEF whole
  <2>. QED
    BY <2>1, <2>3, <2>4, <2>7
<1>. QED
  BY <1>1 DEF Cap!Written

(* What is below a path in the tree begins with its characters.            *)
LEMMA AboveCovers ==
    ASSUME Cap!DCapAssumption, NEW e \in CapPaths, NEW p \in CapPaths, Cap!IsAbove(e, p)
    PROVE  Cap!IsSubFileOf(p, e)
<1>. DEFINE S == (UNION {{q[i] : i \in DOMAIN q} : q \in CapPaths}) \cup {Sep}
<1>1. CASE e = p
  BY <1>1, CleanIsPath
<1>2. CASE Cap!StartsWith(p, Append(e, Sep))
  <2>1. e \in Seq(S) /\ p \in Seq(S) /\ Sep \in S /\ Cap!CleanPath(p) = p
    BY CleanIsPath, SeqMonotonic DEF Cap!DCapAssumption
  <2>. HIDE DEF S
  <2>2. /\ Append(e, Sep) \in Seq(S) /\ Len(Append(e, Sep)) = Len(e) + 1
        /\ \A i \in 1 .. Len(e) : Append(e, Sep)[i] = e[i]
    BY <2>1, AppendProperties
  <2>3. PICK d \in Seq(S) : d = Append(e, Sep)
    BY <2>2
  <2>4. Len(d) = Len(e) + 1 /\ Len(d) <= Len(p) /\ SubSeq(p, 1, Len(d)) = d
    BY <1>2, <2>2, <2>3 DEF Cap!StartsWith
  <2>5. Len(e) \in Nat /\ Len(p) \in Nat
    BY <2>1, LenProperties
  <2>6. \A i \in 1 .. Len(p) : p[i] \in S
    BY <2>1, ElementOfSeq
  <2>7. \A i \in 1 .. Len(d) : SubSeq(p, 1, Len(d))[i] = p[i]
    BY <2>4, <2>5, <2>6, SubSeqProperties
  <2>8. ASSUME NEW i \in 1 .. Len(e) PROVE e[i] = p[i]
    <3>1. i \in 1 .. Len(d) /\ d[i] = e[i]
      BY <2>2, <2>3, <2>4, <2>5
    <3>2. SubSeq(p, 1, Len(d))[i] = p[i]
      BY <2>7, <3>1, Zenon
    <3>. QED
      BY <2>4, <3>1, <3>2
  <2>9. /\ SubSeq(p, 1, Len(e)) \in Seq(S) /\ Len(SubSeq(p, 1, Len(e))) = Len(e)
        /\ \A i \in 1 .. Len(e) : SubSeq(p, 1, Len(e))[i] = p[i]
    BY <2>4, <2>5, <2>6, SubSeqProperties
  <2>10. SubSeq(p, 1, Len(e)) = e
    BY <2>1, <2>8, <2>9, SeqEqual
  <2>. QED
    BY <2>1, <2>4, <2>5, <2>10 DEF Cap!IsSubFileOf, Cap!StartsWith
<1>. QED
  BY <1>1, <1>2 DEF Cap!IsAbove

LEMMA CapStep ==
    ASSUME Cap!DCapAssumption, CapInv, Cap!Next \/ UNCHANGED Cap!capVars
    PROVE  CapInv'
<1>0. /\ pathList \in Seq(CapPaths) /\ Len(pathList) \in Nat
      /\ DOMAIN pathList = 1 .. Len(pathList)
      /\ \A i \in DOMAIN pathList : pathList[i] \in CapPaths
  BY LenProperties, ElementOfSeq DEF CapInv
<1>1. ASSUME NEW path \in Cap!Written, Cap!AppendPath(path) PROVE CapInv'
  <2>. DEFINE p == Cap!CleanPath(path)
  <2>1. p \in CapPaths /\ Cap!IsSubFileOf(p, p)
    BY CleanIsPath
  <2>2. granted' = Cap!Granted(p)
    BY <1>1 DEF Cap!AppendPath
  <2>5. granted' \subseteq granted \cup {p} /\ granted' \subseteq CapPaths
    BY <2>1, <2>2 DEF CapInv, Cap!Granted
  <2>3. CASE \E i \in DOMAIN pathList : Cap!IsSubFileOf(p, pathList[i])
    <3>1. pathList' = pathList
      BY <1>1, <2>3 DEF Cap!AppendPath
    <3>2. p \in granted' => p \in granted \/ \E i \in DOMAIN pathList : Cap!IsAbove(pathList[i], p)
      BY <2>2, <2>3 DEF Cap!Granted, Cap!Mistaken
    <3>. QED
      BY <2>5, <3>1, <3>2 DEF CapInv, Cap!IsAbove
  <2>4. CASE ~\E i \in DOMAIN pathList : Cap!IsSubFileOf(p, pathList[i])
    <3>1. pathList' = Append(pathList, p)
      BY <1>1, <2>4 DEF Cap!AppendPath
    <3>. HIDE DEF p
    <3>2. /\ pathList' \in Seq(CapPaths) /\ Len(pathList') = Len(pathList) + 1
          /\ \A i \in 1 .. Len(pathList) : pathList'[i] = pathList[i]
          /\ pathList'[Len(pathList) + 1] = p
      BY <1>0, <2>1, <3>1, AppendProperties
    <3>3. DOMAIN pathList' = 1 .. Len(pathList) + 1
      BY <3>2, LenProperties
    <3>4. ASSUME NEW q \in granted'
          PROVE  \E i \in DOMAIN pathList' : Cap!IsAbove(pathList'[i], q)
      <4>1. CASE q = p
        BY <1>0, <3>2, <3>3, <4>1 DEF Cap!IsAbove
      <4>2. CASE q \in granted
        BY <1>0, <3>2, <3>3, <4>2 DEF CapInv
      <4>. QED
        BY <2>5, <4>1, <4>2
    <3>. QED
      BY <2>5, <3>2, <3>4 DEF CapInv, Cap!IsAbove
  <2>. QED
    BY <2>3, <2>4
<1>2. ASSUME NEW path \in Cap!Written, Cap!RemovePath(path) PROVE CapInv'
  <2>. DEFINE p == Cap!CleanPath(path)
              at == {i \in DOMAIN pathList : pathList[i] = p}
              k == CHOOSE i \in at : \A j \in at : i <= j
  <2>1. /\ granted' = IF at = {} THEN granted ELSE {q \in granted : ~Cap!IsAbove(p, q)}
        /\ pathList' = IF at = {} THEN pathList
                       ELSE SubSeq(pathList, 1, k - 1) \o SubSeq(pathList, k + 1, Len(pathList))
    BY <1>2 DEF Cap!RemovePath
  <2>2. CASE at = {}
    BY <2>1, <2>2 DEF CapInv, Cap!IsAbove
  <2>3. CASE at # {}
    <3>1. k \in 1 .. Len(pathList) /\ pathList[k] = p
      <4>1. at \subseteq 1 .. Len(pathList)
        BY <1>0
      <4>2. \E i \in at : \A j \in at : i <= j
        <5>1. at \in SUBSET Nat
          BY <1>0, <4>1
        <5>. HIDE DEF at
        <5>. QED
          BY <2>3, <5>1, Smallest
      <4>. QED
        BY <1>0, <4>2
    <3>. HIDE DEF k
    <3>2. pathList' = SubSeq(pathList, 1, k - 1) \o SubSeq(pathList, k + 1, Len(pathList))
      BY <2>1, <2>3, Zenon
    <3>3. /\ pathList' \in Seq(CapPaths) /\ Len(pathList') = Len(pathList) - 1
          /\ \A i \in 1 .. Len(pathList) - 1 :
                pathList'[i] = pathList[IF i < k THEN i ELSE i + 1]
      BY <1>0, <3>1, <3>2, WithoutOne, Zenon
    <3>4. DOMAIN pathList' = 1 .. Len(pathList) - 1
      BY <3>3, LenProperties
    <3>5. ASSUME NEW q \in granted'
          PROVE  \E i \in DOMAIN pathList' : Cap!IsAbove(pathList'[i], q)
      <4>1. q \in granted /\ ~Cap!IsAbove(p, q)
        BY <2>1, <2>3
      <4>2. PICK i \in 1 .. Len(pathList) : Cap!IsAbove(pathList[i], q)
        BY <1>0, <4>1 DEF CapInv
      <4>3. i # k
        BY <3>1, <4>1, <4>2
      <4>4. CASE i < k
        <5>1. i \in 1 .. Len(pathList) - 1 /\ pathList'[i] = pathList[i]
          BY <1>0, <3>1, <3>3, <4>4
        <5>. QED
          BY <3>4, <4>2, <5>1
      <4>5. CASE i > k
        <5>1. i - 1 \in 1 .. Len(pathList) - 1 /\ pathList'[i - 1] = pathList[i]
          BY <1>0, <3>1, <3>3, <4>5
        <5>. QED
          BY <3>4, <4>2, <5>1
      <4>. QED
        BY <1>0, <3>1, <4>3, <4>4, <4>5
    <3>. QED
      BY <2>1, <2>3, <3>3, <3>5 DEF CapInv, Cap!IsAbove
  <2>. QED
    BY <2>2, <2>3
<1>3. CASE UNCHANGED <<pathList, granted>>
  BY <1>3 DEF CapInv, Cap!IsAbove
<1>4. ASSUME Cap!Next, ~\E p \in Cap!Written : Cap!AppendPath(p) \/ Cap!RemovePath(p)
      PROVE  UNCHANGED <<pathList, granted>>
  BY <1>4 DEF Cap!Next, Cap!Open, Cap!RemoveFile, Cap!RenameOverwrite, Cap!DirRename,
     Cap!Rename, Cap!CopyTo, Cap!SetPath, Cap!Cd, Cap!MkDir, Cap!MkPath, Cap!RmDir,
     Cap!RmPath, Cap!CdUp, Cap!OnlyTree
<1>5. CASE UNCHANGED Cap!capVars
  BY <1>3, <1>5 DEF Cap!capVars
<1>. QED
  BY <1>1, <1>2, <1>3, <1>4, <1>5

(* A path that was appended can be used until it, or a path really above   *)
(* it, is taken from the list, whatever else is appended or removed in     *)
(* between; of one that was not added because a sibling's name begins it   *)
(* nothing is said.                                                        *)
THEOREM AppendedIsUsable == Cap!Spec => []UsableUntilRemoved
<1>. Cap!DCapAssumption
  BY LibraryAssumption
<1>1. Cap!Init => CapInv
  BY DEF Cap!Init, CapInv, Cap!DCapAssumption
<1>2. CapInv /\ [Cap!Next]_(Cap!capVars) => CapInv'
  BY CapStep
<1>3. CapInv => Cap!UsableUntilRemoved
  <2>1. ASSUME CapInv, NEW p \in granted PROVE Cap!CanReadWrite(p)
    <3>1. PICK i \in DOMAIN pathList : Cap!IsAbove(pathList[i], p)
      BY <2>1 DEF CapInv
    <3>2. p \in CapPaths /\ pathList[i] \in CapPaths
      BY <2>1, <3>1, ElementOfSeq, LenProperties DEF CapInv
    <3>. QED
      BY <3>1, <3>2, AboveCovers, CleanIsPath DEF Cap!CanReadWrite
  <2>. QED
    BY <2>1 DEF Cap!UsableUntilRemoved
<1>4. CapInv => UsableUntilRemoved
  BY <1>3 DEF UsableUntilRemoved, Of
<1>. QED
  BY <1>1, <1>2, <1>4, PTL DEF Cap!Spec

-----------------------------------------------------------------------------
(***************************************************************************)
(* DVtableHook.  An object has a table of its own if and only if the maps  *)
(* know it under the object's address; no table that was freed is in a     *)
(* map, and no two addresses have the same one.  A call of an original     *)
(* that is under way will write to the table its address has now, or to    *)
(* one that was freed: what an object finds in a table is its own.         *)
(***************************************************************************)
Fns       == Functions \cup {Hook!Dtor}
Impls     == (Classes \X Fns) \cup (Replacements \cup {Hook!AutoClean, None})
TableRecs == [freed : BOOLEAN, class : Classes, fn : [Fns -> Impls]]
CallRecs  == [addr : Addresses, f : Functions, old : Impls, table : Int]

HookTypes ==
    /\ classTable \in [Classes -> [Fns -> Impls]]
    /\ \A c \in Classes : classTable[c][Hook!Dtor] = <<c, Hook!Dtor>>
    /\ tables \in Seq(TableRecs)
    /\ object \in [Addresses -> [class : Classes, vptr : Int] \cup {None}]
    /\ due \in [Addresses -> [Fns -> Impls]]

MapsExact ==
    /\ original \subseteq Addresses
    /\ ghost \in [original -> DOMAIN tables]
    /\ DOMAIN destruct = original
    /\ \A a \in original : ~tables[ghost[a]].freed
    /\ \A a, b \in original : ghost[a] = ghost[b] => a = b

TablesOwned ==
    \A a \in Hook!Live :
       /\ object[a].vptr \in {Hook!OwnTable, Hook!Wild} \cup DOMAIN tables
       /\ Hook!Hooked(a) => /\ a \in original /\ ghost[a] = object[a].vptr
                            /\ destruct[a] = <<object[a].class, Hook!Dtor>>

CallOwned(call) ==
    /\ call.table \in DOMAIN tables
    /\ ~tables[call.table].freed => /\ call.addr \in original
                                    /\ ghost[call.addr] = call.table
CallsOwned ==
    /\ calls \in Seq(CallRecs)
    /\ \A i \in DOMAIN calls : CallOwned(calls[i])

DuesAgree == \A a \in Hook!Live \ unsound, f \in Functions : Hook!Table(a)[f] = due[a][f]

HookInv == HookTypes /\ MapsExact /\ TablesOwned /\ CallsOwned /\ DuesAgree

LEMMA EntryReplaced ==
    ASSUME NEW S, NEW ts \in Seq(S), NEW t \in DOMAIN ts, NEW e \in S
    PROVE  /\ [ts EXCEPT ![t] = e] \in Seq(S)
           /\ DOMAIN [ts EXCEPT ![t] = e] = DOMAIN ts
           /\ \A i \in DOMAIN ts : [ts EXCEPT ![t] = e][i] = IF i = t THEN e ELSE ts[i]
<1>1. t \in 1 .. Len(ts)
  BY LenProperties
<1>. QED
  BY <1>1, ExceptSeq

(* Sequences of tables: one function of one table written, one table freed.*)
WithFn(ts, t, f, r) == [ts EXCEPT ![t].fn[f] = r]

LEMMA FnWritten ==
    ASSUME NEW ts \in Seq(TableRecs), NEW t \in DOMAIN ts, NEW f \in Fns, NEW r \in Impls
    PROVE  \E e \in TableRecs :
              /\ WithFn(ts, t, f, r) = [ts EXCEPT ![t] = e]
              /\ e.freed = ts[t].freed
              /\ \A g \in Fns : e.fn[g] = IF g = f THEN r ELSE ts[t].fn[g]
<1>1. ts[t] \in TableRecs
  BY ElementOfSeq, LenProperties
<1>2. PICK e : e = [ts[t] EXCEPT !.fn[f] = r]
  OBVIOUS
<1>3. e \in TableRecs /\ e.freed = ts[t].freed
  BY <1>1, <1>2 DEF TableRecs
<1>4. \A g \in Fns : e.fn[g] = IF g = f THEN r ELSE ts[t].fn[g]
  BY <1>1, <1>2 DEF TableRecs
<1>5. WithFn(ts, t, f, r) = [ts EXCEPT ![t] = e]
  BY <1>2 DEF WithFn
<1>. QED
  BY <1>3, <1>4, <1>5

LEMMA TableFreed ==
    ASSUME NEW ts \in Seq(TableRecs), NEW t \in DOMAIN ts
    PROVE  \E e \in TableRecs :
              /\ [ts EXCEPT ![t].freed = TRUE] = [ts EXCEPT ![t] = e]
              /\ e.freed /\ e.fn = ts[t].fn
<1>1. ts[t] \in TableRecs
  BY ElementOfSeq, LenProperties
<1>2. [ts[t] EXCEPT !.freed = TRUE] \in TableRecs
  BY <1>1 DEF TableRecs
<1>3. [ts[t] EXCEPT !.freed = TRUE].freed /\ [ts[t] EXCEPT !.freed = TRUE].fn = ts[t].fn
  BY <1>1 DEF TableRecs
<1>. QED
  BY <1>2, <1>3

LEMMA FreedEffect ==
    ASSUME HookTypes, MapsExact, NEW a \in Addresses
    PROVE  LET us == Hook!Freed(tables, a) IN
           /\ us \in Seq(TableRecs) /\ DOMAIN us = DOMAIN tables
           /\ a \in original => us[ghost[a]].freed
           /\ \A i \in DOMAIN tables : (a \in original => i # ghost[a]) => us[i] = tables[i]
<1>1. DOMAIN ghost = original /\ tables \in Seq(TableRecs)
  BY DEF MapsExact, HookTypes
<1>2. CASE a \in original
  <2>1. ghost[a] \in DOMAIN tables
    BY <1>2 DEF MapsExact
  <2>2. PICK e \in TableRecs : /\ [tables EXCEPT ![ghost[a]].freed = TRUE] = [tables EXCEPT ![ghost[a]] = e]
                               /\ e.freed /\ e.fn = tables[ghost[a]].fn
    BY <1>1, <2>1, TableFreed
  <2>3. Hook!Freed(tables, a) = [tables EXCEPT ![ghost[a]] = e]
    BY <1>1, <1>2, <2>2 DEF Hook!Freed
  <2>. QED
    BY <1>1, <1>2, <2>1, <2>2, <2>3, EntryReplaced
<1>3. CASE a \notin original
  BY <1>1, <1>3 DEF Hook!Freed
<1>. QED
  BY <1>2, <1>3

(* What clearGhostVtable does, also for an address it does not know.       *)
LEMMA Cleared ==
    ASSUME HookTypes, MapsExact, NEW a \in Addresses, Hook!ClearGhostVtable(a, tables)
    PROVE  /\ tables' \in Seq(TableRecs) /\ DOMAIN tables' = DOMAIN tables
           /\ a \in original => tables'[ghost[a]].freed
           /\ \A i \in DOMAIN tables : (a \in original => i # ghost[a]) => tables'[i] = tables[i]
           /\ original' = original \ {a}
           /\ DOMAIN ghost' = original' /\ DOMAIN destruct' = original'
           /\ \A x \in original' : ghost'[x] = ghost[x] /\ destruct'[x] = destruct[x]
           /\ \A x \in original' : tables'[ghost[x]] = tables[ghost[x]]
<1>1. /\ DOMAIN ghost = original /\ DOMAIN destruct = original
      /\ tables' = Hook!Freed(tables, a) /\ original' = original \ {a}
  BY DEF Hook!ClearGhostVtable, MapsExact
<1>2. /\ tables' \in Seq(TableRecs) /\ DOMAIN tables' = DOMAIN tables
      /\ a \in original => tables'[ghost[a]].freed
      /\ \A i \in DOMAIN tables : (a \in original => i # ghost[a]) => tables'[i] = tables[i]
  BY <1>1, FreedEffect
<1>3. /\ DOMAIN ghost' = original' /\ DOMAIN destruct' = original'
      /\ \A x \in original' : ghost'[x] = ghost[x] /\ destruct'[x] = destruct[x]
  BY <1>1 DEF Hook!ClearGhostVtable, Hook!Without, Hook!Restrict
<1>4. \A x \in original' : ghost[x] \in DOMAIN tables /\ (a \in original => ghost[x] # ghost[a])
  BY <1>1 DEF MapsExact
<1>5. \A x \in original' : tables'[ghost[x]] = tables[ghost[x]]
  BY <1>2, <1>4
<1>. QED
  BY <1>1, <1>2, <1>3, <1>5

(* An object whose table the maps forget keeps none: it ends, or it points *)
(* at its class's table again.                                             *)
ForgetOne(a, o) ==
    /\ object' = [object EXCEPT ![a] = o]
    /\ o # None => o \in [class : Classes, vptr : {Hook!OwnTable, Hook!Wild}]
    /\ UNCHANGED <<classTable, calls>>

LEMMA ForgottenKeeps ==
    ASSUME HookInv, NEW a \in Addresses, NEW o, ForgetOne(a, o),
           Hook!ClearGhostVtable(a, tables) \/ UNCHANGED <<tables, original, ghost, destruct>>,
           due' \in [Addresses -> [Fns -> Impls]]
    PROVE  /\ HookTypes' /\ MapsExact' /\ TablesOwned' /\ CallsOwned'
           /\ \A x \in Hook!Live' \ {a} :
                 /\ x \in Hook!Live /\ object'[x] = object[x]
                 /\ Hook!Hooked(x)' <=> Hook!Hooked(x)
                 /\ Hook!Table(x)' = Hook!Table(x)
<1>1. /\ HookTypes /\ MapsExact /\ TablesOwned /\ CallsOwned
      /\ object' = [object EXCEPT ![a] = o] /\ classTable' = classTable /\ calls' = calls
      /\ o # None => o \in [class : Classes, vptr : {Hook!OwnTable, Hook!Wild}]
  BY DEF HookInv, ForgetOne
<1>2. /\ tables' \in Seq(TableRecs) /\ DOMAIN tables' = DOMAIN tables
      /\ \A i \in DOMAIN tables : (a \in original => i # ghost[a]) => tables'[i] = tables[i]
      /\ original' \subseteq original /\ original \ {a} \subseteq original'
      /\ DOMAIN ghost' = original' /\ DOMAIN destruct' = original'
      /\ \A x \in original' : ghost'[x] = ghost[x] /\ destruct'[x] = destruct[x]
      /\ \A x \in original' : tables'[ghost[x]] = tables[ghost[x]]
      /\ \/ a \notin original' /\ (a \in original => tables'[ghost[a]].freed)
         \/ original' = original /\ tables' = tables
  <2>1. CASE Hook!ClearGhostVtable(a, tables)
    BY <1>1, <2>1, Cleared
  <2>2. CASE UNCHANGED <<tables, original, ghost, destruct>>
    BY <1>1, <2>2 DEF MapsExact, HookTypes
  <2>. QED
    BY <2>1, <2>2
<1>3. /\ object' \in [Addresses -> [class : Classes, vptr : Int] \cup {None}]
      /\ object'[a] = o /\ \A x \in Addresses \ {a} : object'[x] = object[x]
  BY <1>1 DEF HookTypes, Hook!OwnTable, Hook!Wild
<1>4. HookTypes'
  BY <1>1, <1>2, <1>3 DEF HookTypes
<1>5. MapsExact'
  <2>1. ghost' \in [original' -> DOMAIN tables']
    <3>1. \A x \in original' : ghost'[x] \in DOMAIN tables'
      BY <1>1, <1>2 DEF MapsExact
    <3>2. ghost' = [x \in DOMAIN ghost' |-> ghost'[x]]
      <4>1. CASE Hook!ClearGhostVtable(a, tables)
        BY <1>1, <4>1 DEF Hook!ClearGhostVtable, Hook!Without, Hook!Restrict, MapsExact
      <4>2. CASE UNCHANGED ghost
        BY <1>1, <4>2 DEF MapsExact
      <4>. QED
        BY <4>1, <4>2
    <3>. QED
      BY <1>2, <3>1, <3>2
  <2>2. \A x \in original' : ~tables'[ghost'[x]].freed
    BY <1>1, <1>2 DEF MapsExact
  <2>. QED
    BY <1>1, <1>2, <2>1, <2>2 DEF MapsExact
<1>6. ASSUME NEW x \in Hook!Live', x # a
      PROVE  /\ x \in Hook!Live /\ object'[x] = object[x]
             /\ Hook!Hooked(x)' <=> Hook!Hooked(x)
             /\ Hook!Table(x)' = Hook!Table(x)
             /\ Hook!Hooked(x) => x \in original'
  <2>1. x \in Hook!Live /\ object'[x] = object[x]
    BY <1>3, <1>6 DEF Hook!Live
  <2>2. Hook!Hooked(x)' <=> Hook!Hooked(x)
    BY <1>2, <2>1 DEF Hook!Hooked
  <2>3. CASE Hook!Hooked(x)
    <3>1. x \in original' /\ ghost[x] = object[x].vptr
      BY <1>1, <1>2, <1>6, <2>1, <2>3 DEF TablesOwned
    <3>2. tables'[object[x].vptr] = tables[object[x].vptr]
      BY <1>2, <3>1
    <3>. QED
      BY <2>1, <2>2, <2>3, <3>1, <3>2 DEF Hook!Table
  <2>4. CASE ~Hook!Hooked(x)
    BY <1>1, <2>1, <2>2, <2>4 DEF Hook!Table
  <2>. QED
    BY <2>1, <2>2, <2>3, <2>4
<1>7. ASSUME NEW x \in Hook!Live'
      PROVE  /\ object'[x].vptr \in {Hook!OwnTable, Hook!Wild} \cup DOMAIN tables'
             /\ Hook!Hooked(x)' => /\ x \in original' /\ ghost'[x] = object'[x].vptr
                                  /\ destruct'[x] = <<object'[x].class, Hook!Dtor>>
  <2>1. CASE x = a
    <3>1. o # None /\ object'[x].vptr \in {0, -1}
      BY <1>1, <1>3, <1>7, <2>1 DEF Hook!Live, Hook!OwnTable, Hook!Wild
    <3>2. 0 \notin DOMAIN tables /\ -1 \notin DOMAIN tables
      BY <1>1, LenProperties DEF HookTypes
    <3>. QED
      BY <1>2, <3>1, <3>2 DEF Hook!Hooked, Hook!OwnTable, Hook!Wild
  <2>2. CASE x # a
    BY <1>1, <1>2, <1>6, <1>7, <2>2 DEF TablesOwned
  <2>. QED
    BY <2>1, <2>2
<1>8. TablesOwned'
  BY <1>7 DEF TablesOwned
<1>9. ASSUME NEW i \in DOMAIN calls PROVE CallOwned(calls[i])'
  <2>1. CallOwned(calls[i])
    BY <1>1, <1>9 DEF CallsOwned
  <2>2. ASSUME ~tables'[calls[i].table].freed
        PROVE  calls[i].addr \in original' /\ ghost'[calls[i].addr] = calls[i].table
    <3>1. ~tables[calls[i].table].freed
      BY <1>2, <2>1, <2>2 DEF CallOwned
    <3>. QED
      BY <1>2, <2>1, <2>2, <3>1 DEF CallOwned
  <2>. QED
    BY <1>1, <1>2, <2>1, <2>2 DEF CallOwned
<1>10. CallsOwned'
  BY <1>1, <1>9 DEF CallsOwned
<1>. QED
  BY <1>4, <1>5, <1>6, <1>8, <1>10

WriteFn(t, f, r)  == tables' = WithFn(tables, t, f, r)
WriteDue(a, f, r) == due' = [due EXCEPT ![a][f] = r]

LEMMA WriteFnEffect ==
    ASSUME HookTypes, NEW t \in DOMAIN tables, NEW f \in Fns, NEW r \in Impls, WriteFn(t, f, r)
    PROVE  /\ tables' \in Seq(TableRecs) /\ DOMAIN tables' = DOMAIN tables
           /\ \A i \in DOMAIN tables : tables'[i].freed = tables[i].freed
           /\ \A i \in DOMAIN tables, g \in Fns :
                 tables'[i].fn[g] = IF i = t /\ g = f THEN r ELSE tables[i].fn[g]
<1>1. tables \in Seq(TableRecs)
  BY DEF HookTypes
<1>2. PICK e \in TableRecs :
         /\ WithFn(tables, t, f, r) = [tables EXCEPT ![t] = e]
         /\ e.freed = tables[t].freed
         /\ \A g \in Fns : e.fn[g] = IF g = f THEN r ELSE tables[t].fn[g]
  BY <1>1, FnWritten
<1>3. tables' = [tables EXCEPT ![t] = e]
  BY <1>2 DEF WriteFn
<1>4. /\ tables' \in Seq(TableRecs) /\ DOMAIN tables' = DOMAIN tables
      /\ \A i \in DOMAIN tables : tables'[i] = IF i = t THEN e ELSE tables[i]
  BY <1>1, <1>3, EntryReplaced
<1>5. \A i \in DOMAIN tables : tables'[i].freed = tables[i].freed
  BY <1>2, <1>4
<1>6. \A i \in DOMAIN tables, g \in Fns :
         tables'[i].fn[g] = IF i = t /\ g = f THEN r ELSE tables[i].fn[g]
  BY <1>2, <1>4
<1>. QED
  BY <1>4, <1>5, <1>6

(* One function of one table written: who points at it notices.            *)
LEMMA WrittenKeeps ==
    ASSUME HookInv, NEW t \in DOMAIN tables, NEW f \in Functions, NEW r \in Impls,
           WriteFn(t, f, r),
           UNCHANGED <<object, classTable, original, ghost, destruct>>,
           due' \in [Addresses -> [Fns -> Impls]]
    PROVE  /\ HookTypes' /\ MapsExact' /\ TablesOwned'
           /\ \A call : CallOwned(call) => CallOwned(call)'
           /\ \A x \in Hook!Live, g \in Functions :
                 Hook!Table(x)'[g] = IF object[x].vptr = t /\ g = f THEN r ELSE Hook!Table(x)[g]
<1>1. HookTypes /\ MapsExact /\ TablesOwned /\ f \in Fns /\ tables \in Seq(TableRecs)
  BY DEF HookInv, HookTypes, Fns
<1>2. /\ tables' \in Seq(TableRecs) /\ DOMAIN tables' = DOMAIN tables
      /\ \A i \in DOMAIN tables : tables'[i].freed = tables[i].freed
      /\ \A i \in DOMAIN tables, g \in Fns :
            tables'[i].fn[g] = IF i = t /\ g = f THEN r ELSE tables[i].fn[g]
  BY <1>1, WriteFnEffect
<1>3. HookTypes'
  BY <1>1, <1>2 DEF HookTypes
<1>4. MapsExact'
  BY <1>1, <1>2 DEF MapsExact
<1>5. \A x \in Addresses : (x \in Hook!Live') = (x \in Hook!Live) /\ Hook!Hooked(x)' = Hook!Hooked(x)
  BY <1>2 DEF Hook!Live, Hook!Hooked
<1>6. TablesOwned'
  BY <1>1, <1>2, <1>5 DEF TablesOwned, Hook!Live
<1>7. \A call : CallOwned(call) => CallOwned(call)'
  BY <1>2 DEF CallOwned
<1>8. ASSUME NEW x \in Hook!Live, NEW g \in Functions
      PROVE  Hook!Table(x)'[g] = IF object[x].vptr = t /\ g = f THEN r ELSE Hook!Table(x)[g]
  <2>1. g \in Fns /\ x \in Addresses
    BY DEF Fns, Hook!Live
  <2>2. CASE Hook!Hooked(x)
    <3>1. object[x].vptr \in DOMAIN tables
      BY <2>2 DEF Hook!Hooked
    <3>2. Hook!Table(x) = tables[object[x].vptr].fn
      BY <2>2 DEF Hook!Table
    <3>3. Hook!Table(x)' = tables'[object[x].vptr].fn
      BY <1>5, <2>1, <2>2 DEF Hook!Table
    <3>. QED
      BY <1>2, <2>1, <3>1, <3>2, <3>3
  <2>3. CASE ~Hook!Hooked(x)
    <3>1. object[x].vptr # t
      BY <2>3 DEF Hook!Hooked
    <3>2. Hook!Table(x)' = Hook!Table(x)
      BY <1>5, <2>1, <2>3 DEF Hook!Table
    <3>. QED
      BY <3>1, <3>2
  <2>. QED
    BY <2>2, <2>3
<1>. QED
  BY <1>3, <1>4, <1>6, <1>7, <1>8

LEMMA DueWritten ==
    ASSUME HookTypes, NEW a \in Addresses, NEW f \in Functions, NEW r \in Impls,
           WriteDue(a, f, r)
    PROVE  /\ due' \in [Addresses -> [Fns -> Impls]]
           /\ \A x \in Addresses, g \in Functions :
                 due'[x][g] = IF x = a /\ g = f THEN r ELSE due[x][g]
<1>1. due \in [Addresses -> [Fns -> Impls]] /\ f \in Fns
  BY DEF HookTypes, Fns
<1>2. PICK d : d = [due[a] EXCEPT ![f] = r]
  OBVIOUS
<1>3. d \in [Fns -> Impls] /\ \A g \in Fns : d[g] = IF g = f THEN r ELSE due[a][g]
  BY <1>1, <1>2
<1>4. due' = [due EXCEPT ![a] = d]
  BY <1>2 DEF WriteDue
<1>5. due' \in [Addresses -> [Fns -> Impls]]
  BY <1>1, <1>3, <1>4
<1>6. \A x \in Addresses : due'[x] = IF x = a THEN d ELSE due[x]
  BY <1>1, <1>4
<1>. QED
  BY <1>3, <1>5, <1>6 DEF Fns

(* A function is written in an object's own table and nowhere else.        *)
LEMMA OwnWritten ==
    ASSUME HookInv, NEW a \in Hook!Live, a \in original, object[a].vptr = ghost[a],
           NEW f \in Functions, NEW r \in Impls,
           WriteFn(ghost[a], f, r), WriteDue(a, f, r),
           UNCHANGED <<object, classTable, original, ghost, destruct, unsound>>
    PROVE  /\ HookTypes' /\ MapsExact' /\ TablesOwned' /\ DuesAgree'
           /\ \A call : CallOwned(call) => CallOwned(call)'
<1>1. HookTypes /\ MapsExact /\ TablesOwned /\ DuesAgree /\ a \in Addresses
  BY DEF HookInv, Hook!Live
<1>2. ghost[a] \in DOMAIN tables
  BY <1>1 DEF MapsExact
<1>3. /\ due' \in [Addresses -> [Fns -> Impls]]
      /\ \A x \in Addresses, g \in Functions :
            due'[x][g] = IF x = a /\ g = f THEN r ELSE due[x][g]
  BY <1>1, DueWritten
<1>4. /\ HookTypes' /\ MapsExact' /\ TablesOwned'
      /\ \A call : CallOwned(call) => CallOwned(call)'
      /\ \A x \in Hook!Live, g \in Functions :
            Hook!Table(x)'[g] = IF object[x].vptr = ghost[a] /\ g = f THEN r ELSE Hook!Table(x)[g]
  BY <1>2, <1>3, WrittenKeeps
<1>5. \A x \in Hook!Live : object[x].vptr = ghost[a] <=> x = a
  <2>1. ASSUME NEW x \in Hook!Live, object[x].vptr = ghost[a] PROVE x = a
    <3>1. x \in original /\ ghost[x] = ghost[a]
      BY <1>1, <1>2, <2>1 DEF TablesOwned, Hook!Hooked
    <3>. QED
      BY <1>1, <3>1 DEF MapsExact
  <2>. QED
    BY <2>1
<1>6. DuesAgree'
  <2>1. ASSUME NEW x \in (Hook!Live \ unsound)', NEW g \in Functions
        PROVE  Hook!Table(x)'[g] = due'[x][g]
    <3>1. x \in Hook!Live \ unsound /\ x \in Addresses
      BY <2>1 DEF Hook!Live
    <3>. QED
      BY <1>1, <1>3, <1>4, <1>5, <3>1 DEF DuesAgree
  <2>. QED
    BY <2>1 DEF DuesAgree
<1>. QED
  BY <1>4, <1>6

LEMMA CallsKept ==
    ASSUME CallsOwned, UNCHANGED calls, \A call : CallOwned(call) => CallOwned(call)'
    PROVE  CallsOwned'
BY DEF CallsOwned

LEMMA OriginalTypes ==
    ASSUME HookTypes, NEW a \in Hook!Live
    PROVE  /\ object[a] \in [class : Classes, vptr : Int]
           /\ classTable[object[a].class] \in [Fns -> Impls]
           /\ \A f \in Functions : Hook!OriginalFun(a, f) \in Impls
           /\ Hook!Table(a) \in [Fns -> Impls]
<1>1. object[a] \in [class : Classes, vptr : Int]
  BY DEF HookTypes, Hook!Live
<1>2. classTable[object[a].class] \in [Fns -> Impls]
  BY <1>1 DEF HookTypes
<1>3. \A i \in DOMAIN tables : tables[i].fn \in [Fns -> Impls]
  <2>1. \A i \in DOMAIN tables : tables[i] \in TableRecs
    BY ElementOfSeq, LenProperties DEF HookTypes
  <2>. QED
    BY <2>1 DEF TableRecs
<1>. QED
  BY <1>1, <1>2, <1>3 DEF Hook!OriginalFun, Fns, Hook!Table, Hook!Hooked

LEMMA StutterKeeps ==
    ASSUME HookInv, UNCHANGED Hook!hookVars
    PROVE  HookInv'
<1>1. Hook!Live' = Hook!Live /\ \A a : Hook!Table(a)' = Hook!Table(a) /\ Hook!Hooked(a)' = Hook!Hooked(a)
  BY DEF Hook!hookVars, Hook!Live, Hook!Table, Hook!Hooked
<1>2. HookTypes' /\ MapsExact'
  BY DEF HookInv, Hook!hookVars, HookTypes, MapsExact
<1>3. TablesOwned' /\ CallsOwned' /\ DuesAgree'
  BY <1>1 DEF HookInv, Hook!hookVars, TablesOwned, CallsOwned, CallOwned, DuesAgree
<1>. QED
  BY <1>2, <1>3 DEF HookInv

LEMMA ForgottenStep ==
    ASSUME HookInv, NEW a \in Addresses, NEW o, ForgetOne(a, o),
           Hook!ClearGhostVtable(a, tables) \/ UNCHANGED <<tables, original, ghost, destruct>>,
           due' \in [Addresses -> [Fns -> Impls]], \A x \in Addresses \ {a} : due'[x] = due[x],
           \/ o = None \/ a \in unsound'
           \/ o.vptr = Hook!OwnTable /\ due'[a] = classTable[o.class],
           unsound \ {a} \subseteq unsound'
    PROVE  HookInv'
<1>1. HookTypes /\ DuesAgree /\ classTable' = classTable
  BY DEF HookInv, ForgetOne
<1>2. object'[a] = o
  BY <1>1 DEF ForgetOne, HookTypes
<1>4. /\ HookTypes' /\ MapsExact' /\ TablesOwned' /\ CallsOwned'
      /\ \A x \in Hook!Live' \ {a} : x \in Hook!Live /\ Hook!Table(x)' = Hook!Table(x)
  BY ForgottenKeeps
<1>5. ASSUME NEW x \in (Hook!Live \ unsound)', NEW f \in Functions
      PROVE  Hook!Table(x)'[f] = due'[x][f]
  <2>1. CASE x # a
    <3>1. x \in Hook!Live \ unsound /\ x \in Addresses /\ Hook!Table(x)' = Hook!Table(x)
      BY <1>4, <1>5, <2>1 DEF Hook!Live
    <3>. QED
      BY <1>1, <2>1, <3>1 DEF DuesAgree
  <2>2. CASE x = a
    <3>1. o.vptr = Hook!OwnTable /\ due'[a] = classTable[o.class]
      BY <1>2, <1>5, <2>2 DEF Hook!Live
    <3>2. Hook!OwnTable \notin DOMAIN tables'
      BY <1>4, LenProperties DEF HookTypes, Hook!OwnTable
    <3>3. Hook!Table(x)' = classTable[o.class]
      BY <1>1, <1>2, <2>2, <3>1, <3>2 DEF Hook!Table, Hook!Hooked
    <3>. QED
      BY <2>2, <3>1, <3>3
  <2>. QED
    BY <2>1, <2>2
<1>. QED
  BY <1>4, <1>5 DEF HookInv, DuesAgree

LEMMA ConstructStep ==
    ASSUME HookInv, NEW a \in Addresses, NEW c \in Classes, Hook!Construct(a, c)
    PROVE  HookInv'
<1>1. PICK o : o = [class |-> c, vptr |-> Hook!OwnTable]
  OBVIOUS
<1>2. o \in [class : Classes, vptr : {Hook!OwnTable, Hook!Wild}] /\ o.class = c /\ o.vptr = Hook!OwnTable
  BY <1>1
<1>3. ForgetOne(a, o)
  BY <1>1, <1>2 DEF Hook!Construct, ForgetOne
<1>4. /\ UNCHANGED <<tables, original, ghost, destruct>>
      /\ due' = [due EXCEPT ![a] = classTable[c]] /\ unsound' = unsound \ {a}
  BY DEF Hook!Construct
<1>5. /\ due' \in [Addresses -> [Fns -> Impls]]
      /\ due'[a] = classTable[c] /\ \A x \in Addresses \ {a} : due'[x] = due[x]
  BY <1>4 DEF HookInv, HookTypes
<1>. QED
  BY <1>2, <1>3, <1>4, <1>5, ForgottenStep

LEMMA ResetVtableStep ==
    ASSUME HookInv, NEW a \in Addresses, Hook!ResetVtable(a)
    PROVE  HookInv'
<1>1. CASE UNCHANGED <<object, tables, original, ghost, destruct, due, unsound>>
  <2>1. UNCHANGED Hook!hookVars
    BY <1>1 DEF Hook!ResetVtable, Hook!hookVars
  <2>. QED
    BY <2>1, StutterKeeps
<1>2. CASE /\ object' = [object EXCEPT ![a].vptr = IF Hook!Hooked(a) THEN Hook!OwnTable ELSE Hook!Wild]
           /\ Hook!ClearGhostVtable(a, tables)
           /\ unsound' = IF Hook!Hooked(a) THEN unsound ELSE unsound \cup {a}
           /\ due' = [due EXCEPT ![a] = classTable[object[a].class]]
  <2>1. PICK v : v = IF Hook!Hooked(a) THEN Hook!OwnTable ELSE Hook!Wild
    OBVIOUS
  <2>2. a \in Hook!Live /\ UNCHANGED <<classTable, calls>> /\ HookTypes
    BY DEF Hook!ResetVtable, Hook!Live, HookInv
  <2>3. object[a] \in [class : Classes, vptr : Int] /\ classTable[object[a].class] \in [Fns -> Impls]
    BY <2>2, OriginalTypes
  <2>4. PICK o : o = [object[a] EXCEPT !.vptr = v]
    OBVIOUS
  <2>5. /\ o \in [class : Classes, vptr : {Hook!OwnTable, Hook!Wild}]
        /\ o.class = object[a].class /\ o.vptr = v
    BY <2>1, <2>3, <2>4
  <2>6. object' = [object EXCEPT ![a] = o]
    BY <1>2, <2>1, <2>4
  <2>7. ForgetOne(a, o)
    BY <2>2, <2>5, <2>6 DEF ForgetOne
  <2>8. /\ due' \in [Addresses -> [Fns -> Impls]]
        /\ due'[a] = classTable[o.class] /\ \A x \in Addresses \ {a} : due'[x] = due[x]
    BY <1>2, <2>2, <2>3, <2>5 DEF HookTypes
  <2>. QED
    BY <1>2, <2>1, <2>5, <2>7, <2>8, ForgottenStep
<1>. QED
  BY <1>1, <1>2 DEF Hook!ResetVtable

LEMMA EndStep ==
    ASSUME HookInv, NEW a \in Addresses, Hook!Delete(a) \/ Hook!GoOutOfScope(a)
    PROVE  HookInv'
<1>1. /\ object' = [object EXCEPT ![a] = None] /\ UNCHANGED <<classTable, calls>>
      /\ due' = due /\ unsound' = unsound
  BY DEF Hook!Delete, Hook!GoOutOfScope
<1>2. Hook!ClearGhostVtable(a, tables) \/ UNCHANGED <<tables, original, ghost, destruct>>
  BY DEF Hook!Delete, Hook!GoOutOfScope
<1>3. ForgetOne(a, None)
  BY <1>1 DEF ForgetOne
<1>4. due' \in [Addresses -> [Fns -> Impls]]
  BY <1>1 DEF HookInv, HookTypes
<1>. QED
  BY <1>1, <1>2, <1>3, <1>4, ForgottenStep

(* Actions that write one function of an object's own table.               *)
LEMMA ResetVfptrFunStep ==
    ASSUME HookInv, NEW a \in Addresses, NEW f \in Functions, Hook!ResetVfptrFun(a, f)
    PROVE  HookInv'
<1>1. /\ a \in Hook!Live /\ a \in original /\ object[a].vptr = ghost[a]
      /\ WriteFn(ghost[a], f, Hook!OriginalFun(a, f)) /\ WriteDue(a, f, Hook!OriginalFun(a, f))
      /\ UNCHANGED <<object, classTable, original, ghost, destruct, unsound>> /\ UNCHANGED calls
  BY DEF Hook!ResetVfptrFun, Hook!HasVtable, Hook!Live, HookInv, MapsExact, WriteFn, WithFn, WriteDue
<1>2. Hook!OriginalFun(a, f) \in Impls /\ CallsOwned
  BY <1>1, OriginalTypes DEF HookInv
<1>3. /\ HookTypes' /\ MapsExact' /\ TablesOwned' /\ DuesAgree'
      /\ \A call : CallOwned(call) => CallOwned(call)'
  BY <1>1, <1>2, OwnWritten
<1>. QED
  BY <1>1, <1>2, <1>3, CallsKept DEF HookInv

LEMMA CallOriginalFunStep ==
    ASSUME HookInv, NEW a \in Addresses, NEW f \in Functions, Hook!CallOriginalFun(a, f)
    PROVE  HookInv'
<1>1. /\ a \in Hook!Live /\ a \in original /\ object[a].vptr = ghost[a]
      /\ WriteFn(ghost[a], f, Hook!OriginalFun(a, f)) /\ WriteDue(a, f, Hook!OriginalFun(a, f))
      /\ UNCHANGED <<object, classTable, original, ghost, destruct, unsound>>
  BY DEF Hook!CallOriginalFun, Hook!HasVtable, Hook!Live, HookInv, MapsExact, WriteFn, WithFn, WriteDue
<1>2. Hook!OriginalFun(a, f) \in Impls /\ CallsOwned /\ Hook!Table(a) \in [Fns -> Impls]
  BY <1>1, OriginalTypes DEF HookInv
<1>3. /\ HookTypes' /\ MapsExact' /\ TablesOwned' /\ DuesAgree'
      /\ \A call : CallOwned(call) => CallOwned(call)'
  BY <1>1, <1>2, OwnWritten
<1>4. CallsOwned'
  <2>1. PICK call : call = [addr |-> a, f |-> f, old |-> Hook!Table(a)[f], table |-> ghost[a]]
    OBVIOUS
  <2>2. ghost[a] \in DOMAIN tables /\ DOMAIN tables \subseteq Int
    BY <1>1, LenProperties DEF HookInv, MapsExact, HookTypes
  <2>3. call \in CallRecs
    BY <1>2, <2>1, <2>2 DEF CallRecs, Fns
  <2>4. CallOwned(call)
    BY <1>1, <2>1, <2>2 DEF CallOwned
  <2>5. calls' = Append(calls, call)
    BY <2>1 DEF Hook!CallOriginalFun
  <2>6. /\ calls' \in Seq(CallRecs) /\ DOMAIN calls' = 1 .. Len(calls) + 1
        /\ \A i \in 1 .. Len(calls) : calls'[i] = calls[i]
        /\ calls'[Len(calls) + 1] = call /\ Len(calls) \in Nat
    BY <1>2, <2>3, <2>5, AppendProperties, LenProperties DEF CallsOwned
  <2>7. ASSUME NEW i \in DOMAIN calls' PROVE CallOwned(calls'[i])
    BY <1>2, <2>4, <2>6, LenProperties DEF CallsOwned
  <2>. QED
    BY <1>3, <2>6, <2>7 DEF CallsOwned
<1>. QED
  BY <1>3, <1>4 DEF HookInv

LEMMA OriginalReturnsStep ==
    ASSUME HookInv, Hook!OriginalReturns
    PROVE  HookInv'
<1>. DEFINE call == calls[Len(calls)]
<1>1. /\ HookTypes /\ MapsExact /\ TablesOwned /\ CallsOwned /\ DuesAgree
      /\ calls \in Seq(CallRecs) /\ calls # <<>>
  BY DEF HookInv, CallsOwned, Hook!OriginalReturns
<1>2. Len(calls) \in Nat \ {0} /\ DOMAIN calls = 1 .. Len(calls)
  BY <1>1, EmptySeq, LenProperties
<1>3. call \in CallRecs /\ CallOwned(call)
  BY <1>1, <1>2, ElementOfSeq DEF CallsOwned
<1>4. /\ call.addr \in Addresses /\ call.f \in Functions /\ call.old \in Impls
      /\ call.table \in DOMAIN tables
  BY <1>3 DEF CallRecs, CallOwned
<1>5. /\ calls' = SubSeq(calls, 1, Len(calls) - 1) /\ WriteFn(call.table, call.f, call.old)
      /\ UNCHANGED <<object, classTable, original, ghost, destruct>>
  BY DEF Hook!OriginalReturns, WriteFn, WithFn
<1>6. /\ calls' \in Seq(CallRecs) /\ DOMAIN calls' = 1 .. Len(calls) - 1
      /\ \A i \in 1 .. Len(calls) - 1 : calls'[i] = calls[i]
  <2>1. \A i \in 1 .. Len(calls) - 1 : calls[i] \in CallRecs
    BY <1>1, <1>2, ElementOfSeq
  <2>2. /\ calls' \in Seq(CallRecs) /\ Len(calls') = Len(calls) - 1
        /\ \A i \in 1 .. Len(calls) - 1 : calls'[i] = calls[i]
    BY <1>2, <1>5, <2>1, SubSeqProperties
  <2>. QED
    BY <2>2, LenProperties
<1>7. ASSUME due' \in [Addresses -> [Fns -> Impls]]
      PROVE  /\ HookTypes' /\ MapsExact' /\ TablesOwned' /\ CallsOwned'
             /\ \A x \in Hook!Live, g \in Functions :
                   Hook!Table(x)'[g] = IF object[x].vptr = call.table /\ g = call.f
                                       THEN call.old ELSE Hook!Table(x)[g]
  <2>1. /\ HookTypes' /\ MapsExact' /\ TablesOwned'
        /\ \A cl : CallOwned(cl) => CallOwned(cl)'
        /\ \A x \in Hook!Live, g \in Functions :
              Hook!Table(x)'[g] = IF object[x].vptr = call.table /\ g = call.f
                                  THEN call.old ELSE Hook!Table(x)[g]
    BY <1>4, <1>5, <1>7, WrittenKeeps
  <2>2. ASSUME NEW i \in DOMAIN calls' PROVE CallOwned(calls'[i])
    <3>1. i \in DOMAIN calls /\ calls'[i] = calls[i]
      BY <1>2, <1>6
    <3>. QED
      BY <1>1, <3>1 DEF CallsOwned
  <2>3. CallsOwned'
    BY <1>6, <2>1, <2>2 DEF CallsOwned
  <2>. QED
    BY <2>1, <2>3
<1>8. CASE tables[call.table].freed
  <2>1. unsound' = Addresses /\ due' = due
    BY <1>8 DEF Hook!OriginalReturns
  <2>2. DuesAgree'
    BY <2>1 DEF DuesAgree, Hook!Live
  <2>3. due' \in [Addresses -> [Fns -> Impls]]
    BY <1>1, <2>1 DEF HookTypes
  <2>. QED
    BY <1>7, <2>2, <2>3 DEF HookInv
<1>9. CASE ~tables[call.table].freed
  <2>1. call.addr \in original /\ ghost[call.addr] = call.table
    BY <1>3, <1>9 DEF CallOwned
  <2>2. \A x \in Hook!Live : object[x].vptr = call.table => x = call.addr
    BY <1>1, <1>4, <2>1 DEF TablesOwned, MapsExact, Hook!Hooked
  <2>3. /\ due' = IF object[call.addr] # None /\ object[call.addr].vptr = call.table
                  THEN [due EXCEPT ![call.addr][call.f] = call.old] ELSE due
        /\ unsound' = unsound
    BY <1>9 DEF Hook!OriginalReturns
  <2>4. /\ due' \in [Addresses -> [Fns -> Impls]]
        /\ \A x \in Hook!Live, g \in Functions :
              due'[x][g] = IF object[x].vptr = call.table /\ g = call.f THEN call.old ELSE due[x][g]
    <3>1. CASE object[call.addr] # None /\ object[call.addr].vptr = call.table
      <4>1. WriteDue(call.addr, call.f, call.old)
        BY <2>3, <3>1 DEF WriteDue
      <4>2. /\ due' \in [Addresses -> [Fns -> Impls]]
            /\ \A x \in Addresses, g \in Functions :
                  due'[x][g] = IF x = call.addr /\ g = call.f THEN call.old ELSE due[x][g]
        BY <1>1, <1>4, <4>1, DueWritten
      <4>. QED
        BY <2>2, <3>1, <4>2 DEF Hook!Live
    <3>2. CASE ~(object[call.addr] # None /\ object[call.addr].vptr = call.table)
      <4>1. due' = due
        BY <2>3, <3>2
      <4>2. \A x \in Hook!Live : object[x].vptr # call.table
        BY <2>2, <3>2 DEF Hook!Live
      <4>. QED
        BY <1>1, <4>1, <4>2 DEF HookTypes
    <3>. QED
      BY <3>1, <3>2
  <2>5. /\ HookTypes' /\ MapsExact' /\ TablesOwned' /\ CallsOwned'
        /\ \A x \in Hook!Live, g \in Functions :
              Hook!Table(x)'[g] = IF object[x].vptr = call.table /\ g = call.f
                                  THEN call.old ELSE Hook!Table(x)[g]
    BY <1>7, <2>4
  <2>6. ASSUME NEW x \in (Hook!Live \ unsound)', NEW g \in Functions
        PROVE  Hook!Table(x)'[g] = due'[x][g]
    <3>1. x \in Hook!Live \ unsound
      BY <1>5, <2>3, <2>6 DEF Hook!Live
    <3>. QED
      BY <1>1, <2>4, <2>5, <3>1 DEF DuesAgree
  <2>. QED
    BY <2>5, <2>6 DEF HookInv, DuesAgree
<1>. QED
  BY <1>8, <1>9

(* The own table an object is given: a copy of what it had, in which one   *)
(* function and the destructor are replaced.                               *)
NewTable(a, f, r) == [Hook!CopyVtable(a) EXCEPT !.fn[f] = r]

LEMMA NewTableHolds ==
    ASSUME HookTypes, Hook!DVtableHookAssumption, NEW a \in Hook!Live,
           NEW f \in Functions, NEW r \in Impls
    PROVE  /\ NewTable(a, f, r) \in TableRecs /\ ~NewTable(a, f, r).freed
           /\ \A g \in Functions : NewTable(a, f, r).fn[g] = IF g = f THEN r ELSE Hook!Table(a)[g]
<1>1. /\ object[a].class \in Classes /\ Hook!Table(a) \in [Fns -> Impls]
      /\ Hook!AutoClean \in Impls /\ f \in Fns /\ Hook!Dtor \notin Functions
  BY OriginalTypes DEF Impls, Fns, Hook!DVtableHookAssumption
<1>2. PICK m : m = [Hook!Table(a) EXCEPT ![Hook!Dtor] = Hook!AutoClean]
  OBVIOUS
<1>3. m \in [Fns -> Impls] /\ \A g \in Functions : m[g] = Hook!Table(a)[g]
  BY <1>1, <1>2 DEF Fns
<1>4. Hook!CopyVtable(a) = [freed |-> FALSE, class |-> object[a].class, fn |-> m]
  BY <1>2 DEF Hook!CopyVtable
<1>5. PICK n : n = [Hook!CopyVtable(a).fn EXCEPT ![f] = r]
  OBVIOUS
<1>6. n \in [Fns -> Impls] /\ \A g \in Functions : n[g] = IF g = f THEN r ELSE Hook!Table(a)[g]
  BY <1>1, <1>3, <1>4, <1>5 DEF Fns
<1>7. NewTable(a, f, r) = [Hook!CopyVtable(a) EXCEPT !.fn = n]
  BY <1>5 DEF NewTable
<1>8. Hook!CopyVtable(a) \in TableRecs /\ ~Hook!CopyVtable(a).freed
  BY <1>1, <1>3, <1>4 DEF TableRecs
<1>9. NewTable(a, f, r) \in TableRecs /\ ~NewTable(a, f, r).freed /\ NewTable(a, f, r).fn = n
  BY <1>6, <1>7, <1>8 DEF TableRecs
<1>. QED
  BY <1>6, <1>9

LEMMA NewVtableStep ==
    ASSUME HookInv, Hook!DVtableHookAssumption, NEW a \in Addresses, NEW f \in Functions,
           NEW r \in Replacements, Hook!OverrideVfptrFun(a, f, r), ~Hook!Known(a)
    PROVE  HookInv'
<1>. DEFINE us == Hook!Freed(tables, a)
            t  == Len(tables) + 1
<1>1. /\ HookTypes /\ MapsExact /\ TablesOwned /\ CallsOwned /\ DuesAgree
      /\ a \in Hook!Live /\ r \in Impls
  BY DEF HookInv, Hook!Live, Hook!OverrideVfptrFun, Impls
<1>2. /\ tables' = Append(us, NewTable(a, f, r))
      /\ object' = [object EXCEPT ![a].vptr = t]
      /\ original' = original \cup {a}
      /\ ghost' = Hook!With(ghost, a, t) /\ destruct' = Hook!With(destruct, a, Hook!Table(a)[Hook!Dtor])
      /\ classTable' = classTable /\ calls' = calls /\ unsound' = unsound /\ WriteDue(a, f, r)
  BY DEF Hook!OverrideVfptrFun, NewTable, WriteDue
<1>3. /\ us \in Seq(TableRecs) /\ DOMAIN us = DOMAIN tables
      /\ a \in original => us[ghost[a]].freed
      /\ \A i \in DOMAIN tables : (a \in original => i # ghost[a]) => us[i] = tables[i]
  BY <1>1, FreedEffect
<1>4. /\ NewTable(a, f, r) \in TableRecs /\ ~NewTable(a, f, r).freed
      /\ \A g \in Functions : NewTable(a, f, r).fn[g] = IF g = f THEN r ELSE Hook!Table(a)[g]
  BY <1>1, NewTableHolds
<1>5. Len(tables) \in Nat /\ DOMAIN tables = 1 .. Len(tables) /\ Len(us) = Len(tables)
  BY <1>1, <1>3, LenProperties DEF HookTypes
<1>. HIDE DEF us
<1>6. /\ tables' \in Seq(TableRecs) /\ DOMAIN tables' = DOMAIN tables \cup {t}
      /\ \A i \in DOMAIN tables : tables'[i] = us[i]
      /\ tables'[t] = NewTable(a, f, r) /\ t \notin DOMAIN tables /\ t \in Nat \ {0}
  <2>1. /\ tables' \in Seq(TableRecs) /\ Len(tables') = t
        /\ \A i \in 1 .. Len(tables) : tables'[i] = us[i]
        /\ tables'[t] = NewTable(a, f, r)
    BY <1>2, <1>3, <1>4, <1>5, AppendProperties
  <2>2. DOMAIN tables' = 1 .. t
    BY <2>1, LenProperties
  <2>. QED
    BY <1>5, <2>1, <2>2
<1>. HIDE DEF t
<1>7. /\ object' \in [Addresses -> [class : Classes, vptr : Int] \cup {None}]
      /\ object'[a] = [class |-> object[a].class, vptr |-> t]
      /\ \A x \in Addresses \ {a} : object'[x] = object[x]
  <2>1. object[a] \in [class : Classes, vptr : Int]
    BY <1>1, OriginalTypes
  <2>2. [object[a] EXCEPT !.vptr = t] = [class |-> object[a].class, vptr |-> t]
    BY <2>1
  <2>3. object' = [object EXCEPT ![a] = [class |-> object[a].class, vptr |-> t]]
    BY <1>2, <2>2
  <2>4. [class |-> object[a].class, vptr |-> t] \in [class : Classes, vptr : Int]
    BY <1>6, <2>1
  <2>. QED
    BY <1>1, <2>3, <2>4 DEF HookTypes
<1>8. /\ due' \in [Addresses -> [Fns -> Impls]]
      /\ \A x \in Addresses, g \in Functions :
            due'[x][g] = IF x = a /\ g = f THEN r ELSE due[x][g]
  BY <1>1, <1>2, DueWritten
<1>9. HookTypes'
  BY <1>1, <1>2, <1>6, <1>7, <1>8 DEF HookTypes
<1>10. /\ DOMAIN ghost' = original' /\ DOMAIN destruct' = original'
       /\ ghost' = [x \in original' |-> ghost'[x]]
       /\ ghost'[a] = t /\ destruct'[a] = Hook!Table(a)[Hook!Dtor]
       /\ \A x \in original' \ {a} : /\ x \in original /\ ghost'[x] = ghost[x]
                                    /\ destruct'[x] = destruct[x]
  BY <1>1, <1>2 DEF Hook!With, MapsExact
<1>11. \A x \in original' \ {a} : /\ ghost[x] \in DOMAIN tables
                                  /\ tables'[ghost[x]] = tables[ghost[x]]
  BY <1>1, <1>3, <1>6, <1>10 DEF MapsExact
<1>12. MapsExact'
  <2>1. ghost' \in [original' -> DOMAIN tables']
    <3>1. \A x \in original' : ghost'[x] \in DOMAIN tables'
      BY <1>6, <1>10, <1>11
    <3>. QED
      BY <1>10, <3>1
  <2>2. \A x \in original' : ~tables'[ghost'[x]].freed
    BY <1>1, <1>4, <1>6, <1>10, <1>11 DEF MapsExact
  <2>3. \A x, y \in original' : ghost'[x] = ghost'[y] => x = y
    BY <1>1, <1>6, <1>10, <1>11 DEF MapsExact
  <2>. QED
    BY <1>1, <1>2, <1>10, <2>1, <2>2, <2>3 DEF MapsExact
<1>13. ASSUME NEW x \in Hook!Live', x # a
       PROVE  /\ x \in Hook!Live /\ x \in Addresses /\ object'[x] = object[x]
              /\ Hook!Hooked(x)' <=> Hook!Hooked(x)
              /\ Hook!Table(x)' = Hook!Table(x)
              /\ Hook!Hooked(x) => x \in original' \ {a} /\ ghost[x] = object[x].vptr
  <2>1. x \in Hook!Live /\ x \in Addresses /\ object'[x] = object[x]
    BY <1>7, <1>13 DEF Hook!Live
  <2>2. object[x].vptr \in {Hook!OwnTable, Hook!Wild} \cup DOMAIN tables
    BY <1>1, <2>1 DEF TablesOwned
  <2>3. object[x].vptr # t
    BY <1>6, <2>2 DEF Hook!OwnTable, Hook!Wild
  <2>4. Hook!Hooked(x)' <=> Hook!Hooked(x)
    BY <1>6, <2>1, <2>3 DEF Hook!Hooked
  <2>5. CASE Hook!Hooked(x)
    <3>1. x \in original' \ {a} /\ ghost[x] = object[x].vptr
      BY <1>1, <1>2, <1>13, <2>1, <2>5 DEF TablesOwned
    <3>2. tables'[object[x].vptr] = tables[object[x].vptr]
      BY <1>11, <3>1
    <3>. QED
      BY <2>1, <2>4, <2>5, <3>1, <3>2 DEF Hook!Table
  <2>6. CASE ~Hook!Hooked(x)
    BY <1>2, <2>1, <2>4, <2>6 DEF Hook!Table
  <2>. QED
    BY <2>1, <2>4, <2>5, <2>6
<1>14. ~Hook!Hooked(a)
  BY <1>1 DEF TablesOwned, Hook!Known
<1>15. Hook!Table(a)[Hook!Dtor] = <<object[a].class, Hook!Dtor>>
  <2>1. object[a].class \in Classes
    BY <1>1, OriginalTypes
  <2>. QED
    BY <1>1, <1>14, <2>1 DEF Hook!Table, HookTypes
<1>16. ASSUME NEW x \in Hook!Live'
       PROVE  /\ object'[x].vptr \in {Hook!OwnTable, Hook!Wild} \cup DOMAIN tables'
              /\ Hook!Hooked(x)' => /\ x \in original' /\ ghost'[x] = object'[x].vptr
                                   /\ destruct'[x] = <<object'[x].class, Hook!Dtor>>
  <2>1. CASE x = a
    <3>1. object'[a].vptr = t /\ object'[a].class = object[a].class
      BY <1>7
    <3>2. a \in original' /\ t \in DOMAIN tables'
      BY <1>2, <1>6
    <3>. QED
      BY <1>10, <1>15, <2>1, <3>1, <3>2
  <2>2. CASE x # a
    BY <1>1, <1>6, <1>10, <1>13, <1>16, <2>2 DEF TablesOwned
  <2>. QED
    BY <2>1, <2>2
<1>17. TablesOwned'
  BY <1>16 DEF TablesOwned
<1>18. ASSUME NEW i \in DOMAIN calls PROVE CallOwned(calls[i])'
  <2>1. CallOwned(calls[i])
    BY <1>1, <1>18 DEF CallsOwned
  <2>2. ASSUME ~tables'[calls[i].table].freed
        PROVE  calls[i].addr \in original' /\ ghost'[calls[i].addr] = calls[i].table
    <3>1. tables'[calls[i].table] = us[calls[i].table]
      BY <1>6, <2>1 DEF CallOwned
    <3>2. a \in original => calls[i].table # ghost[a]
      BY <1>3, <2>2, <3>1
    <3>3. ~tables[calls[i].table].freed
      BY <1>3, <2>1, <2>2, <3>1, <3>2 DEF CallOwned
    <3>4. calls[i].addr \in original /\ ghost[calls[i].addr] = calls[i].table /\ calls[i].addr # a
      BY <2>1, <3>2, <3>3 DEF CallOwned
    <3>. QED
      BY <1>2, <1>10, <3>4
  <2>. QED
    BY <1>2, <1>6, <2>1, <2>2 DEF CallOwned
<1>19. CallsOwned'
  BY <1>1, <1>2, <1>18 DEF CallsOwned
<1>20. ASSUME NEW x \in (Hook!Live \ unsound)', NEW g \in Functions
       PROVE  Hook!Table(x)'[g] = due'[x][g]
  <2>1. CASE x = a
    <3>1. Hook!Table(x)' = NewTable(a, f, r).fn
      BY <1>6, <1>7, <2>1 DEF Hook!Table, Hook!Hooked
    <3>2. Hook!Table(a)[g] = due[a][g]
      BY <1>1, <1>2, <1>20, <2>1 DEF DuesAgree
    <3>. QED
      BY <1>1, <1>4, <1>8, <2>1, <3>1, <3>2 DEF Hook!Live
  <2>2. CASE x # a
    <3>1. x \in Hook!Live \ unsound /\ x \in Addresses /\ Hook!Table(x)' = Hook!Table(x)
      BY <1>2, <1>13, <1>20, <2>2
    <3>. QED
      BY <1>1, <1>8, <2>2, <3>1 DEF DuesAgree
  <2>. QED
    BY <2>1, <2>2
<1>. QED
  BY <1>9, <1>12, <1>17, <1>19, <1>20 DEF HookInv, DuesAgree

LEMMA OverrideStep ==
    ASSUME HookInv, Hook!DVtableHookAssumption, NEW a \in Addresses, NEW f \in Functions,
           NEW r \in Replacements, Hook!OverrideVfptrFun(a, f, r)
    PROVE  HookInv'
<1>1. CASE Hook!Known(a)
  <2>1. /\ a \in Hook!Live /\ a \in original /\ object[a].vptr = ghost[a]
        /\ WriteFn(ghost[a], f, r) /\ WriteDue(a, f, r)
        /\ UNCHANGED <<object, classTable, original, ghost, destruct, unsound>> /\ UNCHANGED calls
    BY <1>1 DEF Hook!OverrideVfptrFun, Hook!Known, Hook!Live, WriteFn, WithFn, WriteDue
  <2>2. r \in Impls /\ CallsOwned
    BY DEF Impls, HookInv
  <2>3. /\ HookTypes' /\ MapsExact' /\ TablesOwned' /\ DuesAgree'
        /\ \A call : CallOwned(call) => CallOwned(call)'
    BY <2>1, <2>2, OwnWritten
  <2>. QED
    BY <2>1, <2>2, <2>3, CallsKept DEF HookInv
<1>. QED
  BY <1>1, NewVtableStep

LEMMA OverrideClassStep ==
    ASSUME HookInv, Hook!DVtableHookAssumption, NEW c \in Classes, NEW f \in Functions,
           NEW r \in Replacements, Hook!OverrideClass(c, f, r)
    PROVE  HookInv'
<1>1. /\ HookTypes /\ MapsExact /\ TablesOwned /\ CallsOwned /\ DuesAgree
      /\ UNCHANGED <<object, tables, original, ghost, destruct, calls, unsound>>
      /\ r \in Impls /\ f \in Fns /\ f # Hook!Dtor
  BY DEF HookInv, Hook!OverrideClass, Impls, Fns, Hook!DVtableHookAssumption
<1>2. /\ classTable' \in [Classes -> [Fns -> Impls]]
      /\ \A d \in Classes, g \in Fns :
            classTable'[d][g] = IF d = c /\ g = f THEN r ELSE classTable[d][g]
  <2>1. classTable' = [classTable EXCEPT ![c] = [classTable[c] EXCEPT ![f] = r]]
    BY DEF Hook!OverrideClass
  <2>2. [classTable[c] EXCEPT ![f] = r] \in [Fns -> Impls]
    BY <1>1 DEF HookTypes
  <2>. QED
    BY <1>1, <2>1, <2>2 DEF HookTypes
<1>3. \A x \in Addresses :
         due'[x] = IF object[x] # None /\ object[x].class = c /\ ~Hook!Hooked(x)
                   THEN [due[x] EXCEPT ![f] = r] ELSE due[x]
  BY DEF Hook!OverrideClass
<1>4. due' \in [Addresses -> [Fns -> Impls]]
  <2>1. \A x \in Addresses : due'[x] \in [Fns -> Impls]
    BY <1>1, <1>3 DEF HookTypes
  <2>2. due' = [x \in Addresses |-> due'[x]]
    BY DEF Hook!OverrideClass
  <2>. QED
    BY <2>1, <2>2
<1>5. \A d \in Classes : classTable'[d][Hook!Dtor] = <<d, Hook!Dtor>>
  BY <1>1, <1>2 DEF HookTypes, Fns
<1>6. HookTypes'
  BY <1>1, <1>2, <1>4, <1>5 DEF HookTypes
<1>7. MapsExact'
  BY <1>1 DEF MapsExact
<1>8. \A x : Hook!Hooked(x)' <=> Hook!Hooked(x)
  BY <1>1 DEF Hook!Hooked
<1>9. TablesOwned' /\ CallsOwned'
  BY <1>1, <1>8 DEF TablesOwned, CallsOwned, CallOwned, Hook!Live
<1>10. ASSUME NEW x \in (Hook!Live \ unsound)', NEW g \in Functions
       PROVE  Hook!Table(x)'[g] = due'[x][g]
  <2>1. x \in Hook!Live \ unsound /\ x \in Addresses /\ object[x] # None /\ g \in Fns
    BY <1>1, <1>10 DEF Hook!Live, Fns
  <2>2. Hook!Table(x)[g] = due[x][g] /\ object[x].class \in Classes /\ due[x] \in [Fns -> Impls]
    BY <1>1, <2>1, OriginalTypes DEF DuesAgree, HookTypes
  <2>3. CASE Hook!Hooked(x)
    BY <1>1, <1>3, <1>8, <2>1, <2>2, <2>3 DEF Hook!Table
  <2>4. CASE ~Hook!Hooked(x)
    <3>1. Hook!Table(x)' = classTable'[object[x].class] /\ Hook!Table(x) = classTable[object[x].class]
      BY <1>1, <1>8, <2>4 DEF Hook!Table
    <3>2. CASE object[x].class = c
      <4>1. due'[x] = [due[x] EXCEPT ![f] = r]
        BY <1>3, <2>1, <2>4, <3>2
      <4>. QED
        BY <1>2, <2>1, <2>2, <3>1, <3>2, <4>1
    <3>3. CASE object[x].class # c
      BY <1>2, <1>3, <2>1, <2>2, <3>1, <3>3
    <3>. QED
      BY <3>2, <3>3
  <2>. QED
    BY <2>3, <2>4
<1>. QED
  BY <1>6, <1>7, <1>9, <1>10 DEF HookInv, DuesAgree

LEMMA HookStarts ==
    ASSUME Hook!Init
    PROVE  HookInv
<1>. Hook!DVtableHookAssumption
  BY LibraryAssumption
<1>1. /\ object = [a \in Addresses |-> None] /\ classTable = [c \in Classes |-> Hook!Own(c)]
      /\ tables = <<>> /\ original = {} /\ ghost = <<>> /\ destruct = <<>> /\ calls = <<>>
      /\ due = [a \in Addresses |-> [f \in Fns |-> None]]
  BY DEF Hook!Init, Fns
<1>2. \A c \in Classes : /\ Hook!Own(c) \in [Fns -> Impls]
                          /\ Hook!Own(c)[Hook!Dtor] = <<c, Hook!Dtor>>
  BY DEF Hook!Own, Fns, Impls
<1>3. [f \in Fns |-> None] \in [Fns -> Impls]
  BY DEF Impls
<1>4. Hook!Live = {} /\ DOMAIN tables = {} /\ DOMAIN calls = {}
  BY <1>1 DEF Hook!Live
<1>5. HookTypes
  BY <1>1, <1>2, <1>3, EmptySeq DEF HookTypes
<1>6. MapsExact
  BY <1>1, <1>4 DEF MapsExact
<1>7. TablesOwned /\ CallsOwned /\ DuesAgree
  BY <1>1, <1>4, EmptySeq DEF TablesOwned, CallsOwned, DuesAgree
<1>. QED
  BY <1>5, <1>6, <1>7 DEF HookInv

LEMMA HookStep ==
    ASSUME HookInv, [Hook!Next]_(Hook!hookVars)
    PROVE  HookInv'
<1>. Hook!DVtableHookAssumption
  BY LibraryAssumption
<1>1. CASE Hook!Next
  BY <1>1, ConstructStep, OverrideStep, OverrideClassStep, ResetVfptrFunStep,
     CallOriginalFunStep, ResetVtableStep, EndStep, OriginalReturnsStep DEF Hook!Next
<1>2. CASE UNCHANGED Hook!hookVars
  BY <1>2, StutterKeeps
<1>. QED
  BY <1>1, <1>2

(* A virtual call reaches what was last put in place for this object, in a *)
(* table that is not freed, whatever earlier objects at its address left   *)
(* in the maps, and its destructor finds the one it replaced.              *)
THEOREM CallsReach == Hook!Spec => []CallsReachTheirs
<1>. Hook!DVtableHookAssumption
  BY LibraryAssumption
<1>1. Hook!Init => HookInv
  BY HookStarts
<1>2. ASSUME HookInv, [Hook!Next]_(Hook!hookVars) PROVE HookInv'
  BY <1>2, HookStep
<1>3. HookInv => Hook!CallsReachTheirs
  <2>. SUFFICES ASSUME HookInv, NEW a \in Hook!Live \ unsound
                PROVE  /\ \A f \in Functions : Hook!Table(a)[f] = due[a][f]
                       /\ Hook!Hooked(a) => ~tables[object[a].vptr].freed
                       /\ Hook!Table(a)[Hook!Dtor] = Hook!AutoClean =>
                             /\ a \in DOMAIN destruct
                             /\ destruct[a] = classTable[object[a].class][Hook!Dtor]
    BY DEF Hook!CallsReachTheirs
  <2>1. /\ HookTypes /\ MapsExact /\ TablesOwned /\ DuesAgree
        /\ object[a].class \in Classes
    BY OriginalTypes DEF HookInv
  <2>2. classTable[object[a].class][Hook!Dtor] = <<object[a].class, Hook!Dtor>>
    BY <2>1 DEF HookTypes
  <2>3. Hook!Hooked(a) => /\ a \in original /\ ghost[a] = object[a].vptr
                         /\ destruct[a] = <<object[a].class, Hook!Dtor>>
    BY <2>1 DEF TablesOwned
  <2>4. ~Hook!Hooked(a) => Hook!Table(a)[Hook!Dtor] # Hook!AutoClean
    BY <2>1, <2>2 DEF Hook!Table, Hook!AutoClean, Hook!DVtableHookAssumption
  <2>. QED
    BY <2>1, <2>2, <2>3, <2>4 DEF MapsExact, DuesAgree
<1>4. HookInv => CallsReachTheirs
  BY <1>3 DEF CallsReachTheirs, Of
<1>. QED
  BY <1>1, <1>2, <1>4, PTL DEF Hook!Spec

-----------------------------------------------------------------------------
(***************************************************************************)
(* DTrashManager.  A name that no two have chosen belongs to one mover or  *)
(* to one trashed file, never to both: nobody writes the information or    *)
(* the files of that name for another.  From writing the information on,   *)
(* it is the mover's own.                                                  *)
(***************************************************************************)
MoverRecs == [at : {"idle", "info", "write", "move", "within"},
              source : Sources \cup {None}, name : Trash!Names \cup {None}]

TrashTypes ==
    /\ mover \in [Movers -> MoverRecs]
    /\ \A m \in Movers : mover[m].at # "idle" => mover[m].source \in Sources /\ mover[m].name \in Trash!Names
    /\ trashed \in [Sources -> Trash!Names \cup {None}]

HasChosen(m, n) == mover[m].at # "idle" /\ mover[m].name = n
Alone(n)        == n # None /\ n \notin raced

OneHasChosen ==
    \A m, o \in Movers : \A n : Alone(n) /\ HasChosen(m, n) /\ HasChosen(o, n) => m = o

InfoIsOwn ==
    \A m \in Movers : \A n : Alone(n) /\ HasChosen(m, n) =>
       /\ \A s \in Sources : trashed[s] # n
       /\ mover[m].at = "move" => n \in DOMAIN info /\ info[n] = mover[m].source

TrashInv == TrashTypes /\ OneHasChosen /\ InfoIsOwn /\ Trash!TrashedIsDescribed

(* A mover that goes on or returns has chosen nothing new.                 *)
LEMMA MoverGoesOn ==
    ASSUME TrashTypes, NEW m \in Movers, mover[m].at # "idle",
           NEW at \in {"info", "write", "move", "within"},
           Trash!At(m, at) \/ Trash!Return(m)
    PROVE  /\ mover' \in [Movers -> MoverRecs]
           /\ \A o \in Movers : mover'[o].at # "idle" =>
                 mover'[o].source = mover[o].source /\ mover'[o].name = mover[o].name /\ mover[o].at # "idle"
           /\ \A o \in Movers \ {m} : mover'[o] = mover[o]
           /\ mover'[m].at = "move" => Trash!At(m, at) /\ at = "move"
<1>1. mover \in [Movers -> MoverRecs] /\ mover[m] \in MoverRecs
  BY DEF TrashTypes
<1>2. CASE Trash!At(m, at)
  <2>1. PICK e : e = [mover[m] EXCEPT !.at = at]
    OBVIOUS
  <2>2. e \in MoverRecs /\ e.at = at /\ e.source = mover[m].source /\ e.name = mover[m].name
    BY <1>1, <2>1 DEF MoverRecs
  <2>3. mover' = [mover EXCEPT ![m] = e]
    BY <1>2, <2>1 DEF Trash!At
  <2>. QED
    BY <1>1, <1>2, <2>2, <2>3
<1>3. CASE Trash!Return(m)
  <2>1. PICK e : e = Trash!Idle
    OBVIOUS
  <2>2. e \in MoverRecs /\ e.at = "idle"
    BY <2>1 DEF MoverRecs, Trash!Idle
  <2>3. mover' = [mover EXCEPT ![m] = e]
    BY <1>3, <2>1 DEF Trash!Return
  <2>. QED
    BY <1>1, <2>2, <2>3
<1>. QED
  BY <1>2, <1>3

(* A step that changes neither history keeps the invariant, if the         *)
(* information and files of other names than the mover's own stay, and it  *)
(* goes to move its file with the information about it.                    *)
LEMMA MoverKeeps ==
    ASSUME TrashInv, NEW m \in Movers, mover[m].at # "idle",
           NEW at \in {"info", "write", "move", "within"},
           Trash!At(m, at) \/ Trash!Return(m),
           UNCHANGED <<trashed, raced>>,
           \A n : n # mover[m].name =>
              /\ n \in DOMAIN files => n \in DOMAIN files' /\ files'[n] = files[n]
              /\ n \in DOMAIN info => n \in DOMAIN info' /\ info'[n] = info[n],
           Trash!At(m, at) /\ at = "move" =>
              mover[m].name \in DOMAIN info' /\ info'[mover[m].name] = mover[m].source
    PROVE  TrashInv'
<1>1. TrashTypes /\ OneHasChosen /\ InfoIsOwn /\ Trash!TrashedIsDescribed
  BY DEF TrashInv
<1>2. /\ mover' \in [Movers -> MoverRecs]
      /\ \A o \in Movers : mover'[o].at # "idle" =>
            mover'[o].source = mover[o].source /\ mover'[o].name = mover[o].name /\ mover[o].at # "idle"
      /\ \A o \in Movers \ {m} : mover'[o] = mover[o]
      /\ mover'[m].at = "move" => Trash!At(m, at) /\ at = "move"
  BY <1>1, MoverGoesOn
<1>3. TrashTypes'
  BY <1>1, <1>2 DEF TrashTypes
<1>4. /\ \A o \in Movers : \A n : HasChosen(o, n)' => HasChosen(o, n)
      /\ \A n : Alone(n)' <=> Alone(n)
      /\ HasChosen(m, mover[m].name)
  BY <1>2 DEF HasChosen, Alone
<1>5. OneHasChosen'
  BY <1>1, <1>4 DEF OneHasChosen
<1>6. ASSUME NEW o \in Movers, NEW n, Alone(n)', HasChosen(o, n)'
      PROVE  /\ \A s \in Sources : trashed'[s] # n
             /\ mover'[o].at = "move" => n \in DOMAIN info' /\ info'[n] = mover'[o].source
  <2>1. Alone(n) /\ HasChosen(o, n)
    BY <1>4, <1>6
  <2>2. \A s \in Sources : trashed'[s] # n
    BY <1>1, <2>1 DEF InfoIsOwn
  <2>3. CASE o = m
    <3>1. n = mover[m].name /\ (mover'[o].at = "move" => mover'[o].source = mover[m].source)
      BY <1>2, <2>1, <2>3 DEF HasChosen
    <3>. QED
      BY <1>2, <2>2, <2>3, <3>1
  <2>4. CASE o # m
    <3>1. n # mover[m].name
      BY <1>1, <1>4, <2>1, <2>4 DEF OneHasChosen
    <3>2. mover'[o] = mover[o] /\ (mover[o].at = "move" => n \in DOMAIN info /\ info[n] = mover[o].source)
      BY <1>1, <1>2, <2>1, <2>4 DEF InfoIsOwn
    <3>. QED
      BY <2>2, <3>1, <3>2
  <2>. QED
    BY <2>3, <2>4
<1>7. InfoIsOwn'
  BY <1>6 DEF InfoIsOwn
<1>8. ASSUME NEW s \in Sources, trashed'[s] # None, trashed'[s] \notin raced'
      PROVE  /\ trashed'[s] \in DOMAIN files' /\ files'[trashed'[s]] = Trash!Of(s, {Trash!Self})
             /\ trashed'[s] \in DOMAIN info' /\ info'[trashed'[s]] = s
  <2>1. /\ trashed[s] \in DOMAIN files /\ files[trashed[s]] = Trash!Of(s, {Trash!Self})
        /\ trashed[s] \in DOMAIN info /\ info[trashed[s]] = s
    BY <1>1, <1>8 DEF Trash!TrashedIsDescribed
  <2>2. trashed[s] # mover[m].name
    BY <1>1, <1>4, <1>8 DEF InfoIsOwn, Alone
  <2>. QED
    BY <2>1, <2>2
<1>9. Trash!TrashedIsDescribed'
  BY <1>8 DEF Trash!TrashedIsDescribed, Trash!Of, Trash!Self
<1>. QED
  BY <1>3, <1>5, <1>7, <1>9 DEF TrashInv

LEMMA FreeNameChosen ==
    ASSUME NEW s \in Sources, \E k \in 0 .. MaxHash : <<FileName[s], k>> \notin DOMAIN files
    PROVE  /\ Trash!GetNotExistsFileName(s) \in Trash!Names
           /\ Trash!GetNotExistsFileName(s) \notin DOMAIN files
<1>. DEFINE free == {k \in 0 .. MaxHash : <<FileName[s], k>> \notin DOMAIN files}
<1>1. free \in SUBSET Nat /\ free # {}
  OBVIOUS
<1>2. \E k \in free : \A l \in free : k <= l
  <2>. HIDE DEF free
  <2>. QED
    BY <1>1, Smallest
<1>3. PICK n : n = CHOOSE k \in free : \A l \in free : k <= l
  OBVIOUS
<1>4. n \in free
  <2>. HIDE DEF free
  <2>. QED
    BY <1>2, <1>3
<1>5. Trash!GetNotExistsFileName(s) = <<FileName[s], n>>
  BY <1>3 DEF Trash!GetNotExistsFileName
<1>. QED
  BY <1>4, <1>5 DEF Trash!Names

LEMMA MoveToTrashStep ==
    ASSUME TrashInv, NEW m \in Movers, NEW s \in Sources, Trash!MoveToTrash(m, s)
    PROVE  TrashInv'
<1>1. TrashTypes /\ OneHasChosen /\ InfoIsOwn /\ Trash!TrashedIsDescribed
  BY DEF TrashInv
<1>2. PICK n : n = Trash!GetNotExistsFileName(s)
  OBVIOUS
<1>3. n \in Trash!Names /\ n \notin DOMAIN files
  BY <1>2, FreeNameChosen DEF Trash!MoveToTrash
<1>4. PICK e : e = [at |-> "info", source |-> s, name |-> n]
  OBVIOUS
<1>5. e \in MoverRecs /\ e.at = "info" /\ e.source = s /\ e.name = n
  BY <1>3, <1>4 DEF MoverRecs
<1>6. /\ mover' = [mover EXCEPT ![m] = e]
      /\ raced' = IF \E o \in Movers : mover[o].name = n THEN raced \cup {n} ELSE raced
      /\ UNCHANGED <<outside, files, info, cleaner, trashed>>
  BY <1>2, <1>4 DEF Trash!MoveToTrash
<1>7. /\ mover' \in [Movers -> MoverRecs] /\ mover'[m] = e
      /\ \A o \in Movers \ {m} : mover'[o] = mover[o]
  BY <1>1, <1>5, <1>6 DEF TrashTypes
<1>8. \A k : Alone(k)' => Alone(k) /\ (k = n => \A o \in Movers : mover[o].name # n)
  BY <1>6 DEF Alone
<1>9. TrashTypes'
  BY <1>1, <1>3, <1>5, <1>6, <1>7 DEF TrashTypes
<1>10. \A o \in Movers : \A k : Alone(k)' /\ HasChosen(o, k)' =>
          \/ o = m /\ k = n
          \/ o # m /\ k # n /\ HasChosen(o, k)
  BY <1>5, <1>7, <1>8 DEF HasChosen
<1>11. OneHasChosen'
  BY <1>1, <1>8, <1>10 DEF OneHasChosen
<1>12. ASSUME NEW o \in Movers, NEW k, Alone(k)', HasChosen(o, k)'
       PROVE  /\ \A t \in Sources : trashed'[t] # k
              /\ mover'[o].at = "move" => k \in DOMAIN info' /\ info'[k] = mover'[o].source
  <2>1. Alone(k)
    BY <1>8, <1>12
  <2>2. CASE o = m /\ k = n
    <3>1. \A t \in Sources : trashed[t] # n
      BY <1>1, <1>3, <2>1, <2>2 DEF Trash!TrashedIsDescribed, Alone
    <3>. QED
      BY <1>5, <1>6, <1>7, <2>2, <3>1
  <2>3. CASE o # m /\ HasChosen(o, k)
    BY <1>1, <1>6, <1>7, <2>1, <2>3 DEF InfoIsOwn
  <2>. QED
    BY <1>10, <1>12, <2>2, <2>3
<1>13. Trash!TrashedIsDescribed'
  BY <1>1, <1>6 DEF Trash!TrashedIsDescribed, Trash!Of, Trash!Self
<1>. QED
  BY <1>9, <1>11, <1>12, <1>13 DEF TrashInv, InfoIsOwn

LEMMA CheckInfoStep ==
    ASSUME TrashInv, NEW m \in Movers, Trash!CheckInfo(m)
    PROVE  TrashInv'
<1>1. /\ mover[m].at # "idle"
      /\ Trash!At(m, "write") \/ Trash!Return(m)
      /\ UNCHANGED <<trashed, raced>> /\ UNCHANGED <<files, info>>
  BY DEF Trash!CheckInfo
<1>. QED
  BY <1>1, MoverKeeps

LEMMA WriteInfoStep ==
    ASSUME TrashInv, NEW m \in Movers, Trash!WriteInfo(m)
    PROVE  TrashInv'
<1>1. mover[m].at # "idle" /\ UNCHANGED <<trashed, raced>> /\ UNCHANGED files
  BY DEF Trash!WriteInfo
<1>2. CASE info' = Trash!Extend(info, mover[m].name, mover[m].source) /\ Trash!At(m, "move")
  <2>1. /\ mover[m].name \in DOMAIN info' /\ info'[mover[m].name] = mover[m].source
        /\ \A n : n # mover[m].name /\ n \in DOMAIN info => n \in DOMAIN info' /\ info'[n] = info[n]
    BY <1>2 DEF Trash!Extend
  <2>. QED
    BY <1>1, <1>2, <2>1, MoverKeeps
<1>3. CASE info' = Trash!Extend(info, mover[m].name, None) /\ Trash!Return(m)
  <2>1. \A n : n # mover[m].name /\ n \in DOMAIN info => n \in DOMAIN info' /\ info'[n] = info[n]
    BY <1>3 DEF Trash!Extend
  <2>. QED
    BY <1>1, <1>3, <2>1, MoverKeeps
<1>4. CASE UNCHANGED info /\ Trash!Return(m)
  BY <1>1, <1>4, MoverKeeps
<1>. QED
  BY <1>2, <1>3, <1>4 DEF Trash!WriteInfo

LEMMA RenameWithinStep ==
    ASSUME TrashInv, NEW m \in Movers, NEW f, Trash!RenameWithin(m, f)
    PROVE  TrashInv'
<1>1. /\ mover[m].at # "idle" /\ UNCHANGED <<trashed, raced>> /\ UNCHANGED info
      /\ Trash!At(m, "within") \/ Trash!Return(m)
  BY DEF Trash!RenameWithin
<1>2. PICK x : files' = Trash!Extend(files, mover[m].name, x)
  BY DEF Trash!RenameWithin
<1>3. \A n : n # mover[m].name /\ n \in DOMAIN files => n \in DOMAIN files' /\ files'[n] = files[n]
  BY <1>2 DEF Trash!Extend
<1>. QED
  BY <1>1, <1>3, MoverKeeps

LEMMA RenameEmptiedStep ==
    ASSUME TrashInv, NEW m \in Movers, Trash!RenameEmptied(m)
    PROVE  TrashInv'
<1>1. /\ mover[m].at # "idle" /\ UNCHANGED <<trashed, raced>> /\ UNCHANGED <<files, info>>
      /\ Trash!Return(m)
  BY DEF Trash!RenameEmptied
<1>. QED
  BY <1>1, MoverKeeps

LEMMA RenameWholeStep ==
    ASSUME TrashInv, NEW m \in Movers, Trash!RenameWhole(m)
    PROVE  TrashInv'
<1>. DEFINE s == mover[m].source
            n == mover[m].name
<1>1. TrashTypes /\ OneHasChosen /\ InfoIsOwn /\ Trash!TrashedIsDescribed
  BY DEF TrashInv
<1>2. mover[m].at = "move" /\ Trash!Return(m) /\ UNCHANGED <<info, raced>>
  BY DEF Trash!RenameWhole
<1>3. CASE UNCHANGED <<files, outside, trashed>>
  BY <1>2, <1>3, MoverKeeps
<1>4. CASE /\ n \notin DOMAIN files
           /\ files' = Trash!Extend(files, n, Trash!Of(s, {Trash!Self}))
           /\ trashed' = [trashed EXCEPT ![s] = n]
  <2>1. s \in Sources /\ n \in Trash!Names /\ HasChosen(m, n)
    BY <1>1, <1>2 DEF TrashTypes, HasChosen
  <2>2. /\ mover' \in [Movers -> MoverRecs]
        /\ \A o \in Movers : mover'[o].at # "idle" =>
              mover'[o].source = mover[o].source /\ mover'[o].name = mover[o].name /\ mover[o].at # "idle"
        /\ \A o \in Movers \ {m} : mover'[o] = mover[o]
    BY <1>1, <1>2, MoverGoesOn
  <2>3. mover'[m].at = "idle"
    BY <1>1, <1>2 DEF Trash!Return, Trash!Idle, TrashTypes
  <2>4. /\ trashed' \in [Sources -> Trash!Names \cup {None}] /\ trashed'[s] = n
        /\ \A t \in Sources \ {s} : trashed'[t] = trashed[t]
    BY <1>1, <1>4, <2>1 DEF TrashTypes
  <2>5. /\ n \in DOMAIN files' /\ files'[n] = Trash!Of(s, {Trash!Self})
        /\ \A k \in DOMAIN files : k \in DOMAIN files' /\ files'[k] = files[k]
    BY <1>4 DEF Trash!Extend
  <2>6. TrashTypes'
    BY <1>1, <2>2, <2>4 DEF TrashTypes
  <2>7. \A k : Alone(k)' <=> Alone(k)
    BY <1>2 DEF Alone
  <2>8. \A o \in Movers : \A k : HasChosen(o, k)' => HasChosen(o, k) /\ o # m
    BY <2>2, <2>3 DEF HasChosen
  <2>9. OneHasChosen'
    BY <1>1, <2>7, <2>8 DEF OneHasChosen
  <2>10. ASSUME NEW o \in Movers, NEW k, Alone(k)', HasChosen(o, k)'
         PROVE  /\ \A t \in Sources : trashed'[t] # k
                /\ mover'[o].at = "move" => k \in DOMAIN info' /\ info'[k] = mover'[o].source
    <3>1. Alone(k) /\ HasChosen(o, k) /\ o # m
      BY <2>7, <2>8, <2>10
    <3>2. k # n
      BY <1>1, <2>1, <3>1 DEF OneHasChosen
    <3>3. \A t \in Sources : trashed'[t] # k
      BY <1>1, <2>4, <3>1, <3>2 DEF InfoIsOwn
    <3>4. mover'[o] = mover[o] /\ (mover[o].at = "move" => k \in DOMAIN info /\ info[k] = mover[o].source)
      BY <1>1, <2>2, <3>1 DEF InfoIsOwn
    <3>. QED
      BY <1>2, <3>3, <3>4
  <2>11. InfoIsOwn'
    BY <2>10 DEF InfoIsOwn
  <2>12. ASSUME NEW t \in Sources, trashed'[t] # None, trashed'[t] \notin raced'
         PROVE  /\ trashed'[t] \in DOMAIN files' /\ files'[trashed'[t]] = Trash!Of(t, {Trash!Self})
                /\ trashed'[t] \in DOMAIN info' /\ info'[trashed'[t]] = t
    <3>1. CASE t = s
      <4>1. Alone(n)
        BY <1>2, <2>4, <2>12, <3>1 DEF Alone
      <4>2. n \in DOMAIN info /\ info[n] = s
        BY <1>1, <1>2, <2>1, <4>1 DEF InfoIsOwn
      <4>. QED
        BY <1>2, <2>4, <2>5, <3>1, <4>2
    <3>2. CASE t # s
      <4>1. trashed'[t] = trashed[t]
        BY <2>4, <3>2
      <4>2. /\ trashed[t] \in DOMAIN files /\ files[trashed[t]] = Trash!Of(t, {Trash!Self})
            /\ trashed[t] \in DOMAIN info /\ info[trashed[t]] = t
        BY <1>1, <1>2, <2>12, <4>1 DEF Trash!TrashedIsDescribed
      <4>. QED
        BY <1>2, <2>5, <4>1, <4>2
    <3>. QED
      BY <3>1, <3>2
  <2>13. Trash!TrashedIsDescribed'
    BY <2>12 DEF Trash!TrashedIsDescribed, Trash!Of, Trash!Self
  <2>. QED
    BY <2>6, <2>9, <2>11, <2>13 DEF TrashInv
<1>. QED
  BY <1>3, <1>4 DEF Trash!RenameWhole

(* Cleaning takes the promise back of everything, and of what is being     *)
(* moved.                                                                  *)
LEMMA CleanStep ==
    ASSUME TrashInv, Trash!CleanInfo \/ Trash!CleanFiles
    PROVE  TrashInv'
<1>1. /\ TrashTypes /\ mover' = mover /\ raced' = Trash!Busy
      /\ trashed' = [s \in Sources |-> None]
  BY DEF TrashInv, Trash!CleanInfo, Trash!CleanFiles
<1>2. TrashTypes'
  BY <1>1 DEF TrashTypes
<1>3. \A m \in Movers : \A n : HasChosen(m, n)' => ~Alone(n)'
  BY <1>1 DEF HasChosen, Alone, Trash!Busy
<1>4. OneHasChosen' /\ InfoIsOwn'
  BY <1>3 DEF OneHasChosen, InfoIsOwn
<1>5. Trash!TrashedIsDescribed'
  BY <1>1 DEF Trash!TrashedIsDescribed
<1>. QED
  BY <1>2, <1>4, <1>5 DEF TrashInv

LEMMA OthersKeep ==
    ASSUME TrashInv, UNCHANGED <<files, info, mover, trashed, raced>>
    PROVE  TrashInv'
BY DEF TrashInv, TrashTypes, OneHasChosen, InfoIsOwn, HasChosen, Alone,
   Trash!TrashedIsDescribed, Trash!Of, Trash!Self

LEMMA TrashStarts ==
    ASSUME Trash!Init
    PROVE  TrashInv
<1>1. mover = [m \in Movers |-> Trash!Idle] /\ trashed = [s \in Sources |-> None]
  BY DEF Trash!Init
<1>2. Trash!Idle \in MoverRecs /\ Trash!Idle.at = "idle"
  BY DEF Trash!Idle, MoverRecs
<1>3. \A m \in Movers : mover[m] = Trash!Idle
  BY <1>1
<1>4. TrashTypes
  BY <1>1, <1>2, <1>3 DEF TrashTypes
<1>5. \A m \in Movers : \A n : ~HasChosen(m, n)
  BY <1>2, <1>3 DEF HasChosen
<1>. QED
  BY <1>1, <1>4, <1>5 DEF TrashInv, OneHasChosen, InfoIsOwn, Trash!TrashedIsDescribed

LEMMA TrashStep ==
    ASSUME TrashInv, [Trash!Next]_(Trash!trashVars)
    PROVE  TrashInv'
<1>1. CASE Trash!Next
  <2>1. ASSUME NEW s \in Sources, Trash!Remake(s) PROVE TrashInv'
    BY <2>1, OthersKeep DEF Trash!Remake
  <2>. QED
    BY <1>1, <2>1, MoveToTrashStep, CheckInfoStep, WriteInfoStep, RenameWholeStep,
       RenameWithinStep, RenameEmptiedStep, CleanStep DEF Trash!Next
<1>2. CASE UNCHANGED Trash!trashVars
  BY <1>2, OthersKeep DEF Trash!trashVars
<1>. QED
  BY <1>1, <1>2

(* What moveToTrash said it has moved is in the trash, alone under its     *)
(* name, and the information of that name is about it.                     *)
THEOREM MovedIsDescribed == Trash!Spec => []TrashedIsDescribed
<1>1. Trash!Init => TrashInv
  BY TrashStarts
<1>2. ASSUME TrashInv, [Trash!Next]_(Trash!trashVars) PROVE TrashInv'
  BY <1>2, TrashStep
<1>3. TrashInv => TrashedIsDescribed
  BY DEF TrashInv, TrashedIsDescribed, Of
<1>. QED
  BY <1>1, <1>2, <1>3, PTL DEF Trash!Spec

-----------------------------------------------------------------------------
(***************************************************************************)
(* DDciFileEngine.  The real file differs from what the engines of the     *)
(* only thread show at most while one of them has a file open for writing  *)
(* that is still there, or after a call that failed: every other change is *)
(* followed by a save of the whole, and a file that is gone was removed by *)
(* such a change.                                                          *)
(***************************************************************************)
Modes == {"closed", "stuck", "stuckread", "read", "write"}
EngineRecs == [thread : Threads \cup {None}, sub : Subs \cup {None}, mode : Modes, text : Texts]

EngineTypes ==
    /\ dciDisk \in Engine!DciFiles /\ dci \in [Threads -> Engine!DciFiles \cup {None}]
    /\ engine \in [Engines -> EngineRecs]
    /\ engineSpoiled \in BOOLEAN /\ engineUnsaved \in BOOLEAN
    /\ \A e \in Engines :
          /\ Engine!Running(e) => engine[e].sub \in Subs /\ Engine!File(e) # None
          /\ engine[e].mode # "closed" => Engine!Running(e)

(* A file open for writing, which its flush or its end will save with all  *)
(* the others.                                                             *)
WillSave(t, e) ==
    engine[e].thread = t /\ engine[e].mode = "write" /\ Engine!Exists(dci[t], engine[e].sub)

OneThread  == \A t, u \in Threads : dci[t] # None /\ dci[u] # None => t = u
FileOnDisk == \A t \in Threads : dci[t] # None => dciDisk = dci[t] \/ \E e \in Engines : WillSave(t, e)

EngineInv == EngineTypes /\ (~engineSpoiled => OneThread /\ (engineUnsaved \/ FileOnDisk))

LEMMA FilesFunction ==
    ASSUME NEW f \in Engine!DciFiles
    PROVE  /\ DOMAIN f.files \subseteq Subs /\ f.files \in [DOMAIN f.files -> Texts]
           /\ \A S, g : S \subseteq Subs /\ g \in [S -> Texts] => [f EXCEPT !.files = g] \in Engine!DciFiles
BY DEF Engine!DciFiles

LEMMA WithIsFile ==
    ASSUME NEW f \in Engine!DciFiles, NEW s \in Subs, NEW text \in Texts
    PROVE  /\ Engine!With(f, s, text) \in Engine!DciFiles
           /\ Engine!Exists(Engine!With(f, s, text), s)
           /\ Engine!With(f, s, text).files[s] \in Texts
<1>1. PICK g : g = [x \in DOMAIN f.files \cup {s} |-> IF x = s THEN text ELSE f.files[x]]
  OBVIOUS
<1>2. g \in [DOMAIN f.files \cup {s} -> Texts] /\ DOMAIN f.files \cup {s} \subseteq Subs
  BY <1>1, FilesFunction
<1>3. Engine!With(f, s, text) = [f EXCEPT !.files = g]
  BY <1>1 DEF Engine!With
<1>4. Engine!With(f, s, text).files = g
  BY <1>3 DEF Engine!DciFiles
<1>. QED
  BY <1>2, <1>3, <1>4, FilesFunction DEF Engine!Exists

LEMMA ChangedIsFile ==
    ASSUME Engine!DDciFileEngineAssumption,
           NEW f \in Engine!DciFiles, NEW s \in Subs, NEW g \in Engine!Changes(f, s)
    PROVE  g \in Engine!DciFiles
<1>1. \A S \in SUBSET Subs : [f EXCEPT !.files = Engine!Restrict(f.files, DOMAIN f.files \ S)] \in Engine!DciFiles
  <2>1. ASSUME NEW S \in SUBSET Subs
        PROVE  Engine!Restrict(f.files, DOMAIN f.files \ S) \in [DOMAIN f.files \ S -> Texts]
    BY FilesFunction DEF Engine!Restrict
  <2>. QED
    BY <2>1, FilesFunction
<1>2. Engine!Without(f, s) \in Engine!DciFiles
  BY <1>1 DEF Engine!Without
<1>3. Engine!Exists(f, s) => f.files[s] \in Texts
  BY FilesFunction DEF Engine!Exists
<1>4. ASSUME NEW d \in BOOLEAN, NEW h \in Engine!DciFiles
      PROVE  [h EXCEPT !.dir = d] \in Engine!DciFiles
  BY <1>4 DEF Engine!DciFiles
<1>5. [f EXCEPT !.dir = FALSE, !.files = Engine!Restrict(f.files, DOMAIN f.files \ InDirectory)] \in Engine!DciFiles
  <2>1. PICK h : h = [f EXCEPT !.dir = FALSE]
    OBVIOUS
  <2>2. h \in Engine!DciFiles /\ h.files = f.files
    BY <1>4, <2>1 DEF Engine!DciFiles
  <2>3. PICK r : r = Engine!Restrict(f.files, DOMAIN f.files \ InDirectory)
    OBVIOUS
  <2>4. r \in [DOMAIN f.files \ InDirectory -> Texts]
    BY <2>3, FilesFunction DEF Engine!Restrict
  <2>5. [h EXCEPT !.files = r] \in Engine!DciFiles
    BY <2>2, <2>4, FilesFunction
  <2>. QED
    BY <2>1, <2>3, <2>5
<1>6. \A to \in Subs : Engine!Exists(f, s) =>
         /\ Engine!With(Engine!Without(f, s), to, f.files[s]) \in Engine!DciFiles
         /\ Engine!With(f, to, f.files[s]) \in Engine!DciFiles
  BY <1>2, <1>3, WithIsFile
<1>7. \/ g = Engine!Without(f, s)
      \/ \E to \in Subs : Engine!Exists(f, s) /\ g = Engine!With(Engine!Without(f, s), to, f.files[s])
      \/ \E to \in Subs : Engine!Exists(f, s) /\ g = Engine!With(f, to, f.files[s])
      \/ g = [f EXCEPT !.dir = TRUE]
      \/ g = [f EXCEPT !.dir = FALSE, !.files = Engine!Restrict(f.files, DOMAIN f.files \ InDirectory)]
  BY DEF Engine!Changes
<1>. QED
  BY <1>2, <1>4, <1>5, <1>6, <1>7

LEMMA EmptyIsFile == Engine!Cut \in Engine!DciFiles /\ Engine!Empty \in Engine!DciFiles
<1>1. <<>> \in [{} -> Texts]
  OBVIOUS
<1>2. [{} -> Texts] \in {[S -> Texts] : S \in SUBSET Subs}
  OBVIOUS
<1>3. <<>> \in UNION {[S -> Texts] : S \in SUBSET Subs}
  BY <1>1, <1>2
<1>. QED
  BY <1>3 DEF Engine!Cut, Engine!Empty, Engine!DciFiles

(* What a running engine does: its record and the thread's DDciFile        *)
(* change, and the real file is the same, or one is open that will be      *)
(* saved.                                                                  *)
LEMMA EngineSteps ==
    ASSUME Engine!DDciFileEngineAssumption, EngineInv, NEW e \in Engines, Engine!Running(e),
           NEW r \in EngineRecs, r.thread = engine[e].thread, r.sub = engine[e].sub,
           engine' = [engine EXCEPT ![e] = r],
           NEW f \in Engine!DciFiles, dci' = [dci EXCEPT ![engine[e].thread] = f],
           dciDisk' \in Engine!DciFiles, engineSpoiled' = engineSpoiled, engineUnsaved' \in BOOLEAN,
           ~engineSpoiled /\ ~engineUnsaved' =>
              \/ dciDisk' = f
              \/ r.mode = "write" /\ Engine!Exists(f, r.sub)
              \/ \E o \in Engines \ {e} :
                    /\ engine[o].thread = engine[e].thread /\ engine[o].mode = "write"
                    /\ Engine!Exists(f, engine[o].sub)
    PROVE  EngineInv'
<1>. DEFINE t == engine[e].thread
<1>1. EngineTypes /\ None \notin Threads /\ None \notin Engine!DciFiles
  BY DEF EngineInv, Engine!DDciFileEngineAssumption
<1>2. t \in Threads /\ dci[t] # None /\ engine[e] \in EngineRecs
  BY <1>1 DEF EngineTypes, Engine!Running, Engine!File, EngineRecs
<1>3. /\ engine' \in [Engines -> EngineRecs] /\ engine'[e] = r
      /\ \A o \in Engines \ {e} : engine'[o] = engine[o]
      /\ \A o \in Engines : engine'[o].thread = engine[o].thread /\ engine'[o].sub = engine[o].sub
  BY <1>1 DEF EngineTypes
<1>4. /\ dci' \in [Threads -> Engine!DciFiles \cup {None}] /\ dci'[t] = f
      /\ \A u \in Threads \ {t} : dci'[u] = dci[u]
      /\ \A u \in Threads : dci'[u] # None <=> dci[u] # None
  BY <1>1, <1>2 DEF EngineTypes
<1>5. ASSUME NEW o \in Engines
      PROVE  /\ Engine!Running(o)' => engine'[o].sub \in Subs /\ Engine!File(o)' # None
             /\ engine'[o].mode # "closed" => Engine!Running(o)'
  <2>1. Engine!Running(o)' <=> Engine!Running(o)
    BY <1>3 DEF Engine!Running
  <2>2. Engine!Running(o) => engine[o].thread \in Threads
    BY <1>1 DEF EngineTypes, EngineRecs, Engine!Running
  <2>3. Engine!Running(o) => Engine!File(o)' # None
    BY <1>1, <1>3, <1>4, <2>2 DEF EngineTypes, Engine!File
  <2>4. engine'[o].mode # "closed" => Engine!Running(o)
    BY <1>1, <1>3 DEF EngineTypes
  <2>. QED
    BY <1>1, <1>3, <2>1, <2>3, <2>4 DEF EngineTypes
<1>6. EngineTypes'
  BY <1>1, <1>3, <1>4, <1>5 DEF EngineTypes
<1>7. ASSUME ~engineSpoiled' PROVE OneThread' /\ (engineUnsaved' \/ FileOnDisk')
  <2>1. OneThread
    BY <1>7 DEF EngineInv
  <2>2. OneThread'
    BY <1>4, <2>1 DEF OneThread
  <2>3. ~engineUnsaved' => dciDisk' = dci'[t] \/ \E o \in Engines : WillSave(t, o)'
    BY <1>3, <1>4, <1>7 DEF WillSave
  <2>4. \A u \in Threads : dci'[u] # None => u = t
    BY <1>2, <1>4, <2>1 DEF OneThread
  <2>. QED
    BY <2>2, <2>3, <2>4 DEF FileOnDisk
<1>. QED
  BY <1>6, <1>7 DEF EngineInv

(* What is known of a running engine.                                      *)
LEMMA RunningEngine ==
    ASSUME Engine!DDciFileEngineAssumption, EngineInv, NEW e \in Engines, Engine!Running(e)
    PROVE  /\ engine[e] \in EngineRecs /\ engine[e].thread \in Threads /\ engine[e].sub \in Subs
           /\ Engine!File(e) \in Engine!DciFiles /\ Engine!File(e) # None
           /\ dci = [dci EXCEPT ![engine[e].thread] = Engine!File(e)]
           /\ engine = [engine EXCEPT ![e] = engine[e]]
           /\ dciDisk \in Engine!DciFiles /\ engineUnsaved \in BOOLEAN
           /\ ~engineSpoiled /\ ~engineUnsaved =>
                 \/ dciDisk = Engine!File(e)
                 \/ engine[e].mode = "write" /\ Engine!Exists(Engine!File(e), engine[e].sub)
                 \/ \E o \in Engines \ {e} :
                       /\ engine[o].thread = engine[e].thread /\ engine[o].mode = "write"
                       /\ Engine!Exists(Engine!File(e), engine[o].sub)
<1>1. /\ EngineTypes /\ engine[e] \in EngineRecs /\ engine[e].thread \in Threads
      /\ engine[e].sub \in Subs /\ Engine!File(e) # None
  BY DEF EngineInv, EngineTypes, EngineRecs, Engine!Running
<1>2. Engine!File(e) = dci[engine[e].thread] /\ Engine!File(e) \in Engine!DciFiles
  BY <1>1 DEF Engine!File, EngineTypes
<1>3. ~engineSpoiled /\ ~engineUnsaved =>
         \/ dciDisk = Engine!File(e)
         \/ \E o \in Engines : WillSave(engine[e].thread, o)
  BY <1>1, <1>2 DEF EngineInv, FileOnDisk
<1>4. ~engineSpoiled /\ ~engineUnsaved =>
         \/ dciDisk = Engine!File(e)
         \/ engine[e].mode = "write" /\ Engine!Exists(Engine!File(e), engine[e].sub)
         \/ \E o \in Engines \ {e} :
               /\ engine[o].thread = engine[e].thread /\ engine[o].mode = "write"
               /\ Engine!Exists(Engine!File(e), engine[o].sub)
  BY <1>2, <1>3 DEF WillSave
<1>. QED
  BY <1>1, <1>2, <1>4 DEF EngineTypes

LEMMA BecomesChanged ==
    ASSUME EngineTypes, NEW e \in Engines, NEW mode \in Modes, NEW text \in Texts,
           Engine!Becomes(e, mode, text)
    PROVE  \E r \in EngineRecs :
              /\ r.thread = engine[e].thread /\ r.sub = engine[e].sub /\ r.mode = mode
              /\ engine' = [engine EXCEPT ![e] = r]
<1>1. engine[e] \in EngineRecs
  BY DEF EngineTypes
<1>2. PICK r : r = [engine[e] EXCEPT !.mode = mode, !.text = text]
  OBVIOUS
<1>3. r \in EngineRecs /\ r.thread = engine[e].thread /\ r.sub = engine[e].sub /\ r.mode = mode
  BY <1>1, <1>2 DEF EngineRecs
<1>. QED
  BY <1>2, <1>3 DEF Engine!Becomes

LEMMA OpenReadStep ==
    ASSUME Engine!DDciFileEngineAssumption, EngineInv, NEW e \in Engines, Engine!OpenRead(e)
    PROVE  EngineInv'
<1>. DEFINE mode == IF engine[e].mode = "stuck" THEN "stuckread" ELSE "read"
<1>1. /\ Engine!Running(e) /\ engine[e].mode # "write" /\ UNCHANGED <<dciDisk, dci, engineSpoiled, engineUnsaved>>
      /\ Engine!Exists(Engine!File(e), engine[e].sub) /\ EngineTypes
      /\ Engine!Becomes(e, mode, Engine!File(e).files[engine[e].sub])
  BY DEF Engine!OpenRead, EngineInv
<1>2. Engine!File(e).files[engine[e].sub] \in Texts
  BY <1>1, RunningEngine, FilesFunction DEF Engine!Exists
<1>3. mode \in Modes
  BY DEF Modes
<1>4. PICK r \in EngineRecs :
         /\ r.thread = engine[e].thread /\ r.sub = engine[e].sub
         /\ engine' = [engine EXCEPT ![e] = r]
  BY <1>1, <1>2, <1>3, BecomesChanged
<1>5. PICK f \in Engine!DciFiles : f = Engine!File(e)
  BY <1>1, RunningEngine
<1>6. dci' = [dci EXCEPT ![engine[e].thread] = f]
  BY <1>1, <1>5, RunningEngine
<1>7. /\ dciDisk' \in Engine!DciFiles /\ engineUnsaved' \in BOOLEAN
      /\ ~engineSpoiled /\ ~engineUnsaved' =>
            \/ dciDisk' = f
            \/ \E o \in Engines \ {e} :
                  /\ engine[o].thread = engine[e].thread /\ engine[o].mode = "write"
                  /\ Engine!Exists(f, engine[o].sub)
  BY <1>1, <1>5, RunningEngine
<1>. QED
  BY <1>1, <1>4, <1>6, <1>7, EngineSteps

LEMMA OpenWriteStep ==
    ASSUME Engine!DDciFileEngineAssumption, EngineInv, NEW e \in Engines, NEW truncate \in BOOLEAN,
           Engine!OpenWrite(e, truncate)
    PROVE  EngineInv'
<1>1. /\ Engine!Running(e) /\ engine[e].mode = "closed" /\ EngineTypes
      /\ dciDisk' = IF truncate THEN Engine!Cut ELSE dciDisk
  BY DEF Engine!OpenWrite, EngineInv
<1>2. /\ engine[e] \in EngineRecs /\ engine[e].sub \in Subs
      /\ Engine!File(e) \in Engine!DciFiles /\ dciDisk \in Engine!DciFiles /\ engineUnsaved \in BOOLEAN
  BY <1>1, RunningEngine
<1>3. dciDisk' \in Engine!DciFiles
  <2>1. Engine!Cut \in Engine!DciFiles
    BY EmptyIsFile
  <2>. QED
    BY <1>1, <1>2, <2>1
<1>4. CASE Engine!Exists(Engine!File(e), engine[e].sub) \/ Engine!CanHold(Engine!File(e), engine[e].sub)
  <2>1. PICK f : f = IF Engine!Exists(Engine!File(e), engine[e].sub) THEN Engine!File(e)
                     ELSE Engine!With(Engine!File(e), engine[e].sub, Blank)
    OBVIOUS
  <2>2. f \in Engine!DciFiles /\ Engine!Exists(f, engine[e].sub) /\ f.files[engine[e].sub] \in Texts
    <3>1. CASE Engine!Exists(Engine!File(e), engine[e].sub)
      BY <1>2, <2>1, <3>1, FilesFunction DEF Engine!Exists
    <3>2. CASE ~Engine!Exists(Engine!File(e), engine[e].sub)
      BY <1>2, <2>1, <3>2, WithIsFile DEF Engine!DDciFileEngineAssumption
    <3>. QED
      BY <3>1, <3>2
  <2>3. /\ dci' = [dci EXCEPT ![engine[e].thread] = f]
        /\ Engine!Becomes(e, "write", f.files[engine[e].sub])
        /\ engineSpoiled' = engineSpoiled /\ engineUnsaved' = engineUnsaved
    BY <1>4, <2>1 DEF Engine!OpenWrite
  <2>4. PICK r \in EngineRecs :
           /\ r.thread = engine[e].thread /\ r.sub = engine[e].sub /\ r.mode = "write"
           /\ engine' = [engine EXCEPT ![e] = r]
    BY <1>1, <2>2, <2>3, BecomesChanged DEF Modes
  <2>. QED
    BY <1>1, <1>2, <1>3, <2>2, <2>3, <2>4, EngineSteps
<1>5. CASE ~(Engine!Exists(Engine!File(e), engine[e].sub) \/ Engine!CanHold(Engine!File(e), engine[e].sub))
  <2>1. /\ Engine!Becomes(e, "stuck", Blank) /\ dci' = dci
        /\ engineUnsaved' = (engineUnsaved \/ truncate) /\ engineSpoiled' = engineSpoiled
    BY <1>5 DEF Engine!OpenWrite
  <2>2. Blank \in Texts
    BY DEF Engine!DDciFileEngineAssumption
  <2>3. PICK r \in EngineRecs :
           /\ r.thread = engine[e].thread /\ r.sub = engine[e].sub
           /\ engine' = [engine EXCEPT ![e] = r]
    BY <1>1, <2>1, <2>2, BecomesChanged DEF Modes
  <2>4. PICK f \in Engine!DciFiles : f = Engine!File(e)
    BY <1>2
  <2>5. dci' = [dci EXCEPT ![engine[e].thread] = f]
    BY <1>1, <2>1, <2>4, RunningEngine
  <2>6. ~engineSpoiled /\ ~engineUnsaved' =>
           \/ dciDisk' = f
           \/ \E o \in Engines \ {e} :
                 /\ engine[o].thread = engine[e].thread /\ engine[o].mode = "write"
                 /\ Engine!Exists(f, engine[o].sub)
    BY <1>1, <2>1, <2>4, RunningEngine
  <2>. QED
    BY <1>1, <1>2, <1>3, <2>1, <2>3, <2>5, <2>6, EngineSteps
<1>. QED
  BY <1>4, <1>5

LEMMA WriteStep ==
    ASSUME Engine!DDciFileEngineAssumption, EngineInv, NEW e \in Engines, NEW text \in Texts,
           Engine!Write(e, text)
    PROVE  EngineInv'
<1>1. /\ engine[e].mode = "write" /\ EngineTypes /\ Engine!Running(e)
      /\ Engine!Becomes(e, "write", text) /\ UNCHANGED <<dciDisk, dci, engineSpoiled, engineUnsaved>>
  BY DEF Engine!Write, EngineInv, EngineTypes
<1>2. PICK r \in EngineRecs :
         /\ r.thread = engine[e].thread /\ r.sub = engine[e].sub /\ r.mode = "write"
         /\ engine' = [engine EXCEPT ![e] = r]
  BY <1>1, BecomesChanged DEF Modes
<1>3. PICK f \in Engine!DciFiles : f = Engine!File(e)
  BY <1>1, RunningEngine
<1>4. dci' = [dci EXCEPT ![engine[e].thread] = f]
  BY <1>1, <1>3, RunningEngine
<1>5. /\ dciDisk' \in Engine!DciFiles /\ engineUnsaved' \in BOOLEAN
      /\ ~engineSpoiled /\ ~engineUnsaved' =>
            \/ dciDisk' = f
            \/ r.mode = "write" /\ Engine!Exists(f, r.sub)
            \/ \E o \in Engines \ {e} :
                  /\ engine[o].thread = engine[e].thread /\ engine[o].mode = "write"
                  /\ Engine!Exists(f, engine[o].sub)
  BY <1>1, <1>2, <1>3, RunningEngine
<1>. QED
  BY <1>1, <1>2, <1>4, <1>5, EngineSteps

(* A save leaves the new content on the disk, or is known to have failed.  *)
LEMMA SavedOrNot ==
    ASSUME dciDisk \in Engine!DciFiles, NEW t, NEW f \in Engine!DciFiles, Engine!Save(t, f)
    PROVE  /\ dci' = [dci EXCEPT ![t] = f]
           /\ dciDisk' \in Engine!DciFiles /\ engineUnsaved' \in BOOLEAN
           /\ ~engineUnsaved' => dciDisk' = f
  BY EmptyIsFile DEF Engine!Save

(* Flushing saves all, or the file is gone and what its engine holds does  *)
(* not count.                                                              *)
LEMMA FlushedSaves ==
    ASSUME Engine!DDciFileEngineAssumption, EngineInv, NEW e \in Engines, Engine!Running(e),
           Engine!Flushed(e)
    PROVE  /\ dciDisk' \in Engine!DciFiles /\ engineUnsaved' \in BOOLEAN
           /\ \E f \in Engine!DciFiles :
                 /\ dci' = [dci EXCEPT ![engine[e].thread] = f]
                 /\ ~engineSpoiled /\ ~engineUnsaved' =>
                       \/ dciDisk' = f
                       \/ \E o \in Engines \ {e} :
                             /\ engine[o].thread = engine[e].thread /\ engine[o].mode = "write"
                             /\ Engine!Exists(f, engine[o].sub)
<1>1. /\ engine[e] \in EngineRecs /\ engine[e].sub \in Subs /\ engine[e].text \in Texts
      /\ Engine!File(e) \in Engine!DciFiles /\ dciDisk \in Engine!DciFiles /\ engineUnsaved \in BOOLEAN
  BY RunningEngine DEF EngineRecs
<1>3. CASE Engine!Exists(Engine!File(e), engine[e].sub) \/ Engine!CanHold(Engine!File(e), engine[e].sub)
  <2>1. PICK f \in Engine!DciFiles : f = Engine!With(Engine!File(e), engine[e].sub, engine[e].text)
    BY <1>1, WithIsFile
  <2>2. Engine!Save(engine[e].thread, f)
    BY <1>3, <2>1 DEF Engine!Flushed
  <2>. QED
    BY <1>1, <2>1, <2>2, SavedOrNot
<1>4. CASE ~(Engine!Exists(Engine!File(e), engine[e].sub) \/ Engine!CanHold(Engine!File(e), engine[e].sub))
  <2>1. dciDisk' = dciDisk /\ dci' = dci /\ engineUnsaved' = (engineUnsaved \/ dciDisk.cut)
    BY <1>4 DEF Engine!Flushed
  <2>5. dciDisk.cut \in BOOLEAN
    BY <1>1 DEF Engine!DciFiles
  <2>2. PICK f \in Engine!DciFiles : f = Engine!File(e)
    BY <1>1
  <2>3. dci' = [dci EXCEPT ![engine[e].thread] = f]
    BY <2>1, <2>2, RunningEngine
  <2>4. ~engineSpoiled /\ ~engineUnsaved =>
           \/ dciDisk = f
           \/ \E o \in Engines \ {e} :
                 /\ engine[o].thread = engine[e].thread /\ engine[o].mode = "write"
                 /\ Engine!Exists(f, engine[o].sub)
    BY <1>4, <2>2, RunningEngine
  <2>. QED
    BY <1>1, <2>1, <2>2, <2>3, <2>4, <2>5
<1>. QED
  BY <1>3, <1>4

LEMMA FlushStep ==
    ASSUME Engine!DDciFileEngineAssumption, EngineInv, NEW e \in Engines, Engine!Flush(e)
    PROVE  EngineInv'
<1>1. /\ Engine!Running(e) /\ Engine!Flushed(e) /\ engine' = engine
      /\ engineSpoiled' = engineSpoiled
  BY DEF Engine!Flush, EngineInv, EngineTypes
<1>2. /\ engine[e] \in EngineRecs /\ engine' = [engine EXCEPT ![e] = engine[e]]
  BY <1>1, RunningEngine
<1>3. PICK f \in Engine!DciFiles :
         /\ dci' = [dci EXCEPT ![engine[e].thread] = f]
         /\ ~engineSpoiled /\ ~engineUnsaved' =>
               \/ dciDisk' = f
               \/ \E o \in Engines \ {e} :
                     /\ engine[o].thread = engine[e].thread /\ engine[o].mode = "write"
                     /\ Engine!Exists(f, engine[o].sub)
  BY <1>1, FlushedSaves
<1>4. dciDisk' \in Engine!DciFiles /\ engineUnsaved' \in BOOLEAN
  BY <1>1, FlushedSaves
<1>. QED
  BY <1>1, <1>2, <1>3, <1>4, EngineSteps

LEMMA CloseStep ==
    ASSUME Engine!DDciFileEngineAssumption, EngineInv, NEW e \in Engines, Engine!Close(e)
    PROVE  EngineInv'
<1>1. /\ Engine!Running(e) /\ Engine!Becomes(e, "closed", Blank) /\ EngineTypes
      /\ engineSpoiled' = engineSpoiled
  BY DEF Engine!Close, EngineInv, EngineTypes
<1>2. Blank \in Texts
  BY DEF Engine!DDciFileEngineAssumption
<1>3. PICK r \in EngineRecs :
         /\ r.thread = engine[e].thread /\ r.sub = engine[e].sub
         /\ engine' = [engine EXCEPT ![e] = r]
  BY <1>1, <1>2, BecomesChanged DEF Modes
<1>4. PICK f \in Engine!DciFiles :
         /\ dci' = [dci EXCEPT ![engine[e].thread] = f]
         /\ ~engineSpoiled /\ ~engineUnsaved' =>
               \/ dciDisk' = f
               \/ \E o \in Engines \ {e} :
                     /\ engine[o].thread = engine[e].thread /\ engine[o].mode = "write"
                     /\ Engine!Exists(f, engine[o].sub)
         /\ dciDisk' \in Engine!DciFiles /\ engineUnsaved' \in BOOLEAN
  <2>1. CASE engine[e].mode = "read"
    <3>1. UNCHANGED <<dciDisk, dci, engineUnsaved>>
      BY <2>1 DEF Engine!Close
    <3>. QED
      BY <1>1, <2>1, <3>1, RunningEngine
  <2>2. CASE engine[e].mode # "read"
    <3>1. Engine!Flushed(e)
      BY <2>2 DEF Engine!Close
    <3>. QED
      BY <1>1, <3>1, FlushedSaves
  <2>. QED
    BY <2>1, <2>2
<1>. QED
  BY <1>1, <1>3, <1>4, EngineSteps

LEMMA ChangeStep ==
    ASSUME Engine!DDciFileEngineAssumption, EngineInv, NEW e \in Engines, Engine!Change(e)
    PROVE  EngineInv'
<1>1. Engine!Running(e) /\ engine' = engine /\ engineSpoiled' = engineSpoiled
  BY DEF Engine!Change
<1>2. /\ engine[e] \in EngineRecs /\ engine' = [engine EXCEPT ![e] = engine[e]]
      /\ engine[e].sub \in Subs /\ Engine!File(e) \in Engine!DciFiles /\ dciDisk \in Engine!DciFiles
  BY <1>1, RunningEngine
<1>3. PICK f \in Engine!Changes(Engine!File(e), engine[e].sub) : Engine!Save(engine[e].thread, f)
  BY DEF Engine!Change
<1>4. f \in Engine!DciFiles
  BY <1>2, ChangedIsFile
<1>5. /\ dci' = [dci EXCEPT ![engine[e].thread] = f]
      /\ dciDisk' \in Engine!DciFiles /\ engineUnsaved' \in BOOLEAN
      /\ ~engineUnsaved' => dciDisk' = f
  BY <1>2, <1>3, <1>4, SavedOrNot
<1>. QED
  BY <1>1, <1>2, <1>4, <1>5, EngineSteps

(* What a half-made change makes of the DDciFile.                          *)
LEMMA HalfChanged ==
    ASSUME EngineInv, NEW e \in Engines, Engine!ChangeHalf(e), NEW f \in Engine!DciFiles,
           f = Engine!File(e), engine[e].thread \in Threads
    PROVE  LET g == [f EXCEPT !.dir = ~f.dir,
                              !.files = Engine!Restrict(f.files, DOMAIN f.files \ InDirectory)]
           IN  g \in Engine!DciFiles /\ dci' = [dci EXCEPT ![engine[e].thread] = g]
<1>. DEFINE t == engine[e].thread
            S == DOMAIN f.files \ InDirectory
<1>1. PICK r : r = Engine!Restrict(f.files, S)
  OBVIOUS
<1>2. r \in [S -> Texts] /\ S \subseteq Subs
  BY <1>1, FilesFunction DEF Engine!Restrict
<1>3. PICK g : g = [f EXCEPT !.dir = ~f.dir, !.files = r]
  OBVIOUS
<1>4. g \in Engine!DciFiles
  <2>1. [f EXCEPT !.files = r] \in Engine!DciFiles
    BY <1>2, FilesFunction
  <2>2. PICK h \in Engine!DciFiles : h = [f EXCEPT !.files = r]
    BY <2>1
  <2>3. [h EXCEPT !.dir = ~f.dir] \in Engine!DciFiles
    BY DEF Engine!DciFiles
  <2>4. g = [h EXCEPT !.dir = ~f.dir]
    BY <1>3, <2>2
  <2>. QED
    BY <2>3, <2>4
<1>5. dci \in [Threads -> Engine!DciFiles \cup {None}] /\ dci[t] = f
  BY DEF EngineInv, EngineTypes, Engine!File
<1>6. dci' = [dci EXCEPT ![t].dir = ~dci[t].dir,
                         ![t].files = Engine!Restrict(dci[t].files, DOMAIN dci[t].files \ InDirectory)]
  BY DEF Engine!ChangeHalf
<1>7. dci' = [dci EXCEPT ![t] = g]
  BY <1>1, <1>3, <1>5, <1>6
<1>. QED
  BY <1>1, <1>3, <1>4, <1>7

LEMMA ChangeHalfStep ==
    ASSUME Engine!DDciFileEngineAssumption, EngineInv, NEW e \in Engines, Engine!ChangeHalf(e)
    PROVE  EngineInv'
<1>1. /\ Engine!Running(e) /\ engine' = engine /\ dciDisk' = dciDisk
      /\ engineSpoiled' = engineSpoiled /\ engineUnsaved' = TRUE
  BY DEF Engine!ChangeHalf
<1>2. /\ engine[e] \in EngineRecs /\ engine' = [engine EXCEPT ![e] = engine[e]]
      /\ Engine!File(e) \in Engine!DciFiles /\ dciDisk \in Engine!DciFiles
      /\ engine[e].thread \in Threads
  BY <1>1, RunningEngine
<1>3. PICK g \in Engine!DciFiles : dci' = [dci EXCEPT ![engine[e].thread] = g]
  BY <1>2, HalfChanged
<1>. QED
  BY <1>1, <1>2, <1>3, EngineSteps

LEMMA SetSizeStep ==
    ASSUME Engine!DDciFileEngineAssumption, EngineInv, NEW e \in Engines, NEW text \in Texts,
           Engine!SetSize(e, text)
    PROVE  EngineInv'
<1>1. Engine!Running(e) /\ engine' = engine /\ engineSpoiled' = engineSpoiled
  BY DEF Engine!SetSize
<1>2. /\ engine[e] \in EngineRecs /\ engine' = [engine EXCEPT ![e] = engine[e]]
      /\ engine[e].sub \in Subs /\ dciDisk \in Engine!DciFiles
      /\ Engine!File(e) \in Engine!DciFiles /\ engineUnsaved \in BOOLEAN
  BY <1>1, RunningEngine
<1>3. CASE UNCHANGED <<dciDisk, dci, engineUnsaved>>
  <2>1. PICK f \in Engine!DciFiles : f = Engine!File(e)
    BY <1>2
  <2>2. dci' = [dci EXCEPT ![engine[e].thread] = f]
    BY <1>1, <1>3, <2>1, RunningEngine
  <2>3. ~engineSpoiled /\ ~engineUnsaved' =>
           \/ dciDisk' = f
           \/ engine[e].mode = "write" /\ Engine!Exists(f, engine[e].sub)
           \/ \E o \in Engines \ {e} :
                 /\ engine[o].thread = engine[e].thread /\ engine[o].mode = "write"
                 /\ Engine!Exists(f, engine[o].sub)
    BY <1>1, <1>3, <2>1, RunningEngine
  <2>. QED
    BY <1>1, <1>2, <1>3, <2>2, <2>3, EngineSteps
<1>4. CASE Engine!Save(engine[e].thread, Engine!With(Engine!File(e), engine[e].sub, text))
  <2>1. PICK f \in Engine!DciFiles : f = Engine!With(Engine!File(e), engine[e].sub, text)
    BY <1>2, WithIsFile
  <2>2. /\ dci' = [dci EXCEPT ![engine[e].thread] = f]
        /\ dciDisk' \in Engine!DciFiles /\ engineUnsaved' \in BOOLEAN
        /\ ~engineUnsaved' => dciDisk' = f
    BY <1>2, <1>4, <2>1, SavedOrNot
  <2>. QED
    BY <1>1, <1>2, <2>1, <2>2, EngineSteps
<1>5. CASE dciDisk' = Engine!Cut /\ engineUnsaved' = TRUE /\ dci' = dci
  <2>1. PICK f \in Engine!DciFiles : f = Engine!File(e)
    BY <1>2
  <2>2. dci' = [dci EXCEPT ![engine[e].thread] = f]
    BY <1>1, <1>5, <2>1, RunningEngine
  <2>. QED
    BY <1>1, <1>2, <1>5, <2>1, <2>2, EmptyIsFile, EngineSteps
<1>. QED
  BY <1>3, <1>4, <1>5 DEF Engine!SetSize

LEMMA CreateStep ==
    ASSUME Engine!DDciFileEngineAssumption, EngineInv, NEW e \in Engines, NEW t \in Threads,
           NEW s \in Subs, Engine!Create(e, t, s)
    PROVE  EngineInv'
<1>1. /\ EngineTypes /\ None \notin Threads /\ None \notin Engine!DciFiles /\ Blank \in Texts
      /\ ~Engine!Running(e) /\ dciDisk' = dciDisk
  BY DEF EngineInv, Engine!DDciFileEngineAssumption, Engine!Create
<1>2. PICK r : r = [Engine!NoEngine EXCEPT !.thread = t, !.sub = s]
  OBVIOUS
<1>3. r \in EngineRecs /\ r.thread = t /\ r.sub = s /\ r.mode = "closed"
  BY <1>1, <1>2 DEF EngineRecs, Engine!NoEngine, Modes
<1>4. engine' = [engine EXCEPT ![e] = r]
  BY <1>2 DEF Engine!Create
<1>5. /\ engine' \in [Engines -> EngineRecs] /\ engine'[e] = r
      /\ \A o \in Engines \ {e} : engine'[o] = engine[o]
  BY <1>1, <1>3, <1>4 DEF EngineTypes
<1>6. /\ dci' = [dci EXCEPT ![t] = IF dci[t] = None THEN dciDisk ELSE dci[t]]
      /\ engineSpoiled' = ((\E u \in Threads \ {t} : dci[u] # None) \/ (dci[t] # None /\ engineSpoiled))
      /\ engineUnsaved' = (dci[t] # None /\ engineUnsaved)
  BY DEF Engine!Create
<1>7. /\ dci' \in [Threads -> Engine!DciFiles \cup {None}] /\ dci'[t] # None
      /\ dci'[t] = IF dci[t] = None THEN dciDisk ELSE dci[t]
      /\ \A u \in Threads \ {t} : dci'[u] = dci[u]
  BY <1>1, <1>6 DEF EngineTypes
<1>8. engineSpoiled' \in BOOLEAN /\ engineUnsaved' \in BOOLEAN
  BY <1>6
<1>9. ASSUME NEW o \in Engines
      PROVE  /\ Engine!Running(o)' => engine'[o].sub \in Subs /\ Engine!File(o)' # None
             /\ engine'[o].mode # "closed" => Engine!Running(o)'
  <2>1. CASE o = e
    BY <1>3, <1>5, <1>7, <2>1 DEF Engine!File
  <2>2. CASE o # e
    <3>1. Engine!Running(o)' <=> Engine!Running(o)
      BY <1>5, <2>2 DEF Engine!Running
    <3>2. Engine!Running(o) => engine[o].thread \in Threads /\ Engine!File(o)' # None
      BY <1>1, <1>5, <1>7, <2>2 DEF EngineTypes, EngineRecs, Engine!Running, Engine!File
    <3>. QED
      BY <1>1, <1>5, <2>2, <3>1, <3>2 DEF EngineTypes
  <2>. QED
    BY <2>1, <2>2
<1>10. EngineTypes'
  BY <1>1, <1>5, <1>7, <1>8, <1>9 DEF EngineTypes
<1>11. ASSUME ~engineSpoiled' PROVE OneThread' /\ (engineUnsaved' \/ FileOnDisk')
  <2>1. \A u \in Threads \ {t} : dci'[u] = None
    BY <1>6, <1>7, <1>11
  <2>2. ~engineUnsaved' => dciDisk' = dci'[t] \/ \E o \in Engines : WillSave(t, o)'
    <3>1. CASE dci[t] = None
      BY <1>1, <1>7, <3>1
    <3>2. CASE dci[t] # None
      <4>1. ~engineUnsaved' => dciDisk = dci[t] \/ \E o \in Engines : WillSave(t, o)
        BY <1>6, <1>11, <3>2 DEF EngineInv, FileOnDisk
      <4>2. ASSUME NEW o \in Engines, WillSave(t, o) PROVE WillSave(t, o)'
        <5>1. o # e
          BY <1>1, <4>2 DEF WillSave, EngineTypes
        <5>. QED
          BY <1>5, <1>7, <3>2, <4>2, <5>1 DEF WillSave
      <4>. QED
        BY <1>1, <1>7, <3>2, <4>1, <4>2
    <3>. QED
      BY <3>1, <3>2
  <2>. QED
    BY <2>1, <2>2 DEF OneThread, FileOnDisk
<1>. QED
  BY <1>10, <1>11 DEF EngineInv

LEMMA DestroyStep ==
    ASSUME Engine!DDciFileEngineAssumption, EngineInv, NEW e \in Engines, Engine!Destroy(e)
    PROVE  EngineInv'
<1>. DEFINE t == engine[e].thread
<1>1. /\ EngineTypes /\ None \notin Threads /\ None \notin Engine!DciFiles /\ Blank \in Texts
      /\ Engine!Running(e) /\ engine[e].mode # "write" /\ dciDisk' = dciDisk
      /\ engineSpoiled' = engineSpoiled /\ engineUnsaved' = engineUnsaved
  BY DEF EngineInv, Engine!DDciFileEngineAssumption, Engine!Destroy
<1>2. t \in Threads
  BY <1>1, RunningEngine
<1>3. /\ Engine!NoEngine \in EngineRecs /\ Engine!NoEngine.thread = None
      /\ Engine!NoEngine.mode = "closed"
  BY <1>1 DEF Engine!NoEngine, EngineRecs, Modes
<1>4. /\ engine' \in [Engines -> EngineRecs] /\ engine'[e] = Engine!NoEngine
      /\ \A o \in Engines \ {e} : engine'[o] = engine[o]
  BY <1>1, <1>3 DEF EngineTypes, Engine!Destroy
<1>5. PICK x : x = IF \E o \in Engines \ {e} : engine[o].thread = t THEN dci[t] ELSE None
  OBVIOUS
<1>6. dci' = [dci EXCEPT ![t] = x]
  BY <1>5 DEF Engine!Destroy
<1>7. /\ dci' \in [Threads -> Engine!DciFiles \cup {None}]
      /\ dci'[t] = x /\ \A u \in Threads \ {t} : dci'[u] = dci[u]
  BY <1>1, <1>2, <1>5, <1>6 DEF EngineTypes
<1>8. ASSUME NEW o \in Engines
      PROVE  /\ Engine!Running(o)' => /\ engine'[o].sub \in Subs /\ Engine!File(o)' # None
                                     /\ o # e /\ Engine!File(o)' = Engine!File(o)
             /\ engine'[o].mode # "closed" => Engine!Running(o)'
  <2>1. CASE o = e
    BY <1>3, <1>4, <2>1 DEF Engine!Running
  <2>2. CASE o # e
    <3>1. Engine!Running(o)' <=> Engine!Running(o)
      BY <1>4, <2>2 DEF Engine!Running
    <3>2. Engine!Running(o) => engine[o].thread \in Threads /\ Engine!File(o) # None
      BY <1>1 DEF EngineTypes, EngineRecs, Engine!Running
    <3>3. Engine!Running(o) => Engine!File(o)' = Engine!File(o)
      BY <1>4, <1>5, <1>7, <2>2, <3>2 DEF Engine!File
    <3>. QED
      BY <1>1, <1>4, <2>2, <3>1, <3>2, <3>3 DEF EngineTypes
  <2>. QED
    BY <2>1, <2>2
<1>9. EngineTypes'
  BY <1>1, <1>4, <1>7, <1>8 DEF EngineTypes
<1>10. ASSUME ~engineSpoiled' PROVE OneThread' /\ (engineUnsaved' \/ FileOnDisk')
  <2>1. OneThread /\ (engineUnsaved' \/ FileOnDisk)
    BY <1>1, <1>10 DEF EngineInv
  <2>2. \A u \in Threads : dci'[u] # None => dci'[u] = dci[u]
    BY <1>5, <1>7
  <2>3. ASSUME NEW u \in Threads, NEW o \in Engines, WillSave(u, o), dci'[u] # None
        PROVE  WillSave(u, o)'
    <3>1. o # e
      BY <1>1, <2>3 DEF WillSave
    <3>. QED
      BY <1>4, <2>2, <2>3, <3>1 DEF WillSave
  <2>. QED
    BY <1>1, <2>1, <2>2, <2>3 DEF OneThread, FileOnDisk
<1>. QED
  BY <1>9, <1>10 DEF EngineInv

LEMMA NobodyRuns ==
    ASSUME Engine!DDciFileEngineAssumption, dciDisk \in Engine!DciFiles,
           engineSpoiled \in BOOLEAN, engineUnsaved \in BOOLEAN,
           dci = [t \in Threads |-> None], engine = [e \in Engines |-> Engine!NoEngine]
    PROVE  EngineInv
<1>1. /\ Engine!NoEngine \in EngineRecs /\ Engine!NoEngine.thread = None
      /\ Engine!NoEngine.mode = "closed"
  BY DEF Engine!NoEngine, EngineRecs, Modes, Engine!DDciFileEngineAssumption
<1>2. \A e \in Engines : engine[e] = Engine!NoEngine
  OBVIOUS
<1>3. EngineTypes
  BY <1>1, <1>2 DEF EngineTypes, Engine!Running
<1>. QED
  BY <1>3 DEF EngineInv, OneThread, FileOnDisk

LEMMA CrashStep ==
    ASSUME Engine!DDciFileEngineAssumption, EngineInv, Engine!Crash
    PROVE  EngineInv'
<1>1. /\ dciDisk' \in {dciDisk} \cup {Engine!Cut} /\ engineSpoiled' = FALSE /\ engineUnsaved' = FALSE
      /\ dci' = [t \in Threads |-> None] /\ engine' = [e \in Engines |-> Engine!NoEngine]
  BY DEF Engine!Crash
<1>2. dciDisk' \in Engine!DciFiles
  BY <1>1, EmptyIsFile DEF EngineInv, EngineTypes
<1>3. /\ Engine!NoEngine \in EngineRecs /\ Engine!NoEngine.thread = None
      /\ Engine!NoEngine.mode = "closed"
  BY DEF Engine!NoEngine, EngineRecs, Modes, Engine!DDciFileEngineAssumption
<1>4. \A e \in Engines : engine'[e] = Engine!NoEngine
  BY <1>1
<1>5. EngineTypes'
  BY <1>1, <1>2, <1>3, <1>4 DEF EngineTypes, Engine!Running
<1>. QED
  BY <1>1, <1>5 DEF EngineInv, OneThread, FileOnDisk

LEMMA ReplaceStep ==
    ASSUME EngineInv, Engine!Replace
    PROVE  EngineInv'
<1>1. /\ EngineTypes /\ dciDisk' = Engine!Empty /\ UNCHANGED <<dci, engine, engineSpoiled, engineUnsaved>>
      /\ \A t \in Threads : dci[t] = None
  BY DEF EngineInv, Engine!Replace
<1>2. EngineTypes'
  BY <1>1, EmptyIsFile DEF EngineTypes, Engine!Running, Engine!File
<1>. QED
  BY <1>1, <1>2 DEF EngineInv, OneThread, FileOnDisk

LEMMA EngineStarts ==
    ASSUME Engine!Init
    PROVE  EngineInv
<1>. Engine!DDciFileEngineAssumption
  BY LibraryAssumption
<1>. QED
  BY EmptyIsFile, NobodyRuns DEF Engine!Init

LEMMA EngineStep ==
    ASSUME EngineInv, [Engine!Next]_(Engine!engineVars)
    PROVE  EngineInv'
<1>. Engine!DDciFileEngineAssumption
  BY LibraryAssumption
<1>1. CASE Engine!Next
  BY <1>1, CreateStep, OpenReadStep, OpenWriteStep, WriteStep, FlushStep, CloseStep,
     ChangeStep, ChangeHalfStep, SetSizeStep, DestroyStep, CrashStep, ReplaceStep DEF Engine!Next
<1>2. CASE UNCHANGED Engine!engineVars
  BY <1>2 DEF Engine!engineVars, EngineInv, EngineTypes, OneThread, FileOnDisk,
     WillSave, Engine!Running, Engine!File
<1>. QED
  BY <1>1, <1>2

(* Whenever no file inside is open for writing and no call failed half way *)
(* since the last save, the real file holds what the engines of the only   *)
(* thread show.                                                            *)
THEOREM DiskHoldsFile == Engine!Spec => []DiskIsFile
<1>. Engine!DDciFileEngineAssumption
  BY LibraryAssumption
<1>1. Engine!Init => EngineInv
  BY EngineStarts
<1>2. ASSUME EngineInv, [Engine!Next]_(Engine!engineVars) PROVE EngineInv'
  BY <1>2, EngineStep
<1>3. EngineInv => Engine!DiskIsFile
  BY DEF EngineInv, FileOnDisk, WillSave, Engine!DiskIsFile
<1>4. EngineInv => DiskIsFile
  BY <1>3 DEF DiskIsFile, Of
<1>. QED
  BY <1>1, <1>2, <1>4, PTL DEF Engine!Spec

-----------------------------------------------------------------------------
(***************************************************************************)
(* DSettings.  For an option that was changed since the backend was set:   *)
(* the last change posted of it is to what the caller sees; with none      *)
(* posted, that is stored, or the backend has yet to report what is.       *)
(***************************************************************************)
SetCalls == [call : {"doSetOption"}, key : Options, value : OptionValues]
Others   == [call : {"doSync", "answer"}]

Sets(c, k) == c.call = "doSetOption" /\ c.key = k
Quiet(s, k) == \A i \in DOMAIN s : ~Sets(s[i], k)
Ends(s, k, v) ==
    \E i \in DOMAIN s : /\ Sets(s[i], k) /\ s[i].value = v
                        /\ \A j \in DOMAIN s : Sets(s[j], k) => j <= i

Reports(k, v) == \E i \in DOMAIN reported : reported[i] = Settings!SetCall(k, v)

SettingsTypes ==
    /\ option \in [Options -> OptionValues \cup {None}]
    /\ threads \subseteq Backends /\ backend \in threads \cup {None}
    /\ store \in [Backends -> [Options -> OptionValues \cup {None}]]
    /\ posted \in [Backends -> Seq(SetCalls \cup Others)]
    /\ reported \in Seq(SetCalls)
    /\ syncing \in BOOLEAN /\ touched \subseteq Options

Agreed(k) ==
    \/ Ends(posted[backend], k, Settings!Shown(k))
    \/ /\ Quiet(posted[backend], k)
       /\ \/ store[backend][k] = Settings!Shown(k)
          \/ backend \in Reporting /\ Reports(k, store[backend][k])

AllAgreed == backend # None => \A k \in touched : Agreed(k)

(* The caller that waits in sync posts nothing after its question.         *)
OneAnswer ==
    \A b \in Backends : \A i \in DOMAIN posted[b] : posted[b][i].call = "answer" =>
       /\ syncing /\ b = backend
       /\ \A j \in DOMAIN posted[b] : posted[b][j].call = "answer" => j = i
       /\ \A j \in DOMAIN posted[b] : j > i => posted[b][j].call # "doSetOption"

SettingsInv == SettingsTypes /\ AllAgreed /\ OneAnswer

Events == SetCalls \cup Others

LEMMA JoinedSeq ==
    ASSUME NEW s \in Seq(Events), NEW t \in Seq(Events)
    PROVE  /\ s \o t \in Seq(Events) /\ Len(s \o t) = Len(s) + Len(t)
           /\ DOMAIN (s \o t) = 1..(Len(s) + Len(t))
           /\ \A i \in DOMAIN s : i \in DOMAIN (s \o t) /\ (s \o t)[i] = s[i] /\ i <= Len(s)
           /\ \A i \in DOMAIN t : /\ Len(s) + i \in DOMAIN (s \o t)
                                  /\ (s \o t)[Len(s) + i] = t[i]
           /\ \A i \in DOMAIN (s \o t) :
                 i \in DOMAIN s \/ \E j \in DOMAIN t : i = Len(s) + j
<1>1. s \o t \in Seq(Events) /\ Len(s \o t) = Len(s) + Len(t)
  OBVIOUS
<1>2. DOMAIN s = 1..Len(s) /\ DOMAIN t = 1..Len(t) /\ DOMAIN (s \o t) = 1..(Len(s) + Len(t))
  BY <1>1
<1>3. \A i \in 1..(Len(s) + Len(t)) : (s \o t)[i] = IF i <= Len(s) THEN s[i] ELSE t[i - Len(s)]
  OBVIOUS
<1>4. Len(s) \in Nat /\ Len(t) \in Nat
  OBVIOUS
<1>5. ASSUME NEW i \in 1..(Len(s) + Len(t)), i \notin 1..Len(s)
      PROVE  \E j \in 1..Len(t) : i = Len(s) + j
  <2>1. i - Len(s) \in 1..Len(t) /\ i = Len(s) + (i - Len(s))
    BY <1>4, <1>5
  <2>. QED
    BY <2>1
<1>6. \A i \in DOMAIN s : i \in DOMAIN (s \o t) /\ (s \o t)[i] = s[i] /\ i <= Len(s)
  BY <1>2, <1>3, <1>4
<1>7. ASSUME NEW i \in DOMAIN t
      PROVE  Len(s) + i \in DOMAIN (s \o t) /\ (s \o t)[Len(s) + i] = t[i]
  <2>1. i \in 1..Len(t) /\ Len(s) + i \in 1..(Len(s) + Len(t)) /\ ~(Len(s) + i <= Len(s))
    BY <1>2, <1>4, <1>7
  <2>2. (s \o t)[Len(s) + i] = t[(Len(s) + i) - Len(s)]
    BY <2>1, <1>3
  <2>3. (Len(s) + i) - Len(s) = i
    BY <2>1, <1>4
  <2>. QED
    BY <2>1, <2>2, <2>3, <1>2
<1>8. \A i \in DOMAIN (s \o t) : i \in DOMAIN s \/ \E j \in DOMAIN t : i = Len(s) + j
  BY <1>2, <1>5
<1>. QED
  BY <1>1, <1>2, <1>6, <1>7, <1>8

LEMMA QuietJoined ==
    ASSUME NEW s \in Seq(Events), NEW t \in Seq(Events), NEW k, Quiet(t, k)
    PROVE  /\ Quiet(s, k) => Quiet(s \o t, k)
           /\ \A v : Ends(s, k, v) => Ends(s \o t, k, v)
<1>1. \A i \in DOMAIN (s \o t) : Sets((s \o t)[i], k) => i \in DOMAIN s /\ Sets(s[i], k)
  BY JoinedSeq DEF Quiet
<1>2. Quiet(s, k) => Quiet(s \o t, k)
  BY <1>1 DEF Quiet
<1>3. ASSUME NEW v, Ends(s, k, v)
      PROVE  Ends(s \o t, k, v)
  <2>1. PICK i \in DOMAIN s : /\ Sets(s[i], k) /\ s[i].value = v
                              /\ \A j \in DOMAIN s : Sets(s[j], k) => j <= i
    BY <1>3 DEF Ends
  <2>2. i \in DOMAIN (s \o t) /\ (s \o t)[i] = s[i]
    BY JoinedSeq
  <2>3. \A j \in DOMAIN (s \o t) : Sets((s \o t)[j], k) => j <= i
    BY <1>1, <2>1
  <2>. QED
    BY <2>1, <2>2, <2>3 DEF Ends
<1>. QED
  BY <1>2, <1>3

LEMMA EndsJoined ==
    ASSUME NEW s \in Seq(Events), NEW t \in Seq(Events), NEW k, NEW v, Ends(t, k, v)
    PROVE  Ends(s \o t, k, v)
<1>1. PICK i \in DOMAIN t : /\ Sets(t[i], k) /\ t[i].value = v
                            /\ \A j \in DOMAIN t : Sets(t[j], k) => j <= i
  BY DEF Ends
<1>2. Len(s) + i \in DOMAIN (s \o t) /\ (s \o t)[Len(s) + i] = t[i]
  BY JoinedSeq
<1>3. ASSUME NEW j \in DOMAIN (s \o t), Sets((s \o t)[j], k)
      PROVE  j <= Len(s) + i
  <2>1. CASE j \in DOMAIN s
    <3>1. j <= Len(s) /\ j \in Nat /\ Len(s) \in Nat /\ i \in Nat
      BY <2>1
    <3>. QED
      BY <3>1
  <2>2. ASSUME NEW n \in DOMAIN t, j = Len(s) + n
        PROVE  j <= Len(s) + i
    <3>1. (s \o t)[j] = t[n]
      BY <2>2, JoinedSeq
    <3>2. n <= i
      BY <3>1, <1>1, <1>3
    <3>. QED
      BY <3>2, <2>2
  <2>. QED
    BY <2>1, <2>2, JoinedSeq
<1>. QED
  BY <1>1, <1>2, <1>3 DEF Ends

LEMMA TailSeq ==
    ASSUME NEW S, NEW s \in Seq(S), s # <<>>
    PROVE  /\ Tail(s) \in Seq(S) /\ Head(s) = s[1] /\ Head(s) \in S /\ 1 \in DOMAIN s
           /\ \A i \in DOMAIN Tail(s) : i + 1 \in DOMAIN s /\ Tail(s)[i] = s[i + 1] /\ i \in Nat
           /\ \A i \in DOMAIN s : i # 1 => i - 1 \in DOMAIN Tail(s) /\ Tail(s)[i - 1] = s[i]
<1>1. Tail(s) \in Seq(S) /\ Head(s) = s[1] /\ Head(s) \in S /\ Len(s) \in Nat /\ Len(s) # 0
  OBVIOUS
<1>2. Len(Tail(s)) = Len(s) - 1 /\ \A i \in 1..Len(Tail(s)) : Tail(s)[i] = s[i + 1]
  OBVIOUS
<1>3. DOMAIN s = 1..Len(s) /\ DOMAIN Tail(s) = 1..(Len(s) - 1)
  BY <1>1, <1>2
<1>. QED
  BY <1>1, <1>2, <1>3

LEMMA TailOf ==
    ASSUME NEW s \in Seq(Events), s # <<>>, NEW k
    PROVE  /\ Quiet(s, k) => Quiet(Tail(s), k)
           /\ \A v : Ends(s, k, v) =>
                 \/ Ends(Tail(s), k, v)
                 \/ Quiet(Tail(s), k) /\ Sets(Head(s), k) /\ Head(s).value = v
<1>1. Quiet(s, k) => Quiet(Tail(s), k)
  BY TailSeq DEF Quiet
<1>2. ASSUME NEW v, Ends(s, k, v)
      PROVE  \/ Ends(Tail(s), k, v)
             \/ Quiet(Tail(s), k) /\ Sets(Head(s), k) /\ Head(s).value = v
  <2>1. PICK i \in DOMAIN s : /\ Sets(s[i], k) /\ s[i].value = v
                              /\ \A j \in DOMAIN s : Sets(s[j], k) => j <= i
    BY <1>2 DEF Ends
  <2>2. i \in Nat /\ \A j \in DOMAIN Tail(s) : j \in Nat
    BY TailSeq
  <2>3. CASE i = 1
    <3>1. \A j \in DOMAIN Tail(s) : ~(j + 1 <= i)
      BY <2>2, <2>3
    <3>2. Quiet(Tail(s), k)
      BY <2>1, <3>1, TailSeq DEF Quiet
    <3>. QED
      BY <2>1, <2>3, <3>2, TailSeq
  <2>4. CASE i # 1
    <3>1. i - 1 \in DOMAIN Tail(s) /\ Tail(s)[i - 1] = s[i]
      BY <2>4, TailSeq
    <3>2. ASSUME NEW j \in DOMAIN Tail(s), Sets(Tail(s)[j], k)
          PROVE  j <= i - 1
      <4>1. j + 1 <= i
        BY <2>1, <3>2, TailSeq
      <4>. QED
        BY <4>1, <2>2
    <3>. QED
      BY <2>1, <3>1, <3>2 DEF Ends
  <2>. QED
    BY <2>3, <2>4
<1>. QED
  BY <1>1, <1>2

LEMMA KeysListed ==
    ASSUME NEW S, IsFiniteSet(S)
    PROVE  /\ Settings!Listed(S) \in Seq(S)
           /\ \A x \in S : \E i \in DOMAIN Settings!Listed(S) : Settings!Listed(S)[i] = x
           /\ \A i, j \in DOMAIN Settings!Listed(S) :
                 Settings!Listed(S)[i] = Settings!Listed(S)[j] => i = j
<1>. DEFINE n == Cardinality(S)
<1>1. n \in Nat /\ ExistsBijection(1..n, S)
  BY FS_CardinalityType
<1>2. PICK g : g \in Bijection(1..n, S)
  BY <1>1 DEF ExistsBijection
<1>3. g \in [1..n -> S] /\ Settings!IsInjective(g)
  BY <1>2 DEF Bijection, Injection, IsInjective, Settings!IsInjective
<1>0. Settings!Cardinality(S) = Cardinality(S)
  BY DEF Settings!Cardinality, Cardinality
<1>4. PICK f : f = Settings!Listed(S)
  OBVIOUS
<1>5. f \in [1..n -> S] /\ Settings!IsInjective(f)
  BY <1>0, <1>3, <1>4 DEF Settings!Listed
<1>6. f \in Injection(1..n, S)
  BY <1>5 DEF Injection, IsInjective, Settings!IsInjective
<1>7. IsFiniteSet(1..n) /\ Cardinality(1..n) = n
  BY <1>1, FS_Interval
<1>8. f \in Surjection(1..n, S)
  BY <1>6, <1>7, FS_Injection
<1>9. f \in Seq(S) /\ DOMAIN f = 1..n
  BY <1>5, <1>1
<1>. QED
  BY <1>4, <1>5, <1>8, <1>9 DEF Surjection, Settings!IsInjective

LEMMA CallsPosted ==
    ASSUME Settings!DSettingsAssumption, NEW ks \in SUBSET Options, NEW new,
           \A k \in ks : new[k] \in OptionValues
    PROVE  /\ Settings!Calls(ks, new) \in Seq(SetCalls)
           /\ \A k \in Settings!Differing(ks, new) : Ends(Settings!Calls(ks, new), k, new[k])
           /\ \A k : k \notin Settings!Differing(ks, new) => Quiet(Settings!Calls(ks, new), k)
<1>1. PICK D : D = Settings!Differing(ks, new)
  OBVIOUS
<1>2. D \subseteq ks /\ IsFiniteSet(D)
  <2>1. IsFiniteSet(Options)
    BY DEF Settings!DSettingsAssumption, Settings!IsFiniteSet, IsFiniteSet
  <2>2. D \subseteq ks
    BY <1>1 DEF Settings!Differing
  <2>. QED
    BY <2>1, <2>2, FS_Subset
<1>3. PICK keys : keys = Settings!Listed(D)
  OBVIOUS
<1>4. /\ keys \in Seq(D)
      /\ \A x \in D : \E i \in DOMAIN keys : keys[i] = x
      /\ \A i, j \in DOMAIN keys : keys[i] = keys[j] => i = j
  BY <1>2, <1>3, KeysListed
<1>5. PICK list : list = Settings!Calls(ks, new)
  OBVIOUS
<1>6. list = [i \in DOMAIN keys |-> Settings!SetCall(keys[i], new[keys[i]])]
  BY <1>1, <1>3, <1>5 DEF Settings!Calls
<1>7. DOMAIN keys = 1..Len(keys) /\ Len(keys) \in Nat /\ \A i \in DOMAIN keys : keys[i] \in D
  BY <1>4
<1>8. \A i \in DOMAIN keys : Settings!SetCall(keys[i], new[keys[i]]) \in SetCalls
  BY <1>2, <1>7 DEF Settings!SetCall, SetCalls
<1>9. list \in Seq(SetCalls) /\ DOMAIN list = DOMAIN keys
  BY <1>6, <1>7, <1>8
<1>10. \A i \in DOMAIN list : \A k : Sets(list[i], k) => keys[i] = k
  BY <1>6, <1>9 DEF Sets, Settings!SetCall
<1>11. ASSUME NEW k \in D
       PROVE  Ends(list, k, new[k])
  <2>1. PICK i \in DOMAIN keys : keys[i] = k
    BY <1>4
  <2>2. Sets(list[i], k) /\ list[i].value = new[k]
    BY <1>6, <2>1 DEF Sets, Settings!SetCall
  <2>3. \A j \in DOMAIN list : Sets(list[j], k) => j <= i
    BY <1>4, <1>7, <1>9, <1>10, <2>1
  <2>. QED
    BY <1>9, <2>2, <2>3 DEF Ends
<1>12. \A k : k \notin D => Quiet(list, k)
  BY <1>7, <1>9, <1>10 DEF Quiet
<1>. QED
  BY <1>1, <1>5, <1>9, <1>11, <1>12

LEMMA NoAnswer ==
    ASSUME SettingsInv, ~syncing
    PROVE  \A b \in Backends : \A i \in DOMAIN posted[b] : posted[b][i].call # "answer"
BY DEF SettingsInv, OneAnswer

(* What the caller changes is posted to the backend it has.                *)
LEMMA ChangesPosted ==
    ASSUME Settings!DSettingsAssumption, SettingsInv, ~syncing,
           NEW ks \in SUBSET Options, NEW new, \A k \in ks : new[k] \in OptionValues,
           Settings!SetOptions(ks, new), UNCHANGED <<backend, threads, store, syncing>>,
           NEW t \in Seq(Events), \A i \in DOMAIN t : t[i].call # "answer",
           \A k \in Settings!Differing(ks, new) : Ends(t, k, new[k]),
           \A k : k \notin Settings!Differing(ks, new) => Quiet(t, k),
           Settings!PostTo(backend, t),
           reported' \in Seq(SetCalls),
           \A k, v : /\ k \notin Settings!Differing(ks, new) /\ v # Settings!Shown(k)
                     /\ Reports(k, v)
                     => Reports(k, v)'
    PROVE  SettingsInv'
<1>. DEFINE D == Settings!Differing(ks, new)
<1>1. D \subseteq ks /\ D \subseteq Options
  BY DEF Settings!Differing
<1>. HIDE DEF D
<1>2. SettingsTypes /\ AllAgreed
  BY DEF SettingsInv
<1>3. /\ option' = [k \in Options |-> IF k \in D THEN new[k] ELSE option[k]]
      /\ touched' = IF backend = None THEN touched ELSE touched \cup D
  BY DEF Settings!SetOptions, D
<1>4. option' \in [Options -> OptionValues \cup {None}] /\ touched' \subseteq Options
  BY <1>1, <1>2, <1>3 DEF SettingsTypes
<1>5. \A k \in Options : Settings!Shown(k)' = IF k \in D THEN new[k] ELSE Settings!Shown(k)
  BY <1>1, <1>3 DEF Settings!Shown, Settings!DSettingsAssumption
<1>6. backend # None => backend \in Backends
  BY <1>2 DEF SettingsTypes
<1>7. CASE backend = None
  <2>1. posted' = posted
    BY <1>7 DEF Settings!PostTo
  <2>2. SettingsTypes'
    BY <1>2, <1>4, <2>1 DEF SettingsTypes
  <2>3. OneAnswer'
    BY <2>1, NoAnswer DEF OneAnswer
  <2>. QED
    BY <1>7, <2>2, <2>3 DEF SettingsInv, AllAgreed
<1>8. CASE backend # None
  <2>1. PICK s : s = posted[backend]
    OBVIOUS
  <2>2. s \in Seq(Events)
    BY <1>2, <1>6, <1>8, <2>1 DEF SettingsTypes, Events
  <2>3. posted' = [posted EXCEPT ![backend] = s \o t] /\ s \o t \in Seq(Events)
    BY <1>8, <2>1, <2>2 DEF Settings!PostTo
  <2>4. posted'[backend] = s \o t
    BY <1>2, <1>6, <1>8, <2>3 DEF SettingsTypes
  <2>5. SettingsTypes'
    BY <1>2, <1>4, <2>3 DEF SettingsTypes, Events
  <2>6. OneAnswer'
    <3>1. \A i \in DOMAIN s : s[i].call # "answer"
      BY <1>6, <1>8, <2>1, NoAnswer
    <3>2. \A i \in DOMAIN (s \o t) : (s \o t)[i].call # "answer"
      BY <2>2, <3>1, JoinedSeq
    <3>3. \A b \in Backends : posted'[b] = IF b = backend THEN s \o t ELSE posted[b]
      BY <1>2, <1>6, <1>8, <2>3 DEF SettingsTypes
    <3>4. \A b \in Backends : \A i \in DOMAIN posted'[b] : posted'[b][i].call # "answer"
      BY <3>2, <3>3, NoAnswer
    <3>. QED
      BY <3>4 DEF OneAnswer
  <2>7. ASSUME NEW k \in touched'
        PROVE  Agreed(k)'
    <3>1. k \in Options /\ backend' = backend /\ store' = store
      BY <1>4
    <3>2. CASE k \in D
      <4>1. Ends(s \o t, k, new[k])
        BY <2>2, <3>2, EndsJoined DEF D
      <4>. QED
        BY <1>5, <2>4, <3>1, <3>2, <4>1 DEF Agreed
    <3>3. CASE k \notin D
      <4>1. k \in touched /\ Agreed(k) /\ Settings!Shown(k)' = Settings!Shown(k)
        BY <1>2, <1>3, <1>5, <1>8, <3>1, <3>3, <2>7 DEF AllAgreed
      <4>2. Quiet(t, k)
        BY <3>3 DEF D
      <4>3. CASE Ends(s, k, Settings!Shown(k))
        <5>1. Ends(s \o t, k, Settings!Shown(k))
          BY <2>2, <4>2, <4>3, QuietJoined
        <5>. QED
          BY <2>4, <3>1, <4>1, <5>1 DEF Agreed
      <4>4. CASE ~Ends(s, k, Settings!Shown(k))
        <5>1. /\ Quiet(s, k)
              /\ \/ store[backend][k] = Settings!Shown(k)
                 \/ backend \in Reporting /\ Reports(k, store[backend][k])
          BY <2>1, <4>1, <4>4 DEF Agreed
        <5>2. Quiet(s \o t, k)
          BY <2>2, <4>2, <5>1, QuietJoined
        <5>3. store[backend][k] = Settings!Shown(k) \/ Reports(k, store[backend][k])'
          BY <3>1, <3>3, <5>1 DEF D, Reports
        <5>. QED
          BY <2>4, <3>1, <4>1, <5>1, <5>2, <5>3 DEF Agreed, Reports
      <4>. QED
        BY <4>3, <4>4
    <3>. QED
      BY <3>2, <3>3
  <2>. QED
    BY <2>5, <2>6, <2>7 DEF SettingsInv, AllAgreed
<1>. QED
  BY <1>7, <1>8

LEMMA SyncSeq ==
    ASSUME NEW x \in {<<>>, <<Settings!SyncCall>>}
    PROVE  /\ x \in Seq(Events) /\ \A i \in DOMAIN x : x[i].call = "doSync"
           /\ \A k : Quiet(x, k)
<1>1. PICK c : c = Settings!SyncCall
  OBVIOUS
<1>2. c \in Events /\ c.call = "doSync"
  BY <1>1 DEF Settings!SyncCall, Events, Others
<1>3. CASE x = <<>>
  BY <1>3 DEF Quiet
<1>4. CASE x = <<c>>
  <2>1. x \in Seq(Events) /\ DOMAIN x = {1} /\ x[1] = c
    BY <1>2, <1>4
  <2>2. \A i \in DOMAIN x : x[i].call = "doSync"
    BY <1>2, <2>1
  <2>. QED
    BY <2>1, <2>2 DEF Quiet, Sets
<1>. QED
  BY <1>1, <1>3, <1>4

LEMMA SetOptionStep ==
    ASSUME Settings!DSettingsAssumption, SettingsInv,
           NEW k \in Options, NEW v \in OptionValues, Settings!SetOption(k, v)
    PROVE  SettingsInv'
<1>1. PICK new : new = [x \in {k} |-> v]
  OBVIOUS
<1>2. \A x \in {k} : new[x] \in OptionValues
  BY <1>1
<1>3. /\ ~syncing /\ Settings!SetOptions({k}, new)
      /\ Settings!PostTo(backend, Settings!Calls({k}, new))
      /\ UNCHANGED <<backend, threads, store, reported, syncing>>
  BY <1>1 DEF Settings!SetOption, Settings!Free
<1>4. reported \in Seq(SetCalls)
  BY DEF SettingsInv, SettingsTypes
<1>5. PICK t : t = Settings!Calls({k}, new)
  OBVIOUS
<1>6. t \in Seq(SetCalls) /\ t \in Seq(Events) /\ \A i \in DOMAIN t : t[i].call # "answer"
  <2>1. t \in Seq(SetCalls)
    BY <1>2, <1>5, CallsPosted
  <2>2. \A i \in DOMAIN t : t[i] \in SetCalls
    BY <2>1
  <2>3. t \in Seq(Events)
    BY <2>1 DEF Events
  <2>. QED
    BY <2>1, <2>2, <2>3 DEF SetCalls
<1>7. /\ \A x \in Settings!Differing({k}, new) : Ends(t, x, new[x])
      /\ \A x : x \notin Settings!Differing({k}, new) => Quiet(t, x)
  BY <1>2, <1>5, CallsPosted
<1>8. \A x, w : Reports(x, w) => Reports(x, w)'
  BY <1>3 DEF Reports
<1>. QED
  BY <1>2, <1>3, <1>4, <1>5, <1>6, <1>7, <1>8, ChangesPosted

LEMMA ResetStep ==
    ASSUME Settings!DSettingsAssumption, SettingsInv, Settings!Reset
    PROVE  SettingsInv'
<1>1. Resettable \in SUBSET Options /\ \A x \in Resettable : Default[x] \in OptionValues
  BY DEF Settings!DSettingsAssumption
<1>2. PICK x \in {<<>>, <<Settings!SyncCall>>} :
         Settings!PostTo(backend, Settings!Calls(Resettable, Default) \o x)
  BY DEF Settings!Reset
<1>3. /\ ~syncing /\ Settings!SetOptions(Resettable, Default)
      /\ UNCHANGED <<backend, threads, store, reported, syncing>>
  BY DEF Settings!Reset, Settings!Free
<1>4. reported \in Seq(SetCalls)
  BY DEF SettingsInv, SettingsTypes
<1>5. PICK t : t = Settings!Calls(Resettable, Default)
  OBVIOUS
<1>6. t \in Seq(SetCalls) /\ t \in Seq(Events) /\ \A i \in DOMAIN t : t[i].call # "answer"
  <2>1. t \in Seq(SetCalls)
    BY <1>1, <1>5, CallsPosted
  <2>2. \A i \in DOMAIN t : t[i] \in SetCalls
    BY <2>1
  <2>3. t \in Seq(Events)
    BY <2>1 DEF Events
  <2>. QED
    BY <2>1, <2>2, <2>3 DEF SetCalls
<1>7. /\ \A k \in Settings!Differing(Resettable, Default) : Ends(t, k, Default[k])
      /\ \A k : k \notin Settings!Differing(Resettable, Default) => Quiet(t, k)
  BY <1>1, <1>5, CallsPosted
<1>8. /\ x \in Seq(Events) /\ \A i \in DOMAIN x : x[i].call = "doSync"
      /\ \A k : Quiet(x, k)
  BY SyncSeq
<1>9. /\ t \o x \in Seq(Events) /\ \A i \in DOMAIN (t \o x) : (t \o x)[i].call # "answer"
      /\ \A k \in Settings!Differing(Resettable, Default) : Ends(t \o x, k, Default[k])
      /\ \A k : k \notin Settings!Differing(Resettable, Default) => Quiet(t \o x, k)
  <2>1. t \o x \in Seq(Events)
    BY <1>6, <1>8
  <2>2. \A i \in DOMAIN (t \o x) : (t \o x)[i].call # "answer"
    BY <1>6, <1>8, JoinedSeq
  <2>3. \A k : Quiet(t, k) => Quiet(t \o x, k)
    BY <1>6, <1>8, QuietJoined
  <2>4. \A k, v : Ends(t, k, v) => Ends(t \o x, k, v)
    BY <1>6, <1>8, QuietJoined
  <2>. QED
    BY <1>7, <2>1, <2>2, <2>3, <2>4
<1>10. \A k, w : Reports(k, w) => Reports(k, w)'
  BY <1>3 DEF Reports
<1>. QED
  BY <1>1, <1>2, <1>3, <1>4, <1>5, <1>9, <1>10, ChangesPosted

LEMMA OnOptionChangedStep ==
    ASSUME Settings!DSettingsAssumption, SettingsInv, Settings!OnOptionChanged
    PROVE  SettingsInv'
<1>1. PICK c : c = Head(reported)
  OBVIOUS
<1>2. PICK new : new = [x \in {c.key} |-> c.value]
  OBVIOUS
<1>3. /\ ~syncing /\ reported # <<>> /\ reported' = Tail(reported)
      /\ Settings!SetOptions({c.key}, new)
      /\ Settings!PostTo(backend, Settings!Calls({c.key}, new))
      /\ UNCHANGED <<backend, threads, store, syncing>>
  BY <1>1, <1>2 DEF Settings!OnOptionChanged
<1>4. reported \in Seq(SetCalls)
  BY DEF SettingsInv, SettingsTypes
<1>5. c \in SetCalls /\ Tail(reported) \in Seq(SetCalls)
  BY <1>1, <1>3, <1>4, TailSeq
<1>6. c.key \in Options /\ c.value \in OptionValues
  BY <1>5 DEF SetCalls
<1>7. {c.key} \in SUBSET Options /\ \A x \in {c.key} : new[x] \in OptionValues
  BY <1>2, <1>6
<1>8. PICK t : t = Settings!Calls({c.key}, new)
  OBVIOUS
<1>9. t \in Seq(SetCalls) /\ t \in Seq(Events) /\ \A i \in DOMAIN t : t[i].call # "answer"
  <2>1. t \in Seq(SetCalls)
    BY <1>7, <1>8, CallsPosted
  <2>2. \A i \in DOMAIN t : t[i] \in SetCalls
    BY <2>1
  <2>3. t \in Seq(Events)
    BY <2>1 DEF Events
  <2>. QED
    BY <2>1, <2>2, <2>3 DEF SetCalls
<1>10. /\ \A k \in Settings!Differing({c.key}, new) : Ends(t, k, new[k])
       /\ \A k : k \notin Settings!Differing({c.key}, new) => Quiet(t, k)
  BY <1>7, <1>8, CallsPosted
<1>11. ASSUME NEW k, NEW v, k \notin Settings!Differing({c.key}, new), v # Settings!Shown(k),
              Reports(k, v)
       PROVE  Reports(k, v)'
  <2>1. PICK i \in DOMAIN reported : reported[i] = Settings!SetCall(k, v)
    BY <1>11 DEF Reports
  <2>2. i # 1
    <3>1. SUFFICES ASSUME i = 1 PROVE FALSE
      OBVIOUS
    <3>2. c.key = k /\ c.value = v
      BY <1>1, <1>3, <1>4, <2>1, <3>1, TailSeq DEF Settings!SetCall
    <3>. QED
      BY <1>2, <1>11, <3>2 DEF Settings!Differing
  <2>3. i - 1 \in DOMAIN Tail(reported) /\ Tail(reported)[i - 1] = reported[i]
    BY <1>3, <1>4, <2>2, TailSeq
  <2>. QED
    BY <1>3, <2>1, <2>3 DEF Reports, Settings!SetCall
<1>. QED
  BY <1>3, <1>5, <1>7, <1>8, <1>9, <1>10, <1>11, ChangesPosted

LEMMA SetBackendStep ==
    ASSUME Settings!DSettingsAssumption, SettingsInv,
           NEW b \in Backends, Settings!SetBackend(b)
    PROVE  SettingsInv'
<1>1. SettingsTypes'
  BY DEF SettingsInv, SettingsTypes, Settings!SetBackend
<1>2. AllAgreed'
  BY DEF AllAgreed, Settings!SetBackend
<1>3. OneAnswer'
  BY NoAnswer DEF OneAnswer, Settings!SetBackend
<1>. QED
  BY <1>1, <1>2, <1>3 DEF SettingsInv

LEMMA RestartStep ==
    ASSUME Settings!DSettingsAssumption, SettingsInv, Settings!Restart
    PROVE  SettingsInv'
<1>1. posted' = [b \in Backends |-> <<>>]
  BY DEF Settings!Restart
<1>2. SettingsTypes'
  BY <1>1 DEF SettingsInv, SettingsTypes, Settings!Restart
<1>3. AllAgreed'
  BY DEF AllAgreed, Settings!Restart
<1>4. OneAnswer'
  BY <1>1 DEF OneAnswer
<1>. QED
  BY <1>2, <1>3, <1>4 DEF SettingsInv

LEMMA SyncStep ==
    ASSUME Settings!DSettingsAssumption, SettingsInv, Settings!Sync
    PROVE  SettingsInv'
<1>1. PICK a : a = [call |-> "answer"]
  OBVIOUS
<1>2. PICK t : t = <<a>>
  OBVIOUS
<1>3. a \in Events /\ a.call = "answer"
  BY <1>1 DEF Events, Others
<1>4. t \in Seq(Events) /\ DOMAIN t = {1} /\ t[1] = a /\ Len(t) = 1
  BY <1>2, <1>3
<1>5. \A k : Quiet(t, k)
  BY <1>3, <1>4 DEF Quiet, Sets
<1>6. /\ ~syncing /\ backend # None /\ syncing' = TRUE
      /\ Settings!PostTo(backend, t)
      /\ UNCHANGED <<option, backend, threads, store, reported, touched>>
  BY <1>1, <1>2 DEF Settings!Sync, Settings!Free
<1>7. SettingsTypes /\ AllAgreed /\ backend \in Backends
  BY <1>6 DEF SettingsInv, SettingsTypes
<1>8. PICK s : s = posted[backend]
  OBVIOUS
<1>9. s \in Seq(Events) /\ s \o t \in Seq(Events)
  BY <1>4, <1>7, <1>8 DEF SettingsTypes, Events
<1>10. posted' = [posted EXCEPT ![backend] = s \o t]
  BY <1>6, <1>8 DEF Settings!PostTo
<1>11. \A b \in Backends : posted'[b] = IF b = backend THEN s \o t ELSE posted[b]
  BY <1>7, <1>10 DEF SettingsTypes
<1>12. SettingsTypes'
  BY <1>6, <1>7, <1>9, <1>10 DEF SettingsTypes, Events
<1>13. \A k : Settings!Shown(k)' = Settings!Shown(k) /\ \A v : Reports(k, v)' = Reports(k, v)
  BY <1>6 DEF Settings!Shown, Reports
<1>14. ASSUME NEW k \in touched
       PROVE  Agreed(k)'
  <2>1. Agreed(k)
    BY <1>6, <1>7, <1>14 DEF AllAgreed
  <2>2. /\ Quiet(s, k) => Quiet(s \o t, k)
        /\ \A v : Ends(s, k, v) => Ends(s \o t, k, v)
    BY <1>4, <1>5, <1>9, QuietJoined
  <2>3. posted'[backend] = s \o t
    BY <1>7, <1>11
  <2>. QED
    BY <1>6, <1>8, <1>13, <2>1, <2>2, <2>3 DEF Agreed
<1>15. OneAnswer'
  <2>1. \A i \in DOMAIN s : s[i].call # "answer"
    BY <1>6, <1>7, <1>8, NoAnswer
  <2>2. \A i \in DOMAIN (s \o t) : (s \o t)[i].call = "answer" => i = Len(s) + 1
    BY <1>4, <1>9, <2>1, JoinedSeq
  <2>3. Len(s) \in Nat /\ DOMAIN (s \o t) = 1..(Len(s) + 1)
    <3>1. Len(s) \in Nat
      BY <1>9
    <3>2. DOMAIN (s \o t) = 1..(Len(s) + Len(t))
      BY <1>4, <1>9, JoinedSeq
    <3>. QED
      BY <1>4, <3>1, <3>2
  <2>4. ASSUME NEW b \in Backends, NEW i \in DOMAIN posted'[b], posted'[b][i].call = "answer"
        PROVE  /\ b = backend
               /\ \A j \in DOMAIN posted'[b] : posted'[b][j].call = "answer" => j = i
               /\ \A j \in DOMAIN posted'[b] : ~(j > i)
    <3>1. b = backend
      BY <1>6, <1>11, <2>4, NoAnswer
    <3>2. posted'[b] = s \o t
      BY <1>11, <3>1
    <3>. QED
      BY <2>2, <2>3, <2>4, <3>1, <3>2
  <2>. QED
    BY <1>6, <2>4 DEF OneAnswer
<1>. QED
  BY <1>6, <1>12, <1>14, <1>15 DEF SettingsInv, AllAgreed

LEMMA OutsideStep ==
    ASSUME Settings!DSettingsAssumption, SettingsInv,
           NEW b \in Backends, NEW k \in Options, NEW v \in OptionValues, Settings!Outside(b, k, v)
    PROVE  SettingsInv'
<1>1. SettingsTypes /\ AllAgreed /\ OneAnswer
  BY DEF SettingsInv
<1>2. PICK c : c = Settings!SetCall(k, v)
  OBVIOUS
<1>3. c \in SetCalls
  BY <1>2 DEF Settings!SetCall, SetCalls
<1>4. /\ b \in Reporting
      /\ store' = [store EXCEPT ![b][k] = v]
      /\ reported' = IF b \in threads THEN Append(reported, c) ELSE reported
      /\ UNCHANGED <<option, backend, threads, posted, syncing, touched>>
  BY <1>2 DEF Settings!Outside
<1>5. reported' \in Seq(SetCalls)
  BY <1>1, <1>3, <1>4 DEF SettingsTypes
<1>6. store' \in [Backends -> [Options -> OptionValues \cup {None}]]
  BY <1>1, <1>4 DEF SettingsTypes
<1>7. SettingsTypes'
  BY <1>1, <1>4, <1>5, <1>6 DEF SettingsTypes
<1>8. OneAnswer'
  BY <1>1, <1>4 DEF OneAnswer
<1>9. \A x \in Backends, y \in Options :
         store'[x][y] = IF x = b /\ y = k THEN v ELSE store[x][y]
  BY <1>1, <1>4 DEF SettingsTypes
<1>10. \A y, w : Reports(y, w) => Reports(y, w)'
  <2>1. reported \in Seq(SetCalls)
    BY <1>1 DEF SettingsTypes
  <2>2. DOMAIN reported \subseteq DOMAIN reported' /\ \A i \in DOMAIN reported : reported'[i] = reported[i]
    BY <1>3, <1>4, <2>1
  <2>. QED
    BY <2>2 DEF Reports, Settings!SetCall
<1>11. b \in threads => Reports(k, v)'
  <2>1. reported \in Seq(SetCalls) /\ Len(reported) \in Nat
    BY <1>1 DEF SettingsTypes
  <2>2. b \in threads => Len(reported) + 1 \in DOMAIN reported' /\ reported'[Len(reported) + 1] = c
    BY <1>3, <1>4, <2>1
  <2>. QED
    BY <1>2, <2>2 DEF Reports, Settings!SetCall
<1>12. ASSUME NEW y \in touched, backend # None
       PROVE  Agreed(y)'
  <2>1. Agreed(y) /\ y \in Options /\ backend \in Backends /\ backend \in threads
    BY <1>1, <1>12 DEF AllAgreed, SettingsTypes
  <2>2. Settings!Shown(y)' = Settings!Shown(y) /\ posted' = posted /\ backend' = backend
    BY <1>4 DEF Settings!Shown
  <2>3. CASE backend = b /\ y = k
    <3>1. store'[backend'][y] = v /\ Reports(y, v)'
      BY <1>9, <1>11, <2>1, <2>2, <2>3
    <3>2. Reports(y, store[backend][y])'
      BY <3>1 DEF Reports
    <3>. QED
      BY <1>4, <2>1, <2>2, <2>3, <3>2 DEF Agreed
  <2>4. CASE ~(backend = b /\ y = k)
    <3>1. store'[backend][y] = store[backend][y]
      BY <1>9, <2>1, <2>4
    <3>2. Reports(y, store[backend][y]) => Reports(y, store[backend][y])'
      <4>1. PICK w : w = store[backend][y]
        OBVIOUS
      <4>2. Reports(y, w) => Reports(y, w)'
        BY <1>10
      <4>. QED
        BY <2>2, <3>1, <4>1, <4>2 DEF Reports
    <3>. QED
      BY <2>1, <2>2, <3>1, <3>2 DEF Agreed
  <2>. QED
    BY <2>3, <2>4
<1>. QED
  BY <1>4, <1>7, <1>8, <1>12 DEF SettingsInv, AllAgreed
(* One event of a backend's thread.                                        *)
LEMMA WorkStep ==
    ASSUME Settings!DSettingsAssumption, SettingsInv,
           NEW b \in Backends, Settings!Work(b)
    PROVE  SettingsInv'
<1>1. SettingsTypes /\ AllAgreed /\ OneAnswer
  BY DEF SettingsInv
<1>2. PICK s : s = posted[b]
  OBVIOUS
<1>3. PICK c : c = Head(s)
  OBVIOUS
<1>4. s \in Seq(Events) /\ s # <<>>
  BY <1>1, <1>2 DEF SettingsTypes, Events, Settings!Work
<1>5. Tail(s) \in Seq(Events) /\ c = s[1] /\ c \in Events /\ 1 \in DOMAIN s
  BY <1>3, <1>4, TailSeq
<1>6. PICK x \in {<<>>, <<Settings!SyncCall>>} : posted' = [posted EXCEPT ![b] = Tail(s) \o x]
  <2>1. \/ posted' = [posted EXCEPT ![b] = Tail(s)]
        \/ posted' = [posted EXCEPT ![b] = Append(Tail(s), Settings!SyncCall)]
    BY <1>2 DEF Settings!Work
  <2>2. PICK e : e = Settings!SyncCall
    OBVIOUS
  <2>3. e \in Events
    BY <2>2 DEF Settings!SyncCall, Events, Others
  <2>4. Tail(s) = Tail(s) \o <<>> /\ Append(Tail(s), e) = Tail(s) \o <<e>>
    BY <1>5, <2>3
  <2>. QED
    BY <2>1, <2>2, <2>4
<1>7. PICK p : p = Tail(s) \o x
  OBVIOUS
<1>8. p \in Seq(Events)
  <2>1. x \in Seq(Events)
    BY SyncSeq
  <2>. QED
    BY <1>5, <1>7, <2>1
<1>9. \A d \in Backends : posted'[d] = IF d = b THEN p ELSE posted[d]
  BY <1>1, <1>6, <1>7 DEF SettingsTypes
<1>10. UNCHANGED <<option, backend, threads, touched>>
  BY DEF Settings!Work
<1>11. \/ c.call = "doSetOption" /\ Settings!DoSetOption(b, c)
       \/ c.call \in {"doSync", "answer"} /\ Settings!DoSync(b, c)
  BY <1>2, <1>3 DEF Settings!Work
<1>12. c.call = "doSetOption" => c \in SetCalls /\ c.key \in Options /\ c.value \in OptionValues
  BY <1>5 DEF Events, SetCalls, Others
<1>13. /\ syncing' = (syncing /\ c.call # "answer")
       /\ \/ reported' = reported
          \/ c \in SetCalls /\ reported' = Append(reported, c)
  <2>1. CASE c.call = "doSetOption" /\ Settings!DoSetOption(b, c)
    <3>1. syncing' = syncing /\ (reported' = reported \/ reported' = Append(reported, c))
      BY <2>1 DEF Settings!DoSetOption
    <3>. QED
      BY <1>1, <1>12, <2>1, <3>1 DEF SettingsTypes
  <2>2. CASE c.call \in {"doSync", "answer"} /\ Settings!DoSync(b, c)
    BY <2>2 DEF Settings!DoSync
  <2>. QED
    BY <1>11, <2>1, <2>2
<1>14. /\ store' \in [Backends -> [Options -> OptionValues \cup {None}]]
       /\ \A d \in Backends, k \in Options :
             store'[d][k] = IF d = b /\ Sets(c, k) THEN c.value ELSE store[d][k]
  <2>1. CASE c.call = "doSetOption"
    <3>1. \/ store' = store /\ c.value = store[b][c.key]
          \/ store' = [store EXCEPT ![b][c.key] = c.value]
      BY <1>11, <2>1 DEF Settings!DoSetOption
    <3>2. CASE store' = store /\ c.value = store[b][c.key]
      BY <1>1, <2>1, <3>2 DEF Sets, SettingsTypes
    <3>3. CASE store' = [store EXCEPT ![b][c.key] = c.value]
      <4>1. store' \in [Backends -> [Options -> OptionValues \cup {None}]]
        BY <1>1, <1>12, <2>1, <3>3 DEF SettingsTypes
      <4>2. \A d \in Backends, k \in Options :
               store'[d][k] = IF d = b /\ k = c.key THEN c.value ELSE store[d][k]
        BY <1>1, <1>12, <2>1, <3>3 DEF SettingsTypes
      <4>. QED
        BY <2>1, <4>1, <4>2 DEF Sets
    <3>. QED
      BY <3>1, <3>2, <3>3
  <2>2. CASE c.call # "doSetOption"
    <3>1. store' = store
      BY <1>11, <2>2 DEF Settings!DoSync
    <3>. QED
      BY <1>1, <2>2, <3>1 DEF Sets, SettingsTypes
  <2>. QED
    BY <2>1, <2>2
<1>15. reported' \in Seq(SetCalls) /\ \A k, v : Reports(k, v) => Reports(k, v)'
  <2>1. reported \in Seq(SetCalls)
    BY <1>1 DEF SettingsTypes
  <2>2. /\ reported' \in Seq(SetCalls)
        /\ DOMAIN reported \subseteq DOMAIN reported'
        /\ \A i \in DOMAIN reported : reported'[i] = reported[i]
    BY <1>13, <2>1
  <2>. QED
    BY <2>2 DEF Reports, Settings!SetCall
<1>16. SettingsTypes'
  <2>1. posted' \in [Backends -> Seq(Events)]
    BY <1>1, <1>6, <1>7, <1>8 DEF SettingsTypes, Events
  <2>. QED
    BY <1>1, <1>10, <1>13, <1>14, <1>15, <2>1 DEF SettingsTypes, Events
<1>17. \A k : /\ Quiet(Tail(s), k) => Quiet(p, k)
              /\ \A v : Ends(Tail(s), k, v) => Ends(p, k, v)
  BY <1>5, <1>7, SyncSeq, QuietJoined
<1>18. ASSUME NEW k \in touched, backend # None
       PROVE  Agreed(k)'
  <2>1. Agreed(k) /\ k \in Options /\ backend \in Backends
    BY <1>1, <1>18 DEF AllAgreed, SettingsTypes
  <2>2. PICK v : v = Settings!Shown(k)
    OBVIOUS
  <2>3. Settings!Shown(k)' = v /\ backend' = backend
    BY <1>10, <2>2 DEF Settings!Shown
  <2>4. CASE backend # b
    <3>1. posted'[backend] = posted[backend] /\ store'[backend][k] = store[backend][k]
      BY <1>9, <1>14, <2>1, <2>4
    <3>2. Reports(k, store[backend][k]) => Reports(k, store[backend][k])'
      <4>1. PICK w : w = store[backend][k]
        OBVIOUS
      <4>2. Reports(k, w) => Reports(k, w)'
        BY <1>15
      <4>. QED
        BY <2>3, <3>1, <4>1, <4>2 DEF Reports
    <3>. QED
      BY <2>1, <2>2, <2>3, <3>1, <3>2 DEF Agreed
  <2>5. CASE backend = b
    <3>1. posted'[backend'] = p
      BY <1>9, <2>3, <2>5
    <3>2. CASE Ends(s, k, v)
      <4>1. \/ Ends(Tail(s), k, v)
            \/ Quiet(Tail(s), k) /\ Sets(c, k) /\ c.value = v
        BY <1>3, <1>4, <3>2, TailOf
      <4>2. CASE Ends(Tail(s), k, v)
        BY <1>17, <2>3, <3>1, <4>2 DEF Agreed
      <4>3. CASE Quiet(Tail(s), k) /\ Sets(c, k) /\ c.value = v
        <5>1. Quiet(p, k) /\ store'[backend'][k] = v
          BY <1>14, <1>17, <2>1, <2>3, <2>5, <4>3
        <5>. QED
          BY <2>3, <3>1, <5>1 DEF Agreed
      <4>. QED
        BY <4>1, <4>2, <4>3
    <3>3. CASE ~Ends(s, k, v)
      <4>1. /\ Quiet(s, k)
            /\ \/ store[backend][k] = v
               \/ backend \in Reporting /\ Reports(k, store[backend][k])
        BY <1>2, <2>1, <2>2, <2>5, <3>3 DEF Agreed
      <4>2. Quiet(p, k) /\ ~Sets(c, k)
        <5>1. Quiet(Tail(s), k)
          BY <1>4, <4>1, TailOf
        <5>. QED
          BY <1>5, <1>17, <4>1, <5>1 DEF Quiet
      <4>3. store'[backend][k] = store[backend][k]
        BY <1>14, <2>1, <4>2
      <4>4. Reports(k, store[backend][k]) => Reports(k, store[backend][k])'
        <5>1. PICK w : w = store[backend][k]
          OBVIOUS
        <5>2. Reports(k, w) => Reports(k, w)'
          BY <1>15
        <5>. QED
          BY <2>3, <4>3, <5>1, <5>2 DEF Reports
      <4>. QED
        BY <2>3, <3>1, <4>1, <4>2, <4>3, <4>4 DEF Agreed
    <3>. QED
      BY <3>2, <3>3
  <2>. QED
    BY <2>4, <2>5
<1>19. OneAnswer'
  <2>1. ASSUME NEW i \in DOMAIN p, p[i].call = "answer"
        PROVE  i \in DOMAIN Tail(s) /\ p[i] = Tail(s)[i]
    BY <1>5, <1>7, <2>1, SyncSeq, JoinedSeq
  <2>2. ASSUME NEW j \in DOMAIN p, p[j].call = "doSetOption"
        PROVE  j \in DOMAIN Tail(s) /\ p[j] = Tail(s)[j]
    BY <1>5, <1>7, <2>2, SyncSeq, JoinedSeq
  <2>3. \A j \in DOMAIN Tail(s) : j \in Nat /\ j + 1 \in DOMAIN s /\ Tail(s)[j] = s[j + 1]
    BY <1>4, TailSeq
  <2>4. ASSUME NEW i \in DOMAIN p, p[i].call = "answer"
        PROVE  /\ syncing' /\ b = backend
               /\ \A j \in DOMAIN p : p[j].call = "answer" => j = i
               /\ \A j \in DOMAIN p : j > i => p[j].call # "doSetOption"
    <3>1. i \in Nat /\ i + 1 \in DOMAIN s /\ s[i + 1].call = "answer"
      BY <2>1, <2>3, <2>4
    <3>2. /\ syncing /\ b = backend
          /\ \A j \in DOMAIN s : s[j].call = "answer" => j = i + 1
          /\ \A j \in DOMAIN s : j > i + 1 => s[j].call # "doSetOption"
      BY <1>1, <1>2, <3>1 DEF OneAnswer
    <3>3. i # 0
      BY <2>4, <1>8
    <3>4. c.call # "answer"
      BY <1>5, <3>1, <3>2, <3>3
    <3>5. ASSUME NEW j \in DOMAIN p, p[j].call = "answer"
          PROVE  j = i
      <4>1. j \in Nat /\ j + 1 \in DOMAIN s /\ s[j + 1].call = "answer"
        BY <2>1, <2>3, <3>5
      <4>2. j + 1 = i + 1
        BY <3>2, <4>1
      <4>. QED
        BY <3>1, <4>1, <4>2
    <3>6. ASSUME NEW j \in DOMAIN p, j > i
          PROVE  p[j].call # "doSetOption"
      <4>1. SUFFICES ASSUME p[j].call = "doSetOption" PROVE FALSE
        OBVIOUS
      <4>2. j \in Nat /\ j + 1 \in DOMAIN s /\ s[j + 1].call = "doSetOption"
        BY <2>2, <2>3, <4>1
      <4>3. j + 1 > i + 1
        BY <3>1, <3>6, <4>2
      <4>. QED
        BY <3>2, <4>2, <4>3
    <3>. QED
      BY <1>13, <3>2, <3>4, <3>5, <3>6
  <2>5. ASSUME NEW d \in Backends, d # b, NEW i \in DOMAIN posted[d], posted[d][i].call = "answer"
        PROVE  syncing'
    <3>1. syncing /\ d = backend
      BY <1>1, <2>5 DEF OneAnswer
    <3>2. c.call # "answer"
      BY <1>1, <1>2, <1>5, <2>5, <3>1 DEF OneAnswer
    <3>. QED
      BY <1>13, <3>1, <3>2
  <2>6. ASSUME NEW d \in Backends, NEW i \in DOMAIN posted'[d], posted'[d][i].call = "answer"
        PROVE  /\ syncing' /\ d = backend'
               /\ \A j \in DOMAIN posted'[d] : posted'[d][j].call = "answer" => j = i
               /\ \A j \in DOMAIN posted'[d] : j > i => posted'[d][j].call # "doSetOption"
    <3>1. CASE d = b
      BY <1>9, <1>10, <2>4, <2>6, <3>1
    <3>2. CASE d # b
      <4>1. posted'[d] = posted[d]
        BY <1>9, <3>2
      <4>2. syncing'
        BY <2>5, <2>6, <3>2, <4>1
      <4>. QED
        BY <1>1, <1>10, <2>6, <4>1, <4>2 DEF OneAnswer
    <3>. QED
      BY <3>1, <3>2
  <2>. QED
    BY <2>6 DEF OneAnswer
<1>. QED
  BY <1>10, <1>16, <1>18, <1>19 DEF SettingsInv, AllAgreed

(* When sync returns, nothing was posted after its question.               *)
LEMMA AnswerIsLast ==
    ASSUME Settings!DSettingsAssumption, SettingsInv,
           NEW b \in Backends, Settings!Work(b)
    PROVE  Settings!SyncStores
<1>1. SUFFICES ASSUME syncing, ~syncing', backend \notin Reporting, NEW k \in touched
               PROVE  store'[backend][k] = Settings!Shown(k)
  BY DEF Settings!SyncStores
<1>2. SettingsTypes /\ AllAgreed /\ OneAnswer
  BY DEF SettingsInv
<1>3. PICK s : s = posted[b]
  OBVIOUS
<1>4. s \in Seq(Events) /\ s # <<>>
  BY <1>2, <1>3 DEF SettingsTypes, Events, Settings!Work
<1>5. Head(s) = s[1] /\ 1 \in DOMAIN s /\ \A i \in DOMAIN s : i = 1 \/ i > 1
  <2>1. Head(s) = s[1] /\ 1 \in DOMAIN s
    BY <1>4, TailSeq
  <2>2. DOMAIN s = 1..Len(s) /\ Len(s) \in Nat
    BY <1>4
  <2>. QED
    BY <2>1, <2>2
<1>6. s[1].call = "answer" /\ store' = store
  BY <1>1, <1>3, <1>5 DEF Settings!Work, Settings!DoSetOption, Settings!DoSync
<1>7. b = backend /\ \A j \in DOMAIN s : j > 1 => s[j].call # "doSetOption"
  BY <1>2, <1>3, <1>5, <1>6 DEF OneAnswer
<1>8. \A j \in DOMAIN s : s[j].call # "doSetOption"
  BY <1>5, <1>6, <1>7
<1>9. backend # None
  BY <1>7 DEF Settings!DSettingsAssumption
<1>10. Agreed(k)
  BY <1>2, <1>9 DEF AllAgreed
<1>. QED
  BY <1>1, <1>3, <1>6, <1>7, <1>8, <1>10 DEF Agreed, Ends, Sets

LEMMA AgreedWhenIdle ==
    ASSUME SettingsInv
    PROVE  Settings!StoreAgrees
<1>1. SUFFICES ASSUME Settings!Idle, backend # None, NEW k \in touched
               PROVE  store[backend][k] = Settings!Shown(k)
  BY DEF Settings!StoreAgrees
<1>2. Agreed(k) /\ backend \in Backends
  BY <1>1 DEF SettingsInv, AllAgreed, SettingsTypes
<1>3. \A i \in DOMAIN posted[backend] : posted[backend][i].call # "doSetOption"
  BY <1>1, <1>2 DEF Settings!Idle
<1>4. reported = <<>>
  BY <1>1 DEF Settings!Idle
<1>. QED
  BY <1>2, <1>3, <1>4 DEF Agreed, Ends, Sets, Reports

LEMMA SettingsStarts ==
    ASSUME Settings!Init
    PROVE  SettingsInv
<1>. Settings!DSettingsAssumption
  BY LibraryAssumption
<1>1. posted \in [Backends -> Seq(Events)] /\ reported \in Seq(SetCalls)
  BY DEF Settings!Init
<1>2. SettingsTypes
  BY <1>1 DEF Settings!Init, SettingsTypes, Events
<1>3. AllAgreed /\ OneAnswer
  BY DEF Settings!Init, AllAgreed, OneAnswer
<1>. QED
  BY <1>2, <1>3 DEF SettingsInv

LEMMA SettingsStutter ==
    ASSUME SettingsInv, UNCHANGED Settings!vars
    PROVE  SettingsInv'
BY DEF SettingsInv, SettingsTypes, AllAgreed, OneAnswer, Agreed, Ends, Quiet, Reports,
   Settings!Shown, Settings!vars

LEMMA SettingsStep ==
    ASSUME SettingsInv, Settings!Next
    PROVE  SettingsInv' /\ Settings!SyncStores
<1>. Settings!DSettingsAssumption
  BY LibraryAssumption
<1>1. CASE \E k \in Options, v \in OptionValues : Settings!SetOption(k, v)
  BY <1>1, SetOptionStep DEF Settings!SyncStores, Settings!SetOption, Settings!Free
<1>2. CASE \E k \in Options, v \in OptionValues, b \in Backends : Settings!Outside(b, k, v)
  <2>1. PICK k \in Options, v \in OptionValues, b \in Backends : Settings!Outside(b, k, v)
    BY <1>2
  <2>2. syncing' = syncing
    BY <2>1 DEF Settings!Outside
  <2>. QED
    BY <2>1, <2>2, OutsideStep DEF Settings!SyncStores
<1>3. CASE Settings!Reset
  BY <1>3, ResetStep DEF Settings!SyncStores, Settings!Reset, Settings!Free
<1>4. CASE Settings!Sync
  BY <1>4, SyncStep DEF Settings!SyncStores, Settings!Sync, Settings!Free
<1>5. CASE Settings!OnOptionChanged
  BY <1>5, OnOptionChangedStep DEF Settings!SyncStores, Settings!OnOptionChanged
<1>6. CASE Settings!Restart
  BY <1>6, RestartStep DEF Settings!SyncStores, Settings!Restart
<1>7. CASE \E b \in Backends : Settings!SetBackend(b)
  BY <1>7, SetBackendStep DEF Settings!SyncStores, Settings!SetBackend
<1>8. CASE \E b \in Backends : Settings!Work(b)
  BY <1>8, WorkStep, AnswerIsLast
<1>. QED
  BY <1>1, <1>2, <1>3, <1>4, <1>5, <1>6, <1>7, <1>8 DEF Settings!Next

(* Options changed since the backend was set are stored once both threads  *)
(* have done what was posted to them, and those changed before sync when   *)
(* it returns, whatever others write, report or set in between.            *)
THEOREM StoresAgree == Settings!Spec => StoreAgrees
<1>. Settings!DSettingsAssumption
  BY LibraryAssumption
<1>1. Settings!Init => SettingsInv
  BY SettingsStarts
<1>2. ASSUME SettingsInv, Settings!Next
      PROVE  SettingsInv' /\ Settings!SyncStores
  BY <1>2, SettingsStep
<1>3. SettingsInv /\ UNCHANGED Settings!vars => SettingsInv'
  BY SettingsStutter
<1>4. SettingsInv' => Settings!StoreAgrees'
  BY AgreedWhenIdle, PTL
<1>5. SettingsInv /\ [Settings!Next]_(Settings!vars) =>
         SettingsInv' /\ [Settings!StoreAgrees' /\ Settings!SyncStores]_settingsVars
  BY <1>2, <1>3, <1>4 DEF settingsVars, Settings!vars
<1>. QED
  BY <1>1, <1>5, PTL DEF Settings!Spec, StoreAgrees

-----------------------------------------------------------------------------
(* The places a subset of those of a sequence has when the others are      *)
(* taken out: every number up to its size is the rank of one.              *)
LEMMA Ranks ==
    ASSUME NEW n \in Nat, NEW T \in SUBSET (1 .. n)
    PROVE  /\ Cardinality(T) \in Nat
           /\ \A i \in T : Cardinality({j \in T : j <= i}) \in 1 .. Cardinality(T)
           /\ \A i, k \in T :
                 Cardinality({j \in T : j <= i}) = Cardinality({j \in T : j <= k}) => i = k
           /\ \A r \in 1 .. Cardinality(T) :
                 \E i \in T : Cardinality({j \in T : j <= i}) = r
<1>. DEFINE To(i) == {j \in T : j <= i}
            rank == [i \in T |-> Cardinality(To(i))]
<1>1. IsFiniteSet(T) /\ Cardinality(T) \in Nat
  <2>1. IsFiniteSet(1 .. n)
    BY FS_Interval
  <2>2. IsFiniteSet(T)
    BY <2>1, FS_Subset
  <2>. QED
    BY <2>2, FS_CardinalityType
<1>2. ASSUME NEW i \in T
      PROVE  /\ To(i) \in SUBSET T /\ IsFiniteSet(To(i))
             /\ Cardinality(To(i)) \in 1 .. Cardinality(T)
  <2>1. To(i) \in SUBSET T /\ i \in To(i)
    OBVIOUS
  <2>2. IsFiniteSet(To(i)) /\ Cardinality(To(i)) <= Cardinality(T)
    BY <1>1, <2>1, FS_Subset
  <2>3. Cardinality(To(i)) \in Nat /\ Cardinality(To(i)) # 0
    BY <2>1, <2>2, FS_CardinalityType, FS_EmptySet
  <2>. QED
    BY <1>1, <2>1, <2>2, <2>3
<1>3. ASSUME NEW i \in T, NEW k \in T, i < k
      PROVE  Cardinality(To(i)) < Cardinality(To(k))
  <2>0. i \in Int /\ k \in Int /\ \A j \in T : j \in Int
    OBVIOUS
  <2>1. To(i) \in SUBSET To(k) /\ k \in To(k) /\ k \notin To(i)
    <3>1. \A j \in T : j <= i => j <= k
      BY <1>3, <2>0
    <3>2. k <= k /\ ~(k <= i)
      BY <1>3, <2>0
    <3>. QED
      BY <3>1, <3>2
  <2>2. /\ Cardinality(To(i)) <= Cardinality(To(k))
        /\ Cardinality(To(k)) = Cardinality(To(i)) => To(k) = To(i)
    BY <2>1, <1>2, FS_Subset
  <2>3. Cardinality(To(k)) # Cardinality(To(i))
    BY <2>1, <2>2
  <2>. QED
    BY <1>2, <2>2, <2>3
<1>4. \A i, k \in T : Cardinality(To(i)) = Cardinality(To(k)) => i = k
  <2>1. SUFFICES ASSUME NEW i \in T, NEW k \in T, Cardinality(To(i)) = Cardinality(To(k))
                 PROVE  i = k
    OBVIOUS
  <2>2. i \in Int /\ k \in Int
    OBVIOUS
  <2>3. ~(i < k) /\ ~(k < i)
    BY <2>1, <1>2, <1>3
  <2>. QED
    BY <2>2, <2>3
<1>5. rank \in Injection(T, 1 .. Cardinality(T))
  <2>1. rank \in [T -> 1 .. Cardinality(T)]
    BY <1>2
  <2>2. \A i, k \in T : rank[i] = rank[k] => i = k
    BY <1>4
  <2>. QED
    BY <2>1, <2>2 DEF Injection, IsInjective
<1>6. IsFiniteSet(1 .. Cardinality(T)) /\ Cardinality(1 .. Cardinality(T)) = Cardinality(T)
  BY <1>1, FS_Interval
<1>7. rank \in Surjection(T, 1 .. Cardinality(T))
  BY <1>5, <1>6, FS_Injection
<1>8. \A r \in 1 .. Cardinality(T) : \E i \in T : rank[i] = r
  BY <1>7 DEF Surjection
<1>9. \A r \in 1 .. Cardinality(T) : \E i \in T : Cardinality(To(i)) = r
  BY <1>8
<1>. QED
  BY <1>1, <1>2, <1>4, <1>9

-----------------------------------------------------------------------------
(* DRecentManager.                                                         *)
Bookmarks == {b \in [file : Recent, count : [Apps -> Nat]] : \E a \in Apps : b.count[a] > 0}
Docs == {d \in Seq(Bookmarks) : \A i, j \in 1 .. Len(d) : d[i].file = d[j].file => i = j}

(* What a list without repetitions says of the files, place by place.      *)
LEMMA CountsAre ==
    ASSUME NEW d \in Docs, NEW c \in [Recent -> [Apps -> Nat]],
           \A i \in 1 .. Len(d) : c[d[i].file] = d[i].count,
           \A f \in Recent : (\A i \in 1 .. Len(d) : d[i].file # f) => c[f] = [a \in Apps |-> 0]
    PROVE  Recently!CountsIn(d) = c
<1>1. /\ DOMAIN d = 1 .. Len(d)
      /\ \A i \in 1 .. Len(d) : d[i].file \in Recent /\ d[i].count \in [Apps -> Nat]
  <2>1. d \in Seq(Bookmarks)
    BY DEF Docs
  <2>2. DOMAIN d = 1 .. Len(d) /\ \A i \in 1 .. Len(d) : d[i] \in Bookmarks
    BY <2>1, LenProperties, ElementOfSeq
  <2>. QED
    BY <2>2 DEF Bookmarks
<1>2. ASSUME NEW f \in Recent
      PROVE  c[f] = [a \in Apps |-> IF Recently!At(d, f) = {} THEN 0
                        ELSE d[CHOOSE i \in Recently!At(d, f) : TRUE].count[a]]
  <2>1. CASE Recently!At(d, f) = {}
    <3>1. \A i \in 1 .. Len(d) : d[i].file # f
      BY <1>1, <2>1 DEF Recently!At
    <3>. QED
      BY <2>1, <3>1
  <2>2. CASE Recently!At(d, f) # {}
    <3>1. PICK i : i = CHOOSE j \in Recently!At(d, f) : TRUE
      OBVIOUS
    <3>2. i \in 1 .. Len(d) /\ d[i].file = f
      BY <1>1, <2>2, <3>1 DEF Recently!At
    <3>3. c[f] = d[i].count /\ d[i].count \in [Apps -> Nat]
      BY <1>1, <3>2
    <3>. QED
      BY <2>2, <3>1, <3>3
  <2>. QED
    BY <2>1, <2>2
<1>3. c = [f \in Recent |-> c[f]]
  OBVIOUS
<1>. QED
  BY <1>2, <1>3 DEF Recently!CountsIn

LEMMA CountsOf ==
    ASSUME NEW d \in Docs
    PROVE  /\ Recently!CountsIn(d) \in [Recent -> [Apps -> Nat]]
           /\ \A i \in 1 .. Len(d) : Recently!CountsIn(d)[d[i].file] = d[i].count
           /\ \A f \in Recent : (\A i \in 1 .. Len(d) : d[i].file # f) =>
                 Recently!CountsIn(d)[f] = [a \in Apps |-> 0]
<1>1. /\ DOMAIN d = 1 .. Len(d)
      /\ \A i \in 1 .. Len(d) : d[i].file \in Recent /\ d[i].count \in [Apps -> Nat]
  <2>1. d \in Seq(Bookmarks)
    BY DEF Docs
  <2>2. DOMAIN d = 1 .. Len(d) /\ \A i \in 1 .. Len(d) : d[i] \in Bookmarks
    BY <2>1, LenProperties, ElementOfSeq
  <2>. QED
    BY <2>2 DEF Bookmarks
<1>. DEFINE Of1(f) == [a \in Apps |-> IF Recently!At(d, f) = {} THEN 0
                        ELSE d[CHOOSE i \in Recently!At(d, f) : TRUE].count[a]]
<1>2. Recently!CountsIn(d) = [f \in Recent |-> Of1(f)]
  BY DEF Recently!CountsIn
<1>3. ASSUME NEW i \in 1 .. Len(d)
      PROVE  Of1(d[i].file) = d[i].count
  <2>1. Recently!At(d, d[i].file) = {i}
    BY <1>1 DEF Recently!At, Docs
  <2>2. (CHOOSE j \in Recently!At(d, d[i].file) : TRUE) = i
    BY <2>1
  <2>3. Of1(d[i].file) = [a \in Apps |-> d[i].count[a]]
    BY <2>1, <2>2
  <2>. QED
    BY <1>1, <2>3
<1>4. ASSUME NEW f \in Recent, \A i \in 1 .. Len(d) : d[i].file # f
      PROVE  Of1(f) = [a \in Apps |-> 0]
  <2>1. Recently!At(d, f) = {}
    BY <1>1, <1>4 DEF Recently!At
  <2>. QED
    BY <2>1
<1>5. ASSUME NEW f \in Recent
      PROVE  Of1(f) \in [Apps -> Nat]
  <2>1. CASE \E i \in 1 .. Len(d) : d[i].file = f
    <3>1. PICK i \in 1 .. Len(d) : d[i].file = f
      BY <2>1
    <3>2. Of1(f) = d[i].count
      BY <1>3, <3>1
    <3>. QED
      BY <1>1, <3>2
  <2>2. CASE \A i \in 1 .. Len(d) : d[i].file # f
    BY <1>4, <2>2
  <2>. QED
    BY <2>1, <2>2
<1>. HIDE DEF Of1
<1>6. /\ Recently!CountsIn(d) \in [Recent -> [Apps -> Nat]]
      /\ \A f \in Recent : Recently!CountsIn(d)[f] = Of1(f)
  BY <1>2, <1>5
<1>. QED
  BY <1>1, <1>3, <1>4, <1>6

LEMMA WithItemIs ==
    ASSUME NEW d \in Docs, NEW f \in Recent, NEW a \in Apps
    PROVE  LET e == Recently!WithItem(d, f, a)
               c == Recently!CountsIn(d)
           IN  /\ e \in Docs
               /\ Recently!CountsIn(e) = [c EXCEPT ![f] = [c[f] EXCEPT ![a] = c[f][a] + 1]]
<1>. DEFINE b == [file |-> f, count |-> [x \in Apps |-> IF a = x THEN 1 ELSE 0]]
<1>0. /\ DOMAIN d = 1 .. Len(d) /\ Len(d) \in Nat /\ d \in Seq(Bookmarks)
      /\ \A i \in 1 .. Len(d) : d[i] \in Bookmarks
      /\ \A i, j \in 1 .. Len(d) : d[i].file = d[j].file => i = j
  BY LenProperties, ElementOfSeq DEF Docs
<1>1. PICK c \in [Recent -> [Apps -> Nat]] :
          /\ c = Recently!CountsIn(d)
          /\ \A i \in 1 .. Len(d) : c[d[i].file] = d[i].count
          /\ \A g \in Recent : (\A i \in 1 .. Len(d) : d[i].file # g) => c[g] = [x \in Apps |-> 0]
  BY CountsOf
<1>2. PICK new : new = [c[f] EXCEPT ![a] = c[f][a] + 1]
  OBVIOUS
<1>3. new \in [Apps -> Nat]
  BY <1>2
<1>4. PICK k : k = [c EXCEPT ![f] = new]
  OBVIOUS
<1>5. k \in [Recent -> [Apps -> Nat]] /\ k[f] = new /\ \A g \in Recent \ {f} : k[g] = c[g]
  BY <1>3, <1>4
<1>6. CASE Recently!At(d, f) = {}
  <2>1. Recently!WithItem(d, f, a) = Append(d, b)
    BY <1>6 DEF Recently!WithItem, Recently!Bookmark
  <2>2. \A i \in 1 .. Len(d) : d[i].file # f
    BY <1>0, <1>6 DEF Recently!At
  <2>3. b \in Bookmarks /\ b.file = f /\ b.count = new
    <3>1. c[f] = [x \in Apps |-> 0]
      BY <1>1, <2>2
    <3>2. new = [x \in Apps |-> IF a = x THEN 1 ELSE 0]
      BY <1>2, <3>1
    <3>. QED
      BY <3>2 DEF Bookmarks
  <2>. HIDE DEF b
  <2>4. PICK e : e = Append(d, b)
    OBVIOUS
  <2>5. /\ e \in Seq(Bookmarks) /\ Len(e) = Len(d) + 1
        /\ \A i \in 1 .. Len(d) : e[i] = d[i]
        /\ e[Len(d) + 1] = b
    BY <1>0, <2>3, <2>4, AppendProperties
  <2>6. e \in Docs
    <3>1. ASSUME NEW i \in 1 .. Len(e), NEW j \in 1 .. Len(e), e[i].file = e[j].file
          PROVE  i = j
      <4>1. CASE i <= Len(d) /\ j <= Len(d)
        BY <1>0, <2>5, <3>1, <4>1
      <4>2. CASE i <= Len(d) /\ j = Len(d) + 1
        BY <1>0, <2>2, <2>3, <2>5, <3>1, <4>2
      <4>3. CASE i = Len(d) + 1 /\ j <= Len(d)
        BY <1>0, <2>2, <2>3, <2>5, <3>1, <4>3
      <4>. QED
        BY <1>0, <2>5, <4>1, <4>2, <4>3
    <3>. QED
      BY <2>5, <3>1 DEF Docs
  <2>7. ASSUME NEW i \in 1 .. Len(e) PROVE k[e[i].file] = e[i].count
    <3>1. CASE i \in 1 .. Len(d)
      <4>1. e[i] = d[i] /\ d[i].file \in Recent \ {f}
        BY <1>0, <2>2, <2>5, <3>1 DEF Bookmarks
      <4>. QED
        BY <4>1, <1>1, <1>5, <3>1
    <3>2. CASE i = Len(d) + 1
      BY <1>5, <2>3, <2>5, <3>2
    <3>. QED
      BY <1>0, <2>5, <3>1, <3>2
  <2>8. ASSUME NEW g \in Recent, \A i \in 1 .. Len(e) : e[i].file # g
        PROVE  k[g] = [x \in Apps |-> 0]
    <3>1. g # f
      BY <1>0, <2>3, <2>5, <2>8
    <3>2. \A i \in 1 .. Len(d) : d[i].file # g
      BY <1>0, <2>5, <2>8
    <3>. QED
      BY <1>1, <1>5, <3>1, <3>2
  <2>9. Recently!CountsIn(e) = k
    BY <1>5, <2>6, <2>7, <2>8, CountsAre
  <2>. QED
    BY <1>1, <1>2, <1>4, <2>1, <2>4, <2>6, <2>9
<1>7. CASE Recently!At(d, f) # {}
  <2>1. PICK i : i = CHOOSE j \in Recently!At(d, f) : \A m \in Recently!At(d, f) : j <= m
    OBVIOUS
  <2>2. i \in 1 .. Len(d) /\ d[i].file = f
    <3>1. \E j \in Recently!At(d, f) : \A m \in Recently!At(d, f) : j <= m
      <4>1. Recently!At(d, f) \in SUBSET Nat
        BY <1>0 DEF Recently!At
      <4>. QED
        BY <4>1, <1>7, Smallest
    <3>2. i \in Recently!At(d, f)
      BY <2>1, <3>1
    <3>. QED
      BY <1>0, <3>2 DEF Recently!At
  <2>3. PICK e : e = [d EXCEPT ![i].count[a] = @ + 1]
    OBVIOUS
  <2>4. Recently!WithItem(d, f, a) = e
    BY <1>7, <2>1, <2>3 DEF Recently!WithItem
  <2>5. d[i] \in Bookmarks /\ c[f] = d[i].count
    BY <1>0, <1>1, <2>2
  <2>6. PICK m : m = [d[i] EXCEPT !.count = new]
    OBVIOUS
  <2>7. m \in Bookmarks /\ m.file = f /\ m.count = new
    <3>1. c[f][a] \in Nat /\ new[a] = c[f][a] + 1
      BY <1>2
    <3>2. new[a] > 0
      BY <3>1
    <3>3. m.count = new /\ m.file = f /\ m \in [file : Recent, count : [Apps -> Nat]]
      BY <1>3, <2>2, <2>5, <2>6 DEF Bookmarks
    <3>. QED
      BY <3>2, <3>3 DEF Bookmarks
  <2>8. e = [d EXCEPT ![i] = m]
    <3>1. m = [d[i] EXCEPT !.count = [d[i].count EXCEPT ![a] = d[i].count[a] + 1]]
      BY <1>2, <2>5, <2>6
    <3>2. m = [d[i] EXCEPT !.count[a] = @ + 1]
      BY <3>1, <2>5 DEF Bookmarks
    <3>. QED
      BY <2>3, <3>2, <1>0, <2>2
  <2>9. /\ e \in Seq(Bookmarks) /\ Len(e) = Len(d) /\ e[i] = m
        /\ \A j \in 1 .. Len(d) : j # i => e[j] = d[j]
    BY <1>0, <2>2, <2>7, <2>8, ExceptSeq
  <2>10. \A j \in 1 .. Len(d) : e[j].file = d[j].file
    BY <2>2, <2>7, <2>9
  <2>11. e \in Docs
    BY <1>0, <2>9, <2>10 DEF Docs
  <2>12. ASSUME NEW j \in 1 .. Len(e) PROVE k[e[j].file] = e[j].count
    <3>1. CASE j = i
      BY <1>5, <2>7, <2>9, <3>1
    <3>2. CASE j # i
      <4>1. e[j] = d[j] /\ d[j].file \in Recent \ {f}
        BY <1>0, <2>2, <2>9, <3>2 DEF Bookmarks
      <4>. QED
        BY <1>1, <1>5, <2>9, <4>1
    <3>. QED
      BY <3>1, <3>2
  <2>13. ASSUME NEW g \in Recent, \A j \in 1 .. Len(e) : e[j].file # g
         PROVE  k[g] = [x \in Apps |-> 0]
    <3>1. g # f /\ \A j \in 1 .. Len(d) : d[j].file # g
      BY <2>2, <2>9, <2>10, <2>13
    <3>. QED
      BY <1>1, <1>5, <3>1
  <2>14. Recently!CountsIn(e) = k
    BY <1>5, <2>11, <2>12, <2>13, CountsAre
  <2>. QED
    BY <1>1, <1>2, <1>4, <2>4, <2>11, <2>14
<1>. QED
  BY <1>6, <1>7

LEMMA WithoutItemsIs ==
    ASSUME NEW d \in Docs, NEW fs \in SUBSET Recent
    PROVE  LET e == Recently!WithoutItems(d, fs)
               c == Recently!CountsIn(d)
           IN  /\ e \in Docs
               /\ Recently!CountsIn(e) =
                     [f \in Recent |-> IF f \in fs THEN [a \in Apps |-> 0] ELSE c[f]]
<1>0. /\ DOMAIN d = 1 .. Len(d) /\ Len(d) \in Nat /\ d \in Seq(Bookmarks)
      /\ \A i \in 1 .. Len(d) : d[i] \in Bookmarks
      /\ \A i, j \in 1 .. Len(d) : d[i].file = d[j].file => i = j
  <2>1. /\ d \in Seq(Bookmarks)
        /\ \A i, j \in 1 .. Len(d) : d[i].file = d[j].file => i = j
    BY DEF Docs
  <2>. QED
    BY <2>1, LenProperties, ElementOfSeq
<1>1. PICK c \in [Recent -> [Apps -> Nat]] :
          /\ c = Recently!CountsIn(d)
          /\ \A i \in 1 .. Len(d) : c[d[i].file] = d[i].count
          /\ \A g \in Recent : (\A i \in 1 .. Len(d) : d[i].file # g) => c[g] = [x \in Apps |-> 0]
  BY CountsOf
<1>2. PICK kept \in SUBSET (1 .. Len(d)) : kept = {i \in DOMAIN d : d[i].file \notin fs}
  BY <1>0
<1>3. PICK n \in Nat : n = Recently!Cardinality(kept)
  <2>1. Recently!Cardinality(kept) = Cardinality(kept)
    BY DEF Recently!Cardinality, Cardinality
  <2>. QED
    BY <2>1, <1>0, Ranks
<1>4. PICK rank : rank = [i \in kept |-> Recently!Cardinality({j \in kept : j <= i})]
  OBVIOUS
<1>5. /\ \A i \in kept : rank[i] \in 1 .. n
      /\ \A i, k \in kept : rank[i] = rank[k] => i = k
      /\ \A r \in 1 .. n : \E i \in kept : rank[i] = r
  <2>1. \A T : Recently!Cardinality(T) = Cardinality(T)
    BY DEF Recently!Cardinality, Cardinality
  <2>2. /\ \A i \in kept : rank[i] = Cardinality({j \in kept : j <= i})
        /\ n = Cardinality(kept)
    BY <1>3, <1>4, <2>1
  <2>3. /\ \A i \in kept : Cardinality({j \in kept : j <= i}) \in 1 .. Cardinality(kept)
        /\ \A i, k \in kept :
              Cardinality({j \in kept : j <= i}) = Cardinality({j \in kept : j <= k}) => i = k
        /\ \A r \in 1 .. Cardinality(kept) :
              \E i \in kept : Cardinality({j \in kept : j <= i}) = r
    BY <1>0, Ranks
  <2>. QED
    BY <2>2, <2>3
<1>6. PICK at : at = [r \in 1 .. n |-> CHOOSE i \in kept : rank[i] = r]
  OBVIOUS
<1>7. /\ \A r \in 1 .. n : at[r] \in kept /\ rank[at[r]] = r
      /\ \A i \in kept : at[rank[i]] = i
  BY <1>5, <1>6
<1>8. PICK e : e = [r \in 1 .. n |-> d[at[r]]]
  OBVIOUS
<1>9. Recently!WithoutItems(d, fs) = e
  <2>1. \A r \in 1 .. n :
           at[r] = CHOOSE i \in kept : Recently!Cardinality({j \in kept : j <= i}) = r
    BY <1>4, <1>6
  <2>2. Recently!WithoutItems(d, fs) =
           [r \in 1 .. n |-> d[CHOOSE i \in kept : Recently!Cardinality({j \in kept : j <= i}) = r]]
    BY <1>2, <1>3 DEF Recently!WithoutItems
  <2>. QED
    BY <1>8, <2>1, <2>2
<1>10. e \in Seq(Bookmarks) /\ Len(e) = n /\ \A r \in 1 .. n : e[r] = d[at[r]]
  <2>1. e \in [1 .. n -> Bookmarks]
    BY <1>0, <1>2, <1>7, <1>8
  <2>2. e \in Seq(Bookmarks)
    BY <2>1, SeqDef
  <2>. QED
    BY <1>8, <2>1, <2>2, LenProperties
<1>11. e \in Docs
  <2>1. ASSUME NEW r \in 1 .. n, NEW s \in 1 .. n, e[r].file = e[s].file
        PROVE  r = s
    <3>1. at[r] = at[s]
      BY <1>0, <1>2, <1>7, <1>10, <2>1
    <3>. QED
      BY <1>7, <3>1
  <2>. QED
    BY <1>10, <2>1 DEF Docs
<1>12. PICK k : k = [f \in Recent |-> IF f \in fs THEN [a \in Apps |-> 0] ELSE c[f]]
  OBVIOUS
<1>13. k \in [Recent -> [Apps -> Nat]]
  BY <1>12
<1>14. ASSUME NEW r \in 1 .. Len(e) PROVE k[e[r].file] = e[r].count
  <2>1. e[r] = d[at[r]] /\ at[r] \in 1 .. Len(d) /\ d[at[r]].file \notin fs
    BY <1>2, <1>7, <1>10
  <2>2. d[at[r]].file \in Recent
    BY <1>0, <2>1 DEF Bookmarks
  <2>. QED
    BY <1>1, <1>12, <2>1, <2>2
<1>15. ASSUME NEW g \in Recent, \A r \in 1 .. Len(e) : e[r].file # g
       PROVE  k[g] = [a \in Apps |-> 0]
  <2>1. CASE g \in fs
    BY <1>12, <2>1
  <2>2. CASE g \notin fs
    <3>1. ASSUME NEW i \in 1 .. Len(d), d[i].file = g PROVE FALSE
      <4>1. i \in kept
        BY <1>0, <1>2, <2>2, <3>1
      <4>2. rank[i] \in 1 .. n /\ e[rank[i]] = d[i]
        BY <1>5, <1>7, <1>10, <4>1
      <4>. QED
        BY <1>10, <1>15, <3>1, <4>2
    <3>2. c[g] = [a \in Apps |-> 0]
      BY <1>1, <3>1
    <3>. QED
      BY <1>12, <2>2, <3>2
  <2>. QED
    BY <2>1, <2>2
<1>16. Recently!CountsIn(e) = k
  BY <1>11, <1>13, <1>14, <1>15, CountsAre
<1>. QED
  BY <1>1, <1>9, <1>11, <1>12, <1>16

-----------------------------------------------------------------------------
(* While calls do not overlap what is counted agrees with the list, and    *)
(* what a program is about to write with what its call does to the counts. *)
Calls == [at : {"idle", "changed", "open", "over"}, add : {<<>>} \cup (Recent \X Apps),
          drop : SUBSET Recent, doc : Docs]

RecentTypes ==
    /\ xbel # None => xbel \in Docs
    /\ opened \in [Recent -> [Apps -> Nat]] /\ overlap \in BOOLEAN
    /\ program \in [Programs -> Calls]
Counted ==
    IF xbel = None THEN opened = Recently!Never \/ \E p \in Programs : program[p].at = "open"
    ELSE Recently!CountsIn(xbel) = opened
OneCall ==
    ~overlap => \A p \in Recently!Busy :
        /\ \A q \in Recently!Busy : p = q
        /\ Recently!CountsIn(program[p].doc) = Recently!Effect(opened, program[p])
RecentInv == RecentTypes /\ Counted /\ OneCall

LEMMA NoDocs ==
    /\ None \notin Docs /\ <<>> \in Docs /\ Recently!CountsIn(<<>>) = Recently!Never
    /\ Recently!Idle \in Calls /\ Recently!Idle.at = "idle"
    /\ Recently!Never \in [Recent -> [Apps -> Nat]]
<1>1. None \notin Docs
  <2>1. Bookmarks \subseteq [file : Recent, count : [Apps -> Nat]]
    BY DEF Bookmarks
  <2>2. Docs \subseteq Seq([file : Recent, count : [Apps -> Nat]])
    BY <2>1, SeqMonotonic DEF Docs
  <2>. QED
    BY <2>2, LibraryAssumption DEF Recently!DRecentManagerAssumption
<1>2. <<>> \in Docs
  <2>1. <<>> \in Seq(Bookmarks) /\ Len(<<>>) = 0
    OBVIOUS
  <2>. QED
    BY <2>1 DEF Docs
<1>3. Recently!Never \in [Recent -> [Apps -> Nat]]
  BY DEF Recently!Never
<1>4. Recently!CountsIn(<<>>) = Recently!Never
  BY DEF Recently!CountsIn, Recently!Never, Recently!At
<1>5. Recently!Idle \in Calls /\ Recently!Idle.at = "idle"
  BY <1>2 DEF Recently!Idle, Calls
<1>. QED
  BY <1>1, <1>2, <1>3, <1>4, <1>5

(* A call starts, alone or beside others.                                  *)
LEMMA StartStep ==
    ASSUME RecentInv, NEW p \in Programs, NEW add \in {<<>>} \cup (Recent \X Apps),
           NEW drop \in SUBSET Recent, NEW doc \in Docs,
           Recently!Start(p, "changed", add, drop, doc),
           opened = Recently!CountsIn(IF xbel = None THEN <<>> ELSE xbel) =>
              Recently!CountsIn(doc) =
                 Recently!Effect(opened, [at |-> "changed", add |-> add, drop |-> drop, doc |-> doc])
    PROVE  RecentInv'
<1>. DEFINE call == [at |-> "changed", add |-> add, drop |-> drop, doc |-> doc]
<1>1. /\ program[p].at = "idle" /\ program' = [program EXCEPT ![p] = call]
      /\ overlap' = (overlap \/ Recently!Busy # {}) /\ xbel' = xbel /\ opened' = opened
  BY DEF Recently!Start
<1>2. call \in Calls /\ call.at = "changed" /\ call.doc = doc
  BY DEF Calls
<1>3. RecentTypes /\ Counted /\ OneCall
  BY DEF RecentInv
<1>4. PICK r \in Calls : r = call
  BY <1>2
<1>. HIDE DEF call
<1>5. RecentTypes'
  BY <1>1, <1>3, <1>4 DEF RecentTypes
<1>6. \A q \in Programs : program'[q] = IF q = p THEN r ELSE program[q]
  BY <1>1, <1>3, <1>4 DEF RecentTypes
<1>7. Counted'
  BY <1>1, <1>2, <1>3, <1>4, <1>6 DEF Counted
<1>8. ASSUME ~overlap' PROVE OneCall'
  <2>1. Recently!Busy = {} /\ overlap' = FALSE
    BY <1>1, <1>8, <1>3 DEF RecentTypes
  <2>2. \A q \in Programs : program[q].at = "idle"
    BY <2>1 DEF Recently!Busy
  <2>3. \A q \in Recently!Busy' : q = p
    BY <1>6, <2>2 DEF Recently!Busy
  <2>4. opened = Recently!CountsIn(IF xbel = None THEN <<>> ELSE xbel)
    BY <1>3, <2>2, NoDocs DEF Counted
  <2>5. Recently!CountsIn(doc) = Recently!Effect(opened, r)
    BY <1>4, <2>4 DEF call
  <2>6. program'[p] = r /\ r.doc = doc /\ opened' = opened
    BY <1>1, <1>2, <1>4, <1>6
  <2>7. Recently!CountsIn(program'[p].doc) = Recently!Effect(opened', program'[p])
    BY <2>5, <2>6
  <2>8. ASSUME NEW q \in Recently!Busy'
        PROVE  /\ \A x \in Recently!Busy' : q = x
               /\ Recently!CountsIn(program'[q].doc) = Recently!Effect(opened', program'[q])
    BY <2>3, <2>7
  <2>. QED
    BY <2>8 DEF OneCall
<1>9. OneCall'
  BY <1>8 DEF OneCall
<1>. QED
  BY <1>5, <1>7, <1>9 DEF RecentInv

(* A call ends: of calls that did not overlap it was the only one.         *)
LEMMA CallEndsStep ==
    ASSUME RecentInv, NEW p \in Programs, program[p].at # "idle",
           program'[p] = Recently!Idle,
           \A q \in Programs \ {p} : program'[q].at = "idle" <=> program[q].at = "idle",
           overlap' = (overlap /\ Recently!Busy # {p})
    PROVE  OneCall'
<1>1. RecentTypes /\ OneCall
  BY DEF RecentInv
<1>2. ASSUME ~overlap' PROVE Recently!Busy' = {}
  <2>1. p \in Recently!Busy
    BY DEF Recently!Busy
  <2>2. Recently!Busy = {p}
    BY <1>1, <1>2, <2>1 DEF OneCall
  <2>. QED
    BY <2>2, NoDocs DEF Recently!Busy
<1>. QED
  BY <1>2 DEF OneCall

(* What the others come to be, when one opens or writes the file.          *)
LEMMA OthersFollow ==
    ASSUME RecentTypes, NEW p \in Programs, NEW call \in Calls,
           NEW from, NEW to \in {"open", "over"},
           Recently!Others(p, from, to, [program EXCEPT ![p] = call])
    PROVE  /\ program' \in [Programs -> Calls] /\ program'[p] = call
           /\ \A q \in Programs \ {p} :
                 /\ program'[q].at = IF program[q].at = from THEN to ELSE program[q].at
                 /\ program'[q].doc = program[q].doc
                 /\ program'[q].add = program[q].add /\ program'[q].drop = program[q].drop
<1>1. \A q \in Programs : program[q] \in Calls
  BY DEF RecentTypes
<1>2. PICK rest : rest = [program EXCEPT ![p] = call]
  OBVIOUS
<1>3. \A q \in Programs : rest[q] = IF q = p THEN call ELSE program[q]
  BY <1>2 DEF RecentTypes
<1>4. program' = [q \in Programs |->
                    IF q # p /\ program[q].at = from THEN [program[q] EXCEPT !.at = to] ELSE rest[q]]
  BY <1>2 DEF Recently!Others
<1>5. \A q \in Programs :
         program'[q] = IF q # p /\ program[q].at = from THEN [program[q] EXCEPT !.at = to]
                       ELSE IF q = p THEN call ELSE program[q]
  BY <1>3, <1>4
<1>6. \A q \in Programs :
         /\ [program[q] EXCEPT !.at = to] \in Calls
         /\ [program[q] EXCEPT !.at = to].at = to
         /\ [program[q] EXCEPT !.at = to].doc = program[q].doc
         /\ [program[q] EXCEPT !.at = to].add = program[q].add
         /\ [program[q] EXCEPT !.at = to].drop = program[q].drop
  BY <1>1 DEF Calls
<1>7. \A q \in Programs : program'[q] \in Calls
  BY <1>1, <1>5, <1>6
<1>8. program' \in [Programs -> Calls]
  BY <1>4, <1>7
<1>. QED
  BY <1>5, <1>6, <1>8

LEMMA RecentStep ==
    ASSUME RecentInv, Recently!Next \/ UNCHANGED Recently!recentVars
    PROVE  RecentInv'
<1>0. RecentTypes /\ Counted /\ OneCall
  BY DEF RecentInv
<1>1. ASSUME NEW p \in Programs, NEW f \in Recent, NEW a \in Apps, Recently!ReadToAdd(p, f, a)
      PROVE  RecentInv'
  <2>1. PICK d \in Docs : d = IF xbel = None THEN <<>> ELSE xbel
    BY <1>0, NoDocs DEF RecentTypes
  <2>2. PICK e \in Docs : /\ e = Recently!WithItem(d, f, a)
                          /\ LET c == Recently!CountsIn(d) IN
                             Recently!CountsIn(e) = [c EXCEPT ![f] = [c[f] EXCEPT ![a] = c[f][a] + 1]]
    BY WithItemIs
  <2>3. Recently!Start(p, "changed", <<f, a>>, {}, e)
    BY <1>1, <2>1, <2>2 DEF Recently!ReadToAdd
  <2>4. ASSUME opened = Recently!CountsIn(d)
        PROVE  Recently!CountsIn(e) = Recently!Effect(opened,
                  [at |-> "changed", add |-> <<f, a>>, drop |-> {}, doc |-> e])
    <3>1. PICK o \in [Recent -> [Apps -> Nat]] : o = opened
      BY <1>0 DEF RecentTypes
    <3>2. Recently!CountsIn(e) = [o EXCEPT ![f] = [o[f] EXCEPT ![a] = o[f][a] + 1]]
      BY <2>2, <2>4, <3>1
    <3>3. Recently!CountsIn(e) = [o EXCEPT ![f][a] = @ + 1]
      BY <3>1, <3>2
    <3>4. <<f, a>> # <<>> /\ <<f, a>>[1] = f /\ <<f, a>>[2] = a
      OBVIOUS
    <3>. QED
      BY <3>1, <3>3, <3>4 DEF Recently!Effect
  <2>. QED
    BY <1>0, <2>1, <2>3, <2>4, StartStep
<1>2. ASSUME NEW p \in Programs, NEW fs \in SUBSET Recent, Recently!ReadToRemove(p, fs)
      PROVE  RecentInv'
  <2>1. xbel # None /\ xbel \in Docs
    BY <1>0, <1>2 DEF Recently!ReadToRemove, RecentTypes
  <2>2. PICK e \in Docs : /\ e = Recently!WithoutItems(xbel, fs)
                          /\ Recently!CountsIn(e) = [f \in Recent |->
                                IF f \in fs THEN [a \in Apps |-> 0] ELSE Recently!CountsIn(xbel)[f]]
    BY <2>1, WithoutItemsIs
  <2>3. Recently!Start(p, "changed", <<>>, fs, e)
    BY <1>2, <2>2 DEF Recently!ReadToRemove
  <2>4. ASSUME opened = Recently!CountsIn(xbel)
        PROVE  Recently!CountsIn(e) = Recently!Effect(opened,
                  [at |-> "changed", add |-> <<>>, drop |-> fs, doc |-> e])
    BY <2>2, <2>4 DEF Recently!Effect
  <2>. QED
    BY <1>0, <2>1, <2>3, <2>4, StartStep
<1>3. ASSUME NEW p \in Programs, Recently!Open(p)
      PROVE  RecentInv'
  <2>1. /\ program[p].at = "changed" /\ xbel' = None /\ UNCHANGED <<opened, overlap>>
        /\ Recently!Others(p, "over", "open", [program EXCEPT ![p].at = "open"])
    BY <1>3 DEF Recently!Open
  <2>2. PICK call \in Calls : call = [program[p] EXCEPT !.at = "open"]
    BY <1>0 DEF RecentTypes, Calls
  <2>3. /\ Recently!Others(p, "over", "open", [program EXCEPT ![p] = call]) /\ program[p] \in Calls
    BY <1>0, <2>1, <2>2 DEF RecentTypes
  <2>4. /\ call.at = "open" /\ call.doc = program[p].doc
        /\ call.add = program[p].add /\ call.drop = program[p].drop
    BY <2>2, <2>3 DEF Calls
  <2>5. /\ program' \in [Programs -> Calls] /\ program'[p] = call
        /\ \A q \in Programs \ {p} :
              program'[q].at = IF program[q].at = "over" THEN "open" ELSE program[q].at
    BY <1>0, <2>3, OthersFollow
  <2>6. RecentTypes'
    BY <1>0, <2>1, <2>5 DEF RecentTypes
  <2>7. Counted'
    BY <2>1, <2>4, <2>5 DEF Counted
  <2>8. Recently!Busy' = Recently!Busy
    BY <2>1, <2>4, <2>5 DEF Recently!Busy
  <2>9. ASSUME ~overlap', NEW q \in Recently!Busy'
        PROVE  /\ \A x \in Recently!Busy' : q = x
               /\ Recently!CountsIn(program'[q].doc) = Recently!Effect(opened', program'[q])
    <3>1. /\ q \in Recently!Busy /\ \A x \in Recently!Busy : q = x
          /\ Recently!CountsIn(program[q].doc) = Recently!Effect(opened, program[q])
      BY <1>0, <2>1, <2>8, <2>9 DEF OneCall
    <3>2. p \in Recently!Busy
      BY <2>1 DEF Recently!Busy
    <3>3. q = p
      BY <3>1, <3>2
    <3>4. Recently!Effect(opened, call) = Recently!Effect(opened, program[p])
      BY <2>4 DEF Recently!Effect
    <3>. QED
      BY <2>1, <2>4, <2>5, <2>8, <3>1, <3>3, <3>4
  <2>10. OneCall'
    BY <2>9 DEF OneCall
  <2>. QED
    BY <2>6, <2>7, <2>10 DEF RecentInv
<1>4. ASSUME NEW p \in Programs, Recently!Refused(p)
      PROVE  RecentInv'
  <2>1. /\ program[p].at = "changed" /\ program' = [program EXCEPT ![p] = Recently!Idle]
        /\ overlap' = (overlap /\ Recently!Busy # {p}) /\ UNCHANGED <<xbel, opened>>
    BY <1>4 DEF Recently!Refused
  <2>5. /\ program'[p] = Recently!Idle
        /\ \A q \in Programs \ {p} : program'[q] = program[q]
    BY <1>0, <2>1 DEF RecentTypes
  <2>2. OneCall'
    BY <2>1, <2>5, CallEndsStep
  <2>3. RecentTypes'
    BY <1>0, <2>1, NoDocs DEF RecentTypes
  <2>4. Counted'
    BY <1>0, <2>1, <2>5 DEF Counted
  <2>. QED
    BY <2>2, <2>3, <2>4 DEF RecentInv
<1>5. ASSUME NEW p \in Programs, Recently!Write(p)
      PROVE  RecentInv'
  <2>1. /\ program[p].at # "idle"
        /\ Recently!Others(p, "open", "over", [program EXCEPT ![p] = Recently!Idle])
        /\ overlap' = (overlap /\ Recently!Busy # {p})
        /\ xbel' = program[p].doc \/ xbel' = None
        /\ opened' = IF xbel' = None THEN Recently!Never
                     ELSE IF overlap THEN Recently!CountsIn(xbel') ELSE Recently!Effect(opened, program[p])
    BY <1>5 DEF Recently!Write
  <2>2. program[p].doc \in Docs /\ p \in Recently!Busy
    BY <1>0, <2>1 DEF RecentTypes, Calls, Recently!Busy
  <2>3. xbel' # None => xbel' \in Docs
    BY <2>1, <2>2
  <2>4. opened' = IF xbel' = None THEN Recently!Never ELSE Recently!CountsIn(xbel')
    BY <1>0, <2>1, <2>2 DEF OneCall
  <2>5. opened' \in [Recent -> [Apps -> Nat]]
    BY <2>3, <2>4, CountsOf, NoDocs
  <2>6. /\ program' \in [Programs -> Calls] /\ program'[p] = Recently!Idle
        /\ \A q \in Programs \ {p} :
              program'[q].at = IF program[q].at = "open" THEN "over" ELSE program[q].at
    BY <1>0, <2>1, NoDocs, OthersFollow
  <2>7. RecentTypes'
    BY <1>0, <2>1, <2>3, <2>5, <2>6 DEF RecentTypes
  <2>8. Counted'
    BY <2>4 DEF Counted
  <2>9. OneCall'
    BY <2>1, <2>6, CallEndsStep
  <2>. QED
    BY <2>7, <2>8, <2>9 DEF RecentInv
<1>6. ASSUME NEW p \in Programs, Recently!Crash(p)
      PROVE  RecentInv'
  <2>1. /\ program[p].at # "idle" /\ program' = [program EXCEPT ![p] = Recently!Idle]
        /\ overlap' = (overlap /\ Recently!Busy # {p}) /\ xbel' = xbel
        /\ opened' = IF xbel = None THEN Recently!Never
                     ELSE IF overlap THEN Recently!CountsIn(xbel) ELSE opened
    BY <1>6 DEF Recently!Crash
  <2>2. opened' \in [Recent -> [Apps -> Nat]]
    BY <1>0, <2>1, NoDocs, CountsOf DEF RecentTypes
  <2>3. RecentTypes'
    BY <1>0, <2>1, <2>2, NoDocs DEF RecentTypes
  <2>4. Counted'
    BY <1>0, <2>1 DEF Counted
  <2>5. /\ program'[p] = Recently!Idle
        /\ \A q \in Programs \ {p} : program'[q] = program[q]
    BY <1>0, <2>1 DEF RecentTypes
  <2>6. OneCall'
    BY <2>1, <2>5, CallEndsStep
  <2>. QED
    BY <2>3, <2>4, <2>6 DEF RecentInv
<1>7. CASE UNCHANGED Recently!recentVars
  <2>1. UNCHANGED <<xbel, program, opened, overlap>>
    BY <1>7 DEF Recently!recentVars
  <2>2. RecentTypes' /\ Counted'
    BY <1>0, <2>1 DEF RecentTypes, Counted
  <2>3. OneCall'
    BY <1>0, <2>1 DEF OneCall, Recently!Busy
  <2>. QED
    BY <2>2, <2>3 DEF RecentInv
<1>. QED
  BY <1>1, <1>2, <1>3, <1>4, <1>5, <1>6, <1>7 DEF Recently!Next

LEMMA RecentStarts ==
    ASSUME Recently!Init
    PROVE  RecentInv
<1>1. xbel \in {None, <<>>} /\ program = [p \in Programs |-> Recently!Idle]
      /\ opened = Recently!Never /\ overlap = FALSE
  BY DEF Recently!Init
<1>2. RecentTypes
  BY <1>1, NoDocs DEF RecentTypes
<1>3. Counted
  BY <1>1, NoDocs DEF Counted
<1>4. Recently!Busy = {}
  BY <1>1, NoDocs DEF Recently!Busy
<1>. QED
  BY <1>2, <1>3, <1>4 DEF RecentInv, OneCall

(* A file is in the list of recent files at most once, and while no call   *)
(* is under way and none overlapped another the list says of every file    *)
(* and every application how often it was opened (drecentmanager.cpp:62    *)
(* to 244).                                                                *)
THEOREM RecentFilesAreExact == Recently!Spec => []ListIsExact
<1>1. Recently!Init => RecentInv
  BY RecentStarts
<1>2. RecentInv /\ [Recently!Next]_(Recently!recentVars) => RecentInv'
  BY RecentStep
<1>3. RecentInv => ListIsExact
  <2>1. SUFFICES ASSUME RecentInv, xbel # None
                 PROVE  /\ \A f \in Recent : \A i, j \in Recently!At(xbel, f) : i = j
                        /\ Recently!Busy = {} /\ ~overlap => Recently!CountsIn(xbel) = opened
    BY DEF ListIsExact, Of, Recently!ListIsExact
  <2>2. xbel \in Docs /\ DOMAIN xbel = 1 .. Len(xbel)
    <3>1. xbel \in Docs
      BY <2>1 DEF RecentInv, RecentTypes
    <3>2. xbel \in Seq(Bookmarks)
      BY <3>1 DEF Docs
    <3>. QED
      BY <3>1, <3>2, LenProperties
  <2>3. \A f \in Recent : \A i, j \in Recently!At(xbel, f) : i = j
    BY <2>2 DEF Recently!At, Docs
  <2>. QED
    BY <2>1, <2>3 DEF RecentInv, Counted
<1>. QED
  BY <1>1, <1>2, <1>3, PTL DEF Recently!Spec

-----------------------------------------------------------------------------
(* DLog: what a configuration tells its owner ends with its value, and the *)
(* rules are those chosen with the marks and the copies of that time.      *)
Told == RuleSets \cup {Log!Succeed}
RulesTypes ==
    /\ config \in [Log!Configs -> {"none", "starting", "loading", "ready"}]
    /\ rulesOf \in [Log!Configs -> RuleSets \cup {None}]
    /\ shown \in [Log!Configs -> RuleSets]
    /\ coming \in [Log!Configs -> Seq(Told)]
Succeeds(s, i) == i \in DOMAIN s /\ s[i] = Log!Succeed
Tells(conf, s, copy, value) ==
    /\ conf \in {"none", "starting"} => s = <<>>
    /\ conf = "ready" => \A i \in DOMAIN s : ~Succeeds(s, i)
    /\ conf = "loading" => \A i, j \in DOMAIN s : Succeeds(s, i) /\ Succeeds(s, j) => i = j
    /\ conf \in {"loading", "ready"} =>
           \/ copy = value /\ \A i \in DOMAIN s : Succeeds(s, i)
           \/ \E i \in DOMAIN s : /\ s[i] = value
                                  /\ \A j \in DOMAIN s : i < j => Succeeds(s, j)
WereChosen == LET new == Log!Chosen(config, seen, shown) IN new # None => rules = new
LogInv ==
    /\ RulesTypes /\ WereChosen
    /\ \A c \in Log!Configs : Tells(config[c], coming[c], shown[c], Log!Rules(c))

(* One more value, and one event less.                                     *)
LEMMA ToldMore ==
    ASSUME NEW s \in Seq(Told), NEW copy \in RuleSets, NEW old, NEW value \in RuleSets,
           NEW conf \in {"loading", "ready"}, Tells(conf, s, copy, old),
           Log!Succeed \notin RuleSets
    PROVE  Append(s, value) \in Seq(Told) /\ Tells(conf, Append(s, value), copy, value)
<1>. DEFINE t == Append(s, value)
            n == Len(s) + 1
<1>1. /\ Len(s) \in Nat /\ DOMAIN s = 1 .. Len(s) /\ value \in Told
      /\ t \in Seq(Told) /\ Len(t) = n /\ DOMAIN t = 1 .. n
      /\ t[n] = value /\ \A i \in 1 .. Len(s) : t[i] = s[i]
  BY LenProperties, AppendProperties DEF Told
<1>. HIDE DEF t
<1>2. \A i \in DOMAIN t : Succeeds(t, i) => i \in DOMAIN s /\ Succeeds(s, i)
  BY <1>1 DEF Succeeds
<1>3. n \in DOMAIN t /\ \A j \in DOMAIN t : n < j => Succeeds(t, j)
  BY <1>1
<1>4. Tells(conf, t, copy, value)
  BY <1>1, <1>2, <1>3 DEF Tells
<1>. QED
  BY <1>1, <1>4 DEF t

LEMMA ToldLess ==
    ASSUME NEW s \in Seq(Told), s # <<>>, NEW copy, NEW value \in RuleSets,
           NEW conf \in {"none", "starting", "loading", "ready"}, Tells(conf, s, copy, value),
           Log!Succeed \notin RuleSets
    PROVE  /\ Tail(s) \in Seq(Told) /\ Head(s) \in Told
           /\ Head(s) = Log!Succeed => Tells("ready", Tail(s), copy, value)
           /\ Head(s) # Log!Succeed => Tells(conf, Tail(s), Head(s), value)
<1>. DEFINE t == Tail(s)
<1>1. /\ Len(s) \in Nat /\ Len(s) >= 1 /\ DOMAIN s = 1 .. Len(s) /\ Head(s) = s[1]
      /\ Head(s) \in Told
      /\ t \in Seq(Told) /\ Len(t) = Len(s) - 1 /\ DOMAIN t = 1 .. Len(s) - 1
      /\ \A i \in 1 .. Len(s) - 1 : t[i] = s[i + 1]
  <2>1. Head(s) \in Told /\ t \in Seq(Told) /\ Len(t) = Len(s) - 1
        /\ \A i \in 1 .. Len(t) : t[i] = s[i + 1]
    BY HeadTailProperties
  <2>. HIDE DEF t
  <2>2. Len(s) \in Nat /\ DOMAIN s = 1 .. Len(s) /\ DOMAIN t = 1 .. Len(t) /\ Len(s) # 0
    BY <2>1, LenProperties, EmptySeq
  <2>. QED
    BY <2>1, <2>2
<1>. HIDE DEF t
<1>2. \A i \in DOMAIN t : i + 1 \in DOMAIN s /\ (Succeeds(t, i) <=> Succeeds(s, i + 1))
  BY <1>1 DEF Succeeds
<1>3. conf \in {"loading", "ready"} /\ 1 \in DOMAIN s
  BY <1>1 DEF Tells
<1>4. ASSUME NEW first, \/ copy = value /\ \A i \in DOMAIN s : Succeeds(s, i)
                        \/ \E i \in DOMAIN s : /\ s[i] = value
                                               /\ \A j \in DOMAIN s : i < j => Succeeds(s, j),
             IF Head(s) = Log!Succeed THEN first = copy ELSE first = Head(s)
      PROVE  \/ first = value /\ \A i \in DOMAIN t : Succeeds(t, i)
             \/ \E i \in DOMAIN t : /\ t[i] = value
                                    /\ \A j \in DOMAIN t : i < j => Succeeds(t, j)
  <2>1. CASE copy = value /\ \A i \in DOMAIN s : Succeeds(s, i)
    <3>1. Head(s) = Log!Succeed
      BY <1>1, <1>3, <2>1 DEF Succeeds
    <3>. QED
      BY <1>2, <1>4, <2>1, <3>1
  <2>2. ASSUME NEW i \in DOMAIN s, s[i] = value, \A j \in DOMAIN s : i < j => Succeeds(s, j)
        PROVE  \/ first = value /\ \A k \in DOMAIN t : Succeeds(t, k)
               \/ \E k \in DOMAIN t : /\ t[k] = value
                                      /\ \A j \in DOMAIN t : k < j => Succeeds(t, j)
    <3>1. CASE i = 1
      <4>1. first = value
        BY <1>1, <1>4, <2>2, <3>1
      <4>2. \A k \in DOMAIN t : 1 < k + 1
        BY <1>1
      <4>. QED
        BY <1>2, <2>2, <3>1, <4>1, <4>2
    <3>2. CASE i # 1
      <4>1. i - 1 \in DOMAIN t /\ t[i - 1] = value
        BY <1>1, <2>2, <3>2
      <4>2. ASSUME NEW j \in DOMAIN t, i - 1 < j PROVE Succeeds(t, j)
        <5>1. i < j + 1
          BY <1>1, <4>2
        <5>. QED
          BY <1>2, <2>2, <5>1
      <4>. QED
        BY <4>1, <4>2
    <3>. QED
      BY <3>1, <3>2
  <2>. QED
    BY <1>4, <2>1, <2>2
<1>5. ASSUME Head(s) = Log!Succeed
      PROVE  Tells("ready", t, copy, value)
  <2>1. conf = "loading" /\ Succeeds(s, 1)
    BY <1>1, <1>3, <1>5 DEF Tells, Succeeds
  <2>2. ASSUME NEW i \in DOMAIN t PROVE ~Succeeds(t, i)
    <3>1. i + 1 # 1 /\ i + 1 \in DOMAIN s
      BY <1>1
    <3>. QED
      BY <1>2, <1>3, <2>1, <3>1 DEF Tells
  <2>. QED
    BY <1>3, <1>4, <1>5, <2>2 DEF Tells
<1>6. ASSUME Head(s) # Log!Succeed
      PROVE  Tells(conf, t, Head(s), value)
  <2>1. ASSUME conf = "loading", NEW i \in DOMAIN t, NEW j \in DOMAIN t,
               Succeeds(t, i), Succeeds(t, j)
        PROVE  i = j
    <3>1. i + 1 = j + 1
      BY <1>2, <2>1 DEF Tells
    <3>. QED
      BY <1>1, <3>1
  <2>2. conf = "ready" => \A i \in DOMAIN t : ~Succeeds(t, i)
    BY <1>2 DEF Tells
  <2>. QED
    BY <1>3, <1>4, <1>6, <2>1, <2>2 DEF Tells
<1>. QED
  BY <1>1, <1>5, <1>6 DEF t

LEMMA LogStep ==
    ASSUME LogInv, Log!Next \/ UNCHANGED Log!logVars
    PROVE  LogInv'
<1>0. /\ RulesTypes /\ WereChosen /\ Log!Succeed \notin RuleSets /\ None \notin RuleSets
      /\ DefaultRules \in [Log!Configs -> RuleSets]
      /\ \A c \in Log!Configs : /\ Log!Rules(c) \in RuleSets
                                /\ Tells(config[c], coming[c], shown[c], Log!Rules(c))
  BY LibraryAssumption DEF LogInv, RulesTypes, Log!Rules, Log!DLogAssumption
<1>1. ASSUME UNCHANGED <<config, rulesOf, shown, coming, rules, seen>>
      PROVE  LogInv'
  BY <1>1 DEF LogInv, RulesTypes, WereChosen, Log!Rules, Log!Chosen
<1>2. ASSUME Log!UpdateLoggingRules, UNCHANGED rulesOf
      PROVE  WereChosen'
  BY <1>2 DEF WereChosen, Log!UpdateLoggingRules, Log!Chosen, Log!Marks
<1>3. ASSUME UNCHANGED <<shown, rules, seen>>, RulesTypes,
             \A c \in Log!Configs : config'[c] = "ready" <=> config[c] = "ready"
      PROVE  WereChosen'
  BY <1>0, <1>3 DEF WereChosen, Log!Chosen, Log!Configs
<1>4. ASSUME NEW c \in Log!Configs, RulesTypes',
             \A d \in Log!Configs \ {c} :
                config'[d] = config[d] /\ coming'[d] = coming[d] /\ shown'[d] = shown[d]
                /\ rulesOf'[d] = rulesOf[d],
             Tells(config'[c], coming'[c], shown'[c], Log!Rules(c)')
      PROVE  \A d \in Log!Configs : Tells(config'[d], coming'[d], shown'[d], Log!Rules(d)')
  <2>. TAKE d \in Log!Configs
  <2>1. CASE d # c
    <3>1. Log!Rules(d)' = Log!Rules(d)
      BY <1>4, <2>1 DEF Log!Rules
    <3>. QED
      BY <1>0, <1>4, <2>1, <3>1
  <2>. QED
    BY <1>4, <2>1
<1>5. ASSUME NEW c \in Log!Configs, NEW v \in RuleSets \cup {None}, Log!Initialize(c, v)
      PROVE  LogInv'
  <2>. DEFINE value == IF v = None THEN DefaultRules[c] ELSE v
  <2>1. /\ config[c] = "starting" /\ config' = [config EXCEPT ![c] = "loading"]
        /\ rulesOf' = [rulesOf EXCEPT ![c] = v]
        /\ coming' = [coming EXCEPT ![c] = <<value, Log!Succeed>>]
        /\ UNCHANGED <<shown, rules, seen>>
    BY <1>5 DEF Log!Initialize
  <2>2. value \in RuleSets
    BY <1>0
  <2>3. Log!Rules(c)' = value
    BY <1>0, <2>1 DEF Log!Rules, RulesTypes
  <2>. HIDE DEF value
  <2>4. <<value, Log!Succeed>> \in Seq(Told)
    BY <2>2 DEF Told
  <2>5. RulesTypes'
    BY <1>0, <2>1, <2>4 DEF RulesTypes
  <2>6. Tells("loading", <<value, Log!Succeed>>, shown[c], value)
    BY <1>0, <2>2 DEF Tells, Succeeds
  <2>7. config'[c] = "loading" /\ coming'[c] = <<value, Log!Succeed>> /\ shown'[c] = shown[c]
    BY <1>0, <2>1 DEF RulesTypes
  <2>8. \A d \in Log!Configs : config'[d] = "ready" <=> config[d] = "ready"
    BY <1>0, <2>1 DEF RulesTypes
  <2>. QED
    BY <1>0, <1>3, <1>4, <2>1, <2>3, <2>5, <2>6, <2>7, <2>8 DEF LogInv
<1>6. ASSUME NEW c \in Log!Configs, NEW v \in RuleSets \cup {None}, Log!Change(c, v)
      PROVE  LogInv'
  <2>. DEFINE value == IF v = None THEN DefaultRules[c] ELSE v
  <2>1. /\ config[c] \in {"loading", "ready"} /\ rulesOf' = [rulesOf EXCEPT ![c] = v]
        /\ coming' = [coming EXCEPT ![c] = Append(coming[c], value)]
        /\ UNCHANGED <<config, shown, rules, seen>>
    BY <1>6 DEF Log!Change
  <2>2. value \in RuleSets
    BY <1>0
  <2>3. Log!Rules(c)' = value
    BY <1>0, <2>1 DEF Log!Rules, RulesTypes
  <2>. HIDE DEF value
  <2>4. /\ Append(coming[c], value) \in Seq(Told)
        /\ Tells(config[c], Append(coming[c], value), shown[c], value)
    <3>1. PICK conf, s, copy, val : conf = config[c] /\ s = coming[c] /\ copy = shown[c]
                                    /\ val = Log!Rules(c)
      OBVIOUS
    <3>2. /\ conf \in {"none", "starting", "loading", "ready"} /\ s \in Seq(Told)
          /\ copy \in RuleSets /\ val \in RuleSets /\ Tells(conf, s, copy, val)
      BY <1>0, <3>1 DEF RulesTypes
    <3>3. conf \in {"loading", "ready"}
      BY <2>1, <3>1
    <3>4. Append(s, value) \in Seq(Told) /\ Tells(conf, Append(s, value), copy, value)
      BY <1>0, <2>2, <3>2, <3>3, ToldMore
    <3>. QED
      BY <3>1, <3>4
  <2>5. RulesTypes'
    BY <1>0, <2>1, <2>4 DEF RulesTypes
  <2>6. coming'[c] = Append(coming[c], value)
    BY <1>0, <2>1 DEF RulesTypes
  <2>. QED
    BY <1>0, <1>3, <1>4, <2>1, <2>3, <2>4, <2>5, <2>6 DEF LogInv
<1>7. ASSUME NEW c \in Log!Configs, Log!InitFail(c)
      PROVE  LogInv'
  <2>1. /\ config[c] = "starting" /\ config' = [config EXCEPT ![c] = "none"]
        /\ UNCHANGED <<rulesOf, shown, coming, rules, seen>>
    BY <1>7 DEF Log!InitFail
  <2>2. RulesTypes' /\ config'[c] = "none" /\ coming[c] = <<>>
    BY <1>0, <2>1 DEF RulesTypes, Tells
  <2>3. Tells("none", <<>>, shown'[c], Log!Rules(c)')
    BY DEF Tells
  <2>4. \A d \in Log!Configs : config'[d] = "ready" <=> config[d] = "ready"
    BY <1>0, <2>1 DEF RulesTypes
  <2>. QED
    BY <1>0, <1>3, <1>4, <2>1, <2>2, <2>3, <2>4 DEF LogInv
<1>8. ASSUME NEW c \in Log!Configs, Log!InitSucceed(c)
      PROVE  LogInv'
  <2>1. /\ coming[c] # <<>> /\ Head(coming[c]) = Log!Succeed
        /\ coming' = [coming EXCEPT ![c] = Tail(coming[c])]
        /\ config' = [config EXCEPT ![c] = "ready"]
        /\ UNCHANGED <<rulesOf, shown>> /\ Log!UpdateLoggingRules
    BY <1>8 DEF Log!InitSucceed
  <2>2. Tail(coming[c]) \in Seq(Told) /\ Tells("ready", Tail(coming[c]), shown[c], Log!Rules(c))
    <3>1. PICK conf, s, copy, val : conf = config[c] /\ s = coming[c] /\ copy = shown[c]
                                    /\ val = Log!Rules(c)
      OBVIOUS
    <3>2. /\ conf \in {"none", "starting", "loading", "ready"} /\ s \in Seq(Told)
          /\ copy \in RuleSets /\ val \in RuleSets /\ Tells(conf, s, copy, val)
      BY <1>0, <3>1 DEF RulesTypes
    <3>3. s # <<>> /\ Head(s) = Log!Succeed
      BY <2>1, <3>1
    <3>4. Tail(s) \in Seq(Told) /\ Tells("ready", Tail(s), copy, val)
      BY <1>0, <3>2, <3>3, ToldLess
    <3>. QED
      BY <3>1, <3>4
  <2>3. RulesTypes' /\ config'[c] = "ready" /\ coming'[c] = Tail(coming[c])
    BY <1>0, <2>1, <2>2 DEF RulesTypes
  <2>4. Log!Rules(c)' = Log!Rules(c)
    BY <2>1 DEF Log!Rules
  <2>5. \A d \in Log!Configs \ {c} : /\ config'[d] = config[d] /\ coming'[d] = coming[d]
                                     /\ shown'[d] = shown[d] /\ rulesOf'[d] = rulesOf[d]
    BY <1>0, <2>1 DEF RulesTypes
  <2>. QED
    BY <1>2, <1>4, <2>1, <2>2, <2>3, <2>4, <2>5 DEF LogInv
<1>9. ASSUME NEW c \in Log!Configs, Log!RulesChanged(c)
      PROVE  LogInv'
  <2>1. /\ coming[c] # <<>> /\ Head(coming[c]) # Log!Succeed
        /\ coming' = [coming EXCEPT ![c] = Tail(coming[c])]
        /\ shown' = [shown EXCEPT ![c] = Head(coming[c])]
        /\ UNCHANGED <<config, rulesOf>>
        /\ \/ Head(coming[c]) = shown[c] /\ UNCHANGED <<rules, seen>>
           \/ Log!UpdateLoggingRules
    BY <1>9 DEF Log!RulesChanged
  <2>2. /\ Tail(coming[c]) \in Seq(Told) /\ Head(coming[c]) \in RuleSets
        /\ Tells(config[c], Tail(coming[c]), Head(coming[c]), Log!Rules(c))
    <3>1. /\ Tail(coming[c]) \in Seq(Told) /\ Head(coming[c]) \in Told
          /\ Tells(config[c], Tail(coming[c]), Head(coming[c]), Log!Rules(c))
      <4>1. PICK conf, s, copy, val : conf = config[c] /\ s = coming[c] /\ copy = shown[c]
                                      /\ val = Log!Rules(c)
        OBVIOUS
      <4>2. /\ conf \in {"none", "starting", "loading", "ready"} /\ s \in Seq(Told)
            /\ copy \in RuleSets /\ val \in RuleSets /\ Tells(conf, s, copy, val)
        BY <1>0, <4>1 DEF RulesTypes
      <4>3. s # <<>> /\ Head(s) # Log!Succeed
        BY <2>1, <4>1
      <4>4. /\ Tail(s) \in Seq(Told) /\ Head(s) \in Told
            /\ Tells(conf, Tail(s), Head(s), val)
        BY <1>0, <4>2, <4>3, ToldLess
      <4>. QED
        BY <4>1, <4>4
    <3>. QED
      BY <2>1, <3>1 DEF Told
  <2>3. /\ RulesTypes' /\ coming'[c] = Tail(coming[c]) /\ shown'[c] = Head(coming[c])
    BY <1>0, <2>1, <2>2 DEF RulesTypes
  <2>4. Log!Rules(c)' = Log!Rules(c) /\ config'[c] = config[c]
    BY <2>1 DEF Log!Rules
  <2>5. \A d \in Log!Configs \ {c} : /\ config'[d] = config[d] /\ coming'[d] = coming[d]
                                     /\ shown'[d] = shown[d] /\ rulesOf'[d] = rulesOf[d]
    BY <1>0, <2>1 DEF RulesTypes
  <2>6. WereChosen'
    <3>1. CASE Head(coming[c]) = shown[c] /\ UNCHANGED <<rules, seen>>
      <4>1. shown' = shown
        BY <1>0, <2>1, <3>1 DEF RulesTypes
      <4>. QED
        BY <1>0, <1>3, <2>1, <3>1, <4>1
    <3>. QED
      BY <1>2, <2>1, <3>1
  <2>. QED
    BY <1>4, <2>2, <2>3, <2>4, <2>5, <2>6 DEF LogInv
<1>10. ASSUME \/ Log!RegisterConsoleAppender \/ Log!RegisterJournalAppender
              \/ Log!RegisterFileAppender \/ Log!GetLogFilePath
              \/ \E p \in LogPaths : Log!SetLogFilePath(p)
       PROVE  LogInv'
  <2>1. UNCHANGED <<config, rulesOf, shown, coming, rules, seen>>
    BY <1>10 DEF Log!RegisterConsoleAppender, Log!RegisterJournalAppender,
                 Log!RegisterFileAppender, Log!GetLogFilePath, Log!SetLogFilePath,
                 Log!OnlyAppenders, Log!ruleVars
  <2>. QED
    BY <2>1, <1>1
<1>11. CASE UNCHANGED Log!logVars
  BY <1>11, <1>1 DEF Log!logVars
<1>. QED
  BY <1>5, <1>6, <1>7, <1>8, <1>9, <1>10, <1>11 DEF Log!Next

LEMMA LogStarts ==
    ASSUME Log!Init
    PROVE  LogInv
<1>1. /\ config \in [Log!Configs -> {"none", "starting"}]
      /\ "dsg" \in Log!Configs /\ "fallback" \in Log!Configs
      /\ rulesOf = [c \in Log!Configs |-> None] /\ shown = [c \in Log!Configs |-> CompiledRules]
      /\ coming = [c \in Log!Configs |-> <<>>] /\ CompiledRules \in RuleSets
  BY LibraryAssumption DEF Log!Init, Log!Configs, Log!DLogAssumption
<1>2. RulesTypes
  BY <1>1, EmptySeq DEF RulesTypes
<1>3. Log!Chosen(config, seen, shown) = None
  BY <1>1 DEF Log!Chosen
<1>4. \A c \in Log!Configs : Tells(config[c], coming[c], shown[c], Log!Rules(c))
  BY <1>1 DEF Tells
<1>. QED
  BY <1>2, <1>3, <1>4 DEF LogInv, WereChosen

LEMMA LogPromises ==
    ASSUME LogInv
    PROVE  Log!RulesAreChosen
<1>0. /\ RulesTypes /\ WereChosen /\ None \notin RuleSets
      /\ DefaultRules \in [Log!Configs -> RuleSets]
      /\ "dsg" \in Log!Configs /\ "fallback" \in Log!Configs
  BY LibraryAssumption DEF LogInv, Log!DLogAssumption, Log!Configs
<1>1. ASSUME NEW c \in Log!Configs, config[c] = "ready", coming[c] = <<>>
      PROVE  shown[c] = Log!Rules(c)
  BY <1>1 DEF LogInv, Tells
<1>2. ASSUME \A c \in Log!Configs : coming[c] = <<>>, seen = Log!Marks
      PROVE  LET new == Log!Chosen(config, Log!Marks, [c \in Log!Configs |-> Log!Rules(c)])
             IN new # None => rules = new
  <2>1. Log!Chosen(config, Log!Marks, [c \in Log!Configs |-> Log!Rules(c)])
        = Log!Chosen(config, seen, shown)
    BY <1>0, <1>1, <1>2 DEF Log!Chosen
  <2>. QED
    BY <1>0, <2>1 DEF WereChosen
<1>3. ASSUME config["dsg"] = "ready", coming["dsg"] = <<>>, config["fallback"] # "ready"
      PROVE  rules = Log!Rules("dsg")
  <2>1. Log!Chosen(config, seen, shown) = shown["dsg"]
    BY <1>3 DEF Log!Chosen
  <2>2. shown["dsg"] \in RuleSets
    BY <1>0 DEF RulesTypes
  <2>. QED
    BY <1>0, <1>1, <1>3, <2>1, <2>2 DEF WereChosen
<1>. QED
  BY <1>2, <1>3 DEF Log!RulesAreChosen

-----------------------------------------------------------------------------
(* DSysInfo: as long as every os-version that ever was installed was whole *)
(* one of them has been read as a whole, or none.                          *)
Ensured(f) == SysInfo!Ensured(f, SysInfo!NoBuild, SysInfo!Fresh)
SystemInv ==
    /\ osFile \in OsFiles
    /\ \A f \in wholeFiles : f \in OsFiles /\ SysInfo!Whole(f)
    /\ wholeFiles # {} =>
           /\ osFile \in wholeFiles
           /\ \/ osBuild = SysInfo!NoBuild /\ minVersion = SysInfo!Fresh
              \/ \E f \in wholeFiles : /\ osBuild = Ensured(f).build
                                       /\ minVersion = Ensured(f).min

(* A whole file is read as a whole.                                        *)
LEMMA WholeIsRead ==
    ASSUME NEW f \in OsFiles, SysInfo!Whole(f)
    PROVE  Ensured(f).build = f.build /\ f.build[1] > 0
<1>1. /\ f # None /\ Len(f.build) = 5 /\ f.build[1] # 0
      /\ \A i \in 1 .. 5 : f.build[i] # SysInfo!Bad
  BY DEF SysInfo!Whole
<1>2. f.build \in Seq(Nat \cup {-1})
  BY <1>1, LibraryAssumption DEF SysInfo!DSysInfoAssumption, SysInfo!Bad
<1>3. f.build[1] > 0
  BY <1>1, <1>2, ElementOfSeq DEF SysInfo!Bad
<1>4. ~(SysInfo!NoBuild[1] > 0)
  BY DEF SysInfo!NoBuild
<1>5. {i \in 1 .. 5 : f.build[i] = SysInfo!Bad} = {}
  BY <1>1
<1>6. Ensured(f).build = f.build
  BY <1>1, <1>4, <1>5 DEF Ensured, SysInfo!Ensured
<1>. QED
  BY <1>3, <1>6

LEMMA SystemStep ==
    ASSUME SystemInv, SysInfo!Next \/ UNCHANGED SysInfo!sysVars
    PROVE  SystemInv'
<1>1. ASSUME UNCHANGED <<osFile, wholeFiles, osBuild, minVersion>>
      PROVE  SystemInv'
  <2>1. SystemInv
    OBVIOUS
  <2>. QED
    BY <1>1, <2>1 DEF SystemInv, Ensured, SysInfo!Ensured, SysInfo!Whole, SysInfo!MinVersion,
             SysInfo!SplitA_BC_DMode
<1>2. ASSUME SysInfo!EnsureOsVersion
      PROVE  SystemInv'
  <2>1. /\ osBuild' = SysInfo!Ensured(osFile, osBuild, minVersion).build
        /\ minVersion' = SysInfo!Ensured(osFile, osBuild, minVersion).min
        /\ osFile' = osFile /\ wholeFiles' = wholeFiles
    BY <1>2 DEF SysInfo!EnsureOsVersion, SysInfo!files
  <2>2. ASSUME wholeFiles # {}
        PROVE  \E f \in wholeFiles : osBuild' = Ensured(f).build /\ minVersion' = Ensured(f).min
    <3>1. osFile \in wholeFiles
      BY <2>2 DEF SystemInv
    <3>2. CASE osBuild = SysInfo!NoBuild /\ minVersion = SysInfo!Fresh
      BY <3>1, <3>2, <2>1 DEF Ensured
    <3>3. ASSUME NEW f \in wholeFiles, osBuild = Ensured(f).build, minVersion = Ensured(f).min
          PROVE  osBuild' = Ensured(f).build /\ minVersion' = Ensured(f).min
      <4>1. osBuild[1] > 0
        BY <3>3, WholeIsRead DEF SystemInv
      <4>2. SysInfo!Ensured(osFile, osBuild, minVersion) = [build |-> osBuild, min |-> minVersion]
        BY <4>1 DEF SysInfo!Ensured
      <4>. QED
        BY <2>1, <3>3, <4>2
    <3>. QED
      BY <2>2, <3>2, <3>3 DEF SystemInv
  <2>. QED
    BY <2>1, <2>2 DEF SystemInv
<1>3. ASSUME NEW f \in OsFiles, NEW rs \in ReleaseFiles, NEW d \in DeepinFiles,
             SysInfo!Upgrade(f, rs, d)
      PROVE  SystemInv'
  <2>1. /\ osFile' = f /\ osBuild' = osBuild /\ minVersion' = minVersion
        /\ wholeFiles' = IF SysInfo!Whole(f) /\ wholeFiles # {} THEN wholeFiles \cup {f} ELSE {}
    BY <1>3 DEF SysInfo!Upgrade, SysInfo!osVars
  <2>2. CASE SysInfo!Whole(f) /\ wholeFiles # {}
    BY <2>1, <2>2 DEF SystemInv
  <2>3. CASE ~(SysInfo!Whole(f) /\ wholeFiles # {})
    BY <2>1, <2>3 DEF SystemInv
  <2>. QED
    BY <2>2, <2>3
<1>4. ASSUME \/ SysInfo!EnsureReleaseInfo \/ SysInfo!EnsureDeepinInfo \/ SysInfo!CpuModelName
             \/ SysInfo!SystemDiskSize
      PROVE  SystemInv'
  <2>1. UNCHANGED <<osFile, wholeFiles, osBuild, minVersion>>
    BY <1>4 DEF SysInfo!EnsureReleaseInfo, SysInfo!EnsureDeepinInfo, SysInfo!CpuModelName,
                SysInfo!SystemDiskSize, SysInfo!files, SysInfo!osVars
  <2>. QED
    BY <1>1, <2>1
<1>5. CASE UNCHANGED SysInfo!sysVars
  BY <1>5, <1>1 DEF SysInfo!sysVars
<1>. QED
  BY <1>2, <1>3, <1>4, <1>5 DEF SysInfo!Next

LEMMA SystemStarts ==
    ASSUME SysInfo!Init
    PROVE  SystemInv
<1>1. wholeFiles = IF SysInfo!Whole(osFile) THEN {osFile} ELSE {}
  BY DEF SysInfo!Init
<1>. QED
  BY <1>1 DEF SysInfo!Init, SystemInv

LEMMA SystemPromises ==
    ASSUME SystemInv
    PROVE  SysInfo!VersionIsOneFiles
<1>1. ASSUME wholeFiles # {}, osBuild # SysInfo!NoBuild
      PROVE  \E f \in wholeFiles : /\ osBuild = Ensured(f).build
                                   /\ minVersion = Ensured(f).min
  BY <1>1 DEF SystemInv
<1>. QED
  BY <1>1 DEF SysInfo!VersionIsOneFiles, Ensured

-----------------------------------------------------------------------------
(* DLicenseInfo: the directories passed over are the first of those to be  *)
(* searched, in their order.                                               *)
DirsOf(on) ==
    (IF on THEN <<License!Own>> ELSE <<>>)
    \o [k \in 1 .. 2 * DataDirs |->
           <<(k + 1) \div 2, IF k % 2 = 1 THEN "custom" ELSE "system">>]

Searched(on, k) ==
    /\ DOMAIN search = {"license", "left", "set", "passed", "text"}
    /\ search.set = on /\ k <= Len(DirsOf(on))
    /\ search.passed = {DirsOf(on)[i] : i \in 1 .. k}
    /\ \/ /\ search.text = None
          /\ search.left = SubSeq(DirsOf(on), k + 1, Len(DirsOf(on)))
       \/ /\ k < Len(DirsOf(on)) /\ search.text = DirsOf(on)[k + 1]
          /\ search.left = <<>>
IsSearch == search = License!NoSearch \/ \E on \in BOOLEAN, k \in Nat : Searched(on, k)
Listed == loaded # None /\ loaded.ok => componentInfos = loaded.content.items
LicenseTypes ==
    /\ credits \in [1 .. DataDirs -> Lists \cup {None}] /\ searchPath \in BOOLEAN
    /\ found # None => found \in 1 .. DataDirs
LicenseInv == LicenseTypes /\ Listed /\ IsSearch

Place(k) == <<(k + 1) \div 2, IF k % 2 = 1 THEN "custom" ELSE "system">>

LEMMA DirsAre ==
    ASSUME NEW on \in BOOLEAN
    PROVE  LET before == IF on THEN 1 ELSE 0 IN
           /\ Len(DirsOf(on)) = before + 2 * DataDirs
           /\ DirsOf(on) \in Seq({License!Own} \cup (Nat \X {"custom", "system"}))
           /\ on => DirsOf(on)[1] = License!Own
           /\ \A k \in 1 .. 2 * DataDirs : DirsOf(on)[before + k] = Place(k)
<1>. DEFINE D == {License!Own} \cup (Nat \X {"custom", "system"})
            system == [k \in 1 .. 2 * DataDirs |-> Place(k)]
            own == IF on THEN <<License!Own>> ELSE <<>>
<1>1. DataDirs \in Nat
  BY LibraryAssumption DEF License!DLicenseInfoAssumption
<1>2. \A k \in 1 .. 2 * DataDirs : Place(k) \in D
  BY <1>1 DEF Place
<1>3. system \in Seq(D) /\ Len(system) = 2 * DataDirs
  <2>1. system \in [1 .. 2 * DataDirs -> D]
    BY <1>2
  <2>. HIDE DEF system, D
  <2>2. 2 * DataDirs \in Nat
    BY <1>1
  <2>3. DOMAIN system = 1 .. 2 * DataDirs
    BY <2>1
  <2>4. system \in Seq(D)
    BY <2>1, <2>2, SeqDef
  <2>. QED
    BY <2>2, <2>3, <2>4, LenProperties
<1>4. own \in Seq(D) /\ Len(own) = IF on THEN 1 ELSE 0
  <2>1. <<License!Own>> \in Seq(D) /\ Len(<<License!Own>>) = 1
    OBVIOUS
  <2>2. <<>> \in Seq(D) /\ Len(<<>>) = 0
    OBVIOUS
  <2>. HIDE DEF D
  <2>. QED
    BY <2>1, <2>2
<1>5. DirsOf(on) = own \o system
  BY DEF DirsOf, Place
<1>6. \A k \in 1 .. 2 * DataDirs : system[k] = Place(k)
  OBVIOUS
<1>7. on => own[1] = License!Own
  OBVIOUS
<1>. HIDE DEF own, system, D
<1>8. /\ own \o system \in Seq(D)
      /\ Len(own \o system) = Len(own) + Len(system)
      /\ \A i \in 1 .. Len(own) + Len(system) :
            (own \o system)[i] = IF i <= Len(own) THEN own[i] ELSE system[i - Len(own)]
  BY <1>3, <1>4, ConcatProperties
<1>9. on => (own \o system)[1] = License!Own
  BY <1>1, <1>3, <1>4, <1>7, <1>8
<1>10. ASSUME NEW k \in 1 .. 2 * DataDirs
       PROVE  (own \o system)[Len(own) + k] = Place(k)
  BY <1>1, <1>3, <1>4, <1>6, <1>8
<1>. QED
  BY <1>3, <1>4, <1>5, <1>8, <1>9, <1>10 DEF D

(* A list is loaded as a whole, or with an error.                          *)
LEMMA LoadedIsListed ==
    ASSUME NEW content \in Lists, License!LoadInto(content)
    PROVE  Listed'
<1>. DEFINE bad == {i \in DOMAIN content.items : content.items[i] = BadItem}
            whole == {k \in 0 .. Len(content.items) : (1 .. k) \cap bad = {}}
<1>1. content.items \in Seq({content.items[i] : i \in DOMAIN content.items})
  BY LibraryAssumption DEF License!DLicenseInfoAssumption
<1>2. /\ componentInfos' = IF content.array
                           THEN SubSeq(content.items, 1, CHOOSE k \in whole : \A j \in whole : j <= k)
                           ELSE componentInfos
      /\ loaded' = [content |-> content, ok |-> content.array /\ bad = {}]
  BY DEF License!LoadInto
<1>3. ASSUME loaded'.ok
      PROVE  componentInfos' = loaded'.content.items
  <2>1. content.array /\ bad = {} /\ loaded'.content = content
    BY <1>2, <1>3
  <2>2. whole = 0 .. Len(content.items) /\ Len(content.items) \in Nat
    BY <2>1, <1>1, LenProperties
  <2>3. (CHOOSE k \in whole : \A j \in whole : j <= k) = Len(content.items)
    <3>1. \A k \in whole : (\A j \in whole : j <= k) <=> k = Len(content.items)
      BY <2>2
    <3>2. Len(content.items) \in whole
      BY <2>2
    <3>. QED
      BY <3>1, <3>2
  <2>4. SubSeq(content.items, 1, Len(content.items)) = content.items
    BY <1>1, SubSeqFull
  <2>. QED
    BY <1>2, <2>1, <2>3, <2>4
<1>. QED
  BY <1>3 DEF Listed

LEMMA LicenseStep ==
    ASSUME LicenseInv, License!Next \/ UNCHANGED License!licenseVars
    PROVE  LicenseInv'
<1>0. DataDirs \in Nat \ {0}
  BY LibraryAssumption DEF License!DLicenseInfoAssumption
<1>1. ASSUME UNCHANGED <<componentInfos, loaded>> PROVE Listed'
  BY <1>1 DEF LicenseInv, Listed
<1>2. ASSUME UNCHANGED search PROVE IsSearch'
  BY <1>2 DEF LicenseInv, IsSearch, Searched, DirsOf, License!NoSearch, License!Own
<1>3. ASSUME UNCHANGED <<credits, searchPath, found>> PROVE LicenseTypes'
  BY <1>3 DEF LicenseInv, LicenseTypes
<1>4. ASSUME NEW c \in Lists, License!LoadContent(c) PROVE LicenseInv'
  <2>1. License!LoadInto(c) /\ UNCHANGED <<credits, texts, searchPath, found, search>>
    BY <1>4 DEF License!LoadContent
  <2>2. Listed'
    BY <2>1, LoadedIsListed
  <2>. QED
    BY <2>1, <2>2, <1>2, <1>3 DEF LicenseInv
<1>5. ASSUME License!LoadFile PROVE LicenseInv'
  <2>. DEFINE there == {d \in DOMAIN credits : credits[d] # None}
  <2>1. /\ found' = IF there = {} THEN None
                    ELSE CHOOSE d \in there : \A e \in there : d <= e
        /\ loaded' = [content |-> None, ok |-> FALSE]
        /\ UNCHANGED <<credits, texts, searchPath, search>>
    BY <1>5 DEF License!LoadFile
  <2>2. there \in SUBSET Nat /\ there \subseteq 1 .. DataDirs
    BY <1>0 DEF LicenseInv, LicenseTypes
  <2>3. ASSUME there # {}
        PROVE  (CHOOSE d \in there : \A e \in there : d <= e) \in there
    <3>1. \E d \in there : \A e \in there : d <= e
      BY <2>2, <2>3, Smallest
    <3>. QED
      BY <3>1
  <2>4. found' # None => found' \in 1 .. DataDirs
    BY <2>1, <2>2, <2>3
  <2>5. Listed'
    BY <2>1 DEF Listed
  <2>6. LicenseTypes'
    BY <2>1, <2>4 DEF LicenseInv, LicenseTypes
  <2>. QED
    BY <2>1, <2>5, <2>6, <1>2 DEF LicenseInv
<1>6. ASSUME License!OpenFile PROVE LicenseInv'
  <2>1. /\ found # None /\ found' = None
        /\ UNCHANGED <<credits, texts, searchPath, search>>
    BY <1>6 DEF License!OpenFile
  <2>2. CASE credits[found] = None
    <3>1. loaded' = [content |-> None, ok |-> FALSE]
      BY <1>6, <2>2 DEF License!OpenFile
    <3>2. Listed'
      BY <3>1 DEF Listed
    <3>. QED
      BY <2>1, <3>2, <1>2 DEF LicenseInv, LicenseTypes
  <2>3. CASE credits[found] # None
    <3>1. License!LoadInto(credits[found])
      BY <1>6, <2>3 DEF License!OpenFile
    <3>2. credits[found] \in Lists
      BY <2>1, <2>3 DEF LicenseInv, LicenseTypes
    <3>3. Listed'
      BY <3>1, <3>2, LoadedIsListed
    <3>. QED
      BY <2>1, <3>3, <1>2 DEF LicenseInv, LicenseTypes
  <2>. QED
    BY <2>2, <2>3
<1>7. ASSUME NEW l \in Licenses, License!LicenseContent(l) PROVE LicenseInv'
  <2>1. /\ search' = [license |-> l, left |-> DirsOf(searchPath), set |-> searchPath,
                      passed |-> {}, text |-> None]
        /\ UNCHANGED <<credits, texts, searchPath, componentInfos, found, loaded>>
    BY <1>7 DEF License!LicenseContent, License!SearchDirs, DirsOf
  <2>2. searchPath \in BOOLEAN
    BY DEF LicenseInv, LicenseTypes
  <2>3. DirsOf(searchPath) \in Seq({License!Own} \cup (Nat \X {"custom", "system"}))
    BY <2>2, DirsAre
  <2>. DEFINE D == DirsOf(searchPath)
  <2>4. SubSeq(D, 0 + 1, Len(D)) = D /\ 0 <= Len(D)
    BY <2>3, SubSeqFull, LenProperties
  <2>5. {D[i] : i \in 1 .. 0} = {}
    OBVIOUS
  <2>. HIDE DEF D
  <2>6. /\ search'.set = searchPath /\ search'.passed = {} /\ search'.text = None
        /\ search'.left = D
    BY <2>1 DEF D
  <2>7. Searched(searchPath, 0)'
    BY <2>1, <2>4, <2>5, <2>6 DEF Searched, D, DirsOf, License!Own
  <2>8. IsSearch'
    BY <2>1, <2>2, <2>7 DEF IsSearch
  <2>. QED
    BY <2>1, <2>8, <1>1, <1>3 DEF LicenseInv
<1>8. ASSUME License!TryDir PROVE LicenseInv'
  <2>1. /\ search.left # <<>>
        /\ UNCHANGED <<credits, texts, searchPath, componentInfos, found, loaded>>
    BY <1>8 DEF License!TryDir
  <2>2. \/ search' = [search EXCEPT !.text = Head(search.left), !.left = <<>>]
        \/ search' = [search EXCEPT !.passed = @ \cup {Head(search.left)},
                                    !.left = Tail(@)]
    BY <1>8 DEF License!TryDir
  <2>3. PICK on \in BOOLEAN, k \in Nat : Searched(on, k)
    BY <2>1 DEF LicenseInv, IsSearch, License!NoSearch
  <2>. DEFINE Any == {License!Own} \cup (Nat \X {"custom", "system"})
  <2>4. PICK D \in Seq(Any) : D = DirsOf(on)
    BY DirsAre
  <2>5. /\ search.set = on /\ k <= Len(D) /\ search.passed = {D[i] : i \in 1 .. k}
        /\ search.text = None /\ search.left = SubSeq(D, k + 1, Len(D))
    BY <2>1, <2>3, <2>4 DEF Searched
  <2>6. Len(D) \in Nat /\ \A i \in 1 .. Len(D) : D[i] \in Any
    BY LenProperties, ElementOfSeq
  <2>7. k < Len(D)
    BY <2>1, <2>5, <2>6, SubSeqEmpty
  <2>8. Head(search.left) = D[k + 1] /\ Tail(search.left) = SubSeq(D, k + 2, Len(D))
    <3>1. /\ search.left \in Seq(Any) /\ Len(search.left) = Len(D) - k
          /\ \A i \in 1 .. Len(D) - k : search.left[i] = D[k + i]
      <4>1. \A i \in k + 1 .. Len(D) : D[i] \in Any
        BY <2>6
      <4>2. /\ search.left \in Seq(Any)
            /\ Len(search.left) = (IF k + 1 <= Len(D) THEN Len(D) - (k + 1) + 1 ELSE 0)
            /\ \A i \in 1 .. Len(D) - (k + 1) + 1 : search.left[i] = D[k + 1 + i - 1]
        BY <2>5, <2>6, <4>1, SubSeqProperties
      <4>. QED
        BY <2>6, <2>7, <4>2
    <3>2. Head(search.left) = D[k + 1]
      BY <3>1, <2>6, <2>7, HeadTailProperties
    <3>3. Tail(search.left) = SubSeq(D, k + 2, Len(D))
      BY <2>5, <2>6, <2>7
    <3>. QED
      BY <3>2, <3>3
  <2>9. DOMAIN search = {"license", "left", "set", "passed", "text"}
    BY <2>3 DEF Searched
  <2>10. IsSearch'
    <3>1. CASE search' = [search EXCEPT !.text = Head(search.left), !.left = <<>>]
      <4>1. /\ search'.set = on /\ search'.passed = {D[i] : i \in 1 .. k}
            /\ search'.text = D[k + 1] /\ search'.left = <<>> /\ DOMAIN search' = DOMAIN search
        BY <2>5, <2>8, <2>9, <3>1
      <4>2. Searched(on, k)'
        BY <2>4, <2>5, <2>7, <2>9, <4>1 DEF Searched, DirsOf, License!Own
      <4>. QED
        BY <4>2 DEF IsSearch
    <3>2. CASE search' = [search EXCEPT !.passed = @ \cup {Head(search.left)}, !.left = Tail(@)]
      <4>1. /\ search'.set = on /\ search'.passed = {D[i] : i \in 1 .. k} \cup {D[k + 1]}
            /\ search'.text = None /\ search'.left = SubSeq(D, k + 2, Len(D))
            /\ DOMAIN search' = DOMAIN search
        BY <2>5, <2>8, <2>9, <3>2
      <4>2. {D[i] : i \in 1 .. k} \cup {D[k + 1]} = {D[i] : i \in 1 .. k + 1}
        OBVIOUS
      <4>3. k + 1 \in Nat /\ k + 1 <= Len(D) /\ (k + 1) + 1 = k + 2
        BY <2>6, <2>7
      <4>4. Searched(on, k + 1)'
        BY <2>4, <2>9, <4>1, <4>2, <4>3 DEF Searched, DirsOf, License!Own
      <4>. QED
        BY <4>3, <4>4 DEF IsSearch
    <3>. QED
      BY <2>2, <3>1, <3>2
  <2>. QED
    BY <2>1, <2>10, <1>1, <1>3 DEF LicenseInv
<1>9. ASSUME NEW on \in BOOLEAN, License!SetLicenseSearchPath(on) PROVE LicenseInv'
  <2>1. searchPath' = on /\ UNCHANGED <<credits, texts, componentInfos, found, loaded, search>>
    BY <1>9 DEF License!SetLicenseSearchPath
  <2>. QED
    BY <2>1, <1>1, <1>2 DEF LicenseInv, LicenseTypes
<1>10. ASSUME License!Install PROVE LicenseInv'
  <2>1. UNCHANGED <<searchPath, componentInfos, found, loaded, search>>
    BY <1>10 DEF License!Install
  <2>2. credits' \in [1 .. DataDirs -> Lists \cup {None}]
    BY <1>10 DEF License!Install, LicenseInv, LicenseTypes
  <2>. QED
    BY <2>1, <2>2, <1>1, <1>2 DEF LicenseInv, LicenseTypes
<1>11. CASE UNCHANGED License!licenseVars
  BY <1>11, <1>1, <1>2, <1>3 DEF LicenseInv, License!licenseVars
<1>. QED
  BY <1>4, <1>5, <1>6, <1>7, <1>8, <1>9, <1>10, <1>11 DEF License!Next

LEMMA LicenseStarts ==
    ASSUME License!Init
    PROVE  LicenseInv
<1>1. Listed
  BY DEF License!Init, Listed
<1>2. LicenseTypes /\ IsSearch
  BY DEF License!Init, LicenseTypes, IsSearch
<1>. QED
  BY <1>1, <1>2 DEF LicenseInv

LEMMA LicensePromises ==
    ASSUME LicenseInv
    PROVE  License!ListIsOneFiles
<1>1. ASSUME search.text # None
      PROVE  /\ search.set => search.text = License!Own \/ License!Own \in search.passed
             /\ search.text # License!Own => \A d \in 1 .. search.text[1] :
                   <<d, "custom">> \in search.passed \cup {search.text}
  <2>1. PICK on \in BOOLEAN, k \in Nat : Searched(on, k)
    BY <1>1 DEF LicenseInv, IsSearch, License!NoSearch
  <2>2. PICK D : D = DirsOf(on)
    OBVIOUS
  <2>3. PICK b \in {0, 1} : b = IF on THEN 1 ELSE 0
    OBVIOUS
  <2>4. DataDirs \in Nat
    BY LibraryAssumption DEF License!DLicenseInfoAssumption
  <2>5. /\ search.set = on /\ k < Len(D)
        /\ search.passed = {D[i] : i \in 1 .. k} /\ search.text = D[k + 1]
    BY <1>1, <2>1, <2>2 DEF Searched
  <2>6. /\ Len(D) = b + 2 * DataDirs
        /\ on => D[1] = License!Own
        /\ \A i \in 1 .. 2 * DataDirs : D[b + i] = Place(i)
    BY <2>2, <2>3, DirsAre
  <2>7. search.set => search.text = License!Own \/ License!Own \in search.passed
    BY <2>5, <2>6
  <2>8. ASSUME search.text # License!Own, NEW d \in 1 .. search.text[1]
        PROVE  <<d, "custom">> \in search.passed \cup {search.text}
    <3>1. PICK j \in 1 .. 2 * DataDirs : k + 1 = b + j
      <4>1. k + 1 - b \in 1 .. 2 * DataDirs
        BY <2>3, <2>4, <2>5, <2>6, <2>8
      <4>. QED
        BY <4>1
    <3>2. search.text = Place(j) /\ search.text[1] = (j + 1) \div 2
      BY <2>5, <2>6, <3>1 DEF Place
    <3>3. /\ 2 * d - 1 \in 1 .. 2 * DataDirs /\ 2 * d - 1 <= j
          /\ d \in Nat /\ j \in Nat /\ (2 * d - 1) % 2 = 1 /\ (2 * d) \div 2 = d
      <4>1. d \in Nat /\ 1 <= d /\ d <= (j + 1) \div 2 /\ j \in Nat /\ j <= 2 * DataDirs
        BY <2>4, <2>8, <3>2
      <4>2. 2 * d <= j + 1
        BY <4>1
      <4>3. (2 * d) \div 2 = d
        BY <4>1
      <4>4. (2 * d - 1) % 2 = 1
        BY <4>1
      <4>. QED
        BY <2>4, <4>1, <4>2, <4>3, <4>4
    <3>4. D[b + (2 * d - 1)] = <<d, "custom">>
      BY <2>6, <3>3 DEF Place
    <3>5. b + (2 * d - 1) \in 1 .. k + 1
      BY <2>3, <3>1, <3>3
    <3>. QED
      BY <2>5, <3>4, <3>5
  <2>. QED
    BY <2>7, <2>8
<1>. QED
  BY <1>1 DEF LicenseInv, Listed, License!ListIsOneFiles

-----------------------------------------------------------------------------
(* DSGApplication: while a thread asks about a number it has noted whoever *)
(* has that now, and the descriptor is of one it noted; id() has returned  *)
(* nothing before the static variable is there.                            *)
Asking == {"owner", "activatable", "open", "identify"}
Ids    == {NoId} \cup {Identity[p] : p \in Processes}
AskerRecs == [at : Asking \cup {"idle", "told"}, pid : Pids \cup {None},
              fd : Processes \cup {None}, answer : Ids \cup {None}]

AppTypes ==
    /\ holder \in [Pids -> Processes \cup {None}]
    /\ appName \in AppNames \cup {NoId} /\ environ \in Given \cup {NoId}
    /\ asker \in [Threads -> AskerRecs]
    /\ had \in [Threads -> SUBSET (Processes \cup {None})]
Identified ==
    /\ selfId = None => saidSelf = {}
    /\ identifying # None =>
           selfId = None /\ identifying \in Threads /\ asker[identifying].at \in Asking
Noted(t) ==
    /\ asker[t].at \in Asking =>
           asker[t].pid \in Pids /\ holder[asker[t].pid] \in had[t] \cup {None}
    /\ asker[t].at = "identify" => asker[t].fd \in had[t] \ {None}
Answered(t) ==
    asker[t].at = "told" /\ asker[t].answer # NoId =>
        \E p \in had[t] \ {None} : asker[t].answer = Identity[p]
AppInv ==
    /\ AppTypes /\ Identified /\ App!OneIdentity
    /\ \A t \in Threads : Noted(t) /\ Answered(t)

LEMMA AppConstants ==
    /\ OwnPid \in Pids /\ Me \in Processes
    /\ DOMAIN FormatAppId = AppNames \cup {Cmdline}
    /\ None \notin Ids /\ None \notin Given /\ None \notin Threads /\ None \notin Processes
    /\ None # NoId
  BY LibraryAssumption DEF App!DSGApplicationAssumption, Ids

(* A step of one thread, which leaves the world alone, keeps what is noted *)
(* for the others.                                                         *)
LEMMA OneThreadsStep ==
    ASSUME AppInv, NEW t \in Threads, NEW r \in AskerRecs, NEW h \in SUBSET (Processes \cup {None}),
           asker' = [asker EXCEPT ![t] = r], had' = [had EXCEPT ![t] = h],
           UNCHANGED <<holder, appName, environ>>,
           r.at \in Asking => r.pid \in Pids /\ holder[r.pid] \in h \cup {None},
           r.at = "identify" => r.fd \in h \ {None},
           r.at = "told" /\ r.answer # NoId => \E p \in h \ {None} : r.answer = Identity[p]
    PROVE  AppTypes' /\ (\A u \in Threads : Noted(u)' /\ Answered(u)')
<1>1. AppTypes /\ \A u \in Threads : Noted(u) /\ Answered(u)
  BY DEF AppInv
<1>2. AppTypes'
  BY <1>1 DEF AppTypes
<1>3. asker'[t] = r /\ had'[t] = h
  BY <1>1 DEF AppTypes
<1>4. Noted(t)' /\ Answered(t)'
  BY <1>3 DEF Noted, Answered
<1>5. ASSUME NEW u \in Threads \ {t} PROVE Noted(u)' /\ Answered(u)'
  <2>1. asker'[u] = asker[u] /\ had'[u] = had[u]
    BY <1>1, <1>5 DEF AppTypes
  <2>. QED
    BY <1>1, <2>1 DEF Noted, Answered
<1>. QED
  BY <1>2, <1>4, <1>5

LEMMA NoCallWith ==
    ASSUME NEW at, NEW pid, NEW answer
    PROVE  /\ [App!NoCall EXCEPT !.at = at, !.pid = pid] =
                  [at |-> at, pid |-> pid, fd |-> None, answer |-> None]
           /\ [App!NoCall EXCEPT !.at = at, !.pid = pid, !.answer = answer] =
                  [at |-> at, pid |-> pid, fd |-> None, answer |-> answer]
<1>1. ASSUME NEW e, DOMAIN e = {"at", "pid", "fd", "answer"}, e = [x \in DOMAIN e |-> e[x]]
      PROVE  e = [at |-> e.at, pid |-> e.pid, fd |-> e.fd, answer |-> e.answer]
  BY <1>1
<1>2. PICK c : c = App!NoCall
  OBVIOUS
<1>3. c = [at |-> "idle", pid |-> None, fd |-> None, answer |-> None]
  BY <1>2 DEF App!NoCall
<1>4. PICK e : e = [c EXCEPT !.at = at, !.pid = pid]
  OBVIOUS
<1>5. e = [at |-> at, pid |-> pid, fd |-> None, answer |-> None]
  <2>1. e.at = at /\ e.pid = pid /\ e.fd = None /\ e.answer = None
    BY <1>3, <1>4
  <2>2. DOMAIN e = {"at", "pid", "fd", "answer"} /\ e = [x \in DOMAIN e |-> e[x]]
    BY <1>3, <1>4
  <2>. QED
    BY <2>1, <2>2, <1>1
<1>6. PICK f : f = [c EXCEPT !.at = at, !.pid = pid, !.answer = answer]
  OBVIOUS
<1>7. f = [at |-> at, pid |-> pid, fd |-> None, answer |-> answer]
  <2>1. f.at = at /\ f.pid = pid /\ f.fd = None /\ f.answer = answer
    BY <1>3, <1>6
  <2>2. DOMAIN f = {"at", "pid", "fd", "answer"} /\ f = [x \in DOMAIN f |-> f[x]]
    BY <1>3, <1>6
  <2>. QED
    BY <2>1, <2>2, <1>1
<1>. QED
  BY <1>2, <1>4, <1>5, <1>6, <1>7

LEMMA AskStep ==
    ASSUME AppInv, NEW t \in Threads, NEW pid \in Pids, App!Ask(t, pid),
           UNCHANGED <<holder, appName, environ>>
    PROVE  /\ AppTypes' /\ (\A u \in Threads : Noted(u)' /\ Answered(u)')
           /\ asker'[t].at \in Asking
           /\ \A u \in Threads \ {t} : asker'[u] = asker[u]
<1>. DEFINE r == [at |-> "owner", pid |-> pid, fd |-> None, answer |-> None]
            h == {holder[pid]}
<1>0. AppTypes
  BY DEF AppInv
<1>1. asker' = [asker EXCEPT ![t] = r] /\ had' = [had EXCEPT ![t] = h]
  <2>1. [App!NoCall EXCEPT !.at = "owner", !.pid = pid] = r
    BY NoCallWith
  <2>. QED
    BY <2>1 DEF App!Ask
<1>2. r \in AskerRecs /\ h \in SUBSET (Processes \cup {None})
  BY <1>0 DEF AppTypes, AskerRecs, Asking
<1>3. r.pid = pid /\ holder[r.pid] \in h /\ r.at = "owner"
  OBVIOUS
<1>. HIDE DEF r, h
<1>4. AppTypes' /\ (\A u \in Threads : Noted(u)' /\ Answered(u)')
  BY <1>1, <1>2, <1>3, OneThreadsStep
<1>. QED
  BY <1>0, <1>1, <1>3, <1>4 DEF AppTypes, Asking

(* An answer becomes the identity of this process if that was asked for.   *)
LEMMA AnswerStep ==
    ASSUME AppInv, NEW t \in Threads, asker[t].at \in Asking, NEW id \in Ids, App!Answer(t, id),
           UNCHANGED <<holder, appName, environ, fallback, had, saidSelf>>,
           id # NoId => \E p \in had[t] \ {None} : id = Identity[p]
    PROVE  AppInv'
<1>. DEFINE r == [at |-> "told", pid |-> asker[t].pid, fd |-> None, answer |-> id]
<1>0. AppTypes /\ Identified /\ App!OneIdentity /\ asker[t] \in AskerRecs /\ had[t] \in SUBSET (Processes \cup {None})
  BY DEF AppInv, AppTypes
<1>1. asker' = [asker EXCEPT ![t] = r]
  <2>1. [App!NoCall EXCEPT !.at = "told", !.pid = asker[t].pid, !.answer = id] = r
    BY NoCallWith
  <2>. QED
    BY <2>1 DEF App!Answer
<1>2. had' = [had EXCEPT ![t] = had[t]]
  BY <1>0 DEF AppTypes
<1>3. r \in AskerRecs
  BY <1>0 DEF AskerRecs
<1>4. r.at = "told" /\ r.answer = id /\ r.at \notin Asking
  BY DEF Asking
<1>. HIDE DEF r
<1>5. AppTypes' /\ (\A u \in Threads : Noted(u)' /\ Answered(u)')
  BY <1>0, <1>1, <1>2, <1>3, <1>4, OneThreadsStep
<1>6. Identified' /\ App!OneIdentity'
  <2>1. CASE identifying = t
    <3>1. selfId' = id /\ identifying' = None
      BY <2>1 DEF App!Answer
    <3>2. selfId = None /\ saidSelf = {} /\ saidSelf' = {}
      BY <2>1, <1>0, AppConstants DEF Identified
    <3>. QED
      BY <3>1, <3>2, AppConstants DEF Identified, App!OneIdentity
  <2>2. CASE identifying # t
    <3>1. UNCHANGED <<selfId, identifying, saidSelf>>
      BY <2>2 DEF App!Answer
    <3>2. ASSUME identifying # None PROVE asker'[identifying] = asker[identifying]
      BY <1>0, <1>1, <2>2, <3>2 DEF AppTypes, Identified
    <3>. QED
      BY <1>0, <3>1, <3>2 DEF Identified, App!OneIdentity
  <2>. QED
    BY <2>1, <2>2
<1>. QED
  BY <1>5, <1>6 DEF AppInv

(* The next question: the thread asks on.                                  *)
LEMMA GoesOn ==
    ASSUME AppInv, NEW t \in Threads, asker[t].at \in Asking, NEW r \in AskerRecs,
           asker' = [asker EXCEPT ![t] = r], r.at \in Asking, r.pid = asker[t].pid,
           r.at = "identify" => r.fd \in had[t] \ {None},
           UNCHANGED <<holder, appName, environ, selfId, identifying, had, saidSelf>>
    PROVE  AppInv'
<1>0. AppTypes /\ Identified /\ App!OneIdentity /\ Noted(t) /\ had[t] \in SUBSET (Processes \cup {None})
  BY DEF AppInv, AppTypes
<1>1. had' = [had EXCEPT ![t] = had[t]]
  BY <1>0 DEF AppTypes
<1>2. r.pid \in Pids /\ holder[r.pid] \in had[t] \cup {None} /\ r.at # "told"
  BY <1>0 DEF Noted, Asking
<1>3. AppTypes' /\ (\A u \in Threads : Noted(u)' /\ Answered(u)')
  BY <1>0, <1>1, <1>2, OneThreadsStep
<1>4. Identified'
  BY <1>0 DEF Identified, AppTypes
<1>5. App!OneIdentity'
  BY <1>0 DEF App!OneIdentity
<1>. QED
  BY <1>3, <1>4, <1>5 DEF AppInv

LEMMA SelfIdStep ==
    ASSUME AppInv, NEW t \in Threads, App!SelfId(t)
    PROVE  AppInv'
<1>1. /\ selfId # None /\ saidSelf' = saidSelf \cup {App!Id}
      /\ UNCHANGED <<holder, environ, fallback, appName, selfId, identifying, asker, had>>
  BY DEF App!SelfId, App!world
<1>2. App!OneIdentity'
  <2>1. CASE selfId # NoId
    BY <1>1, <2>1 DEF App!Id, AppInv, App!OneIdentity
  <2>2. CASE selfId = NoId
    <3>1. App!Id \in {FormatAppId[n] : n \in DOMAIN FormatAppId} \cup {NoId}
      BY <2>2, AppConstants DEF App!Id, AppInv, AppTypes
    <3>. QED
      BY <1>1, <2>2, <3>1 DEF AppInv, App!OneIdentity
  <2>. QED
    BY <2>1, <2>2
<1>. QED
  BY <1>1, <1>2 DEF AppInv, AppTypes, Identified, Noted, Answered

LEMMA InitSelfIdStep ==
    ASSUME AppInv, NEW t \in Threads, App!InitSelfId(t)
    PROVE  AppInv'
<1>1. /\ asker[t].at = "idle" /\ selfId = None /\ identifying = None
      /\ UNCHANGED <<holder, environ, fallback, appName, saidSelf>>
      /\ saidSelf = {}
  BY DEF App!InitSelfId, App!world, AppInv, Identified
<1>2. CASE environ # NoId
  <2>1. selfId' = environ /\ UNCHANGED <<identifying, asker, had>> /\ environ # None
    BY <1>2, AppConstants DEF App!InitSelfId, AppInv, AppTypes
  <2>. QED
    BY <1>1, <2>1 DEF AppInv, AppTypes, Identified, Noted, Answered, App!OneIdentity
<1>3. CASE environ = NoId
  <2>1. identifying' = t /\ App!Ask(t, OwnPid) /\ UNCHANGED selfId
    BY <1>3 DEF App!InitSelfId
  <2>2. /\ AppTypes' /\ (\A u \in Threads : Noted(u)' /\ Answered(u)')
        /\ asker'[t].at \in Asking
    BY <1>1, <2>1, AskStep, AppConstants
  <2>3. Identified' /\ App!OneIdentity'
    BY <1>1, <2>1, <2>2 DEF Identified, AppInv, App!OneIdentity
  <2>. QED
    BY <2>2, <2>3 DEF AppInv
<1>. QED
  BY <1>2, <1>3

LEMMA GetIdStep ==
    ASSUME AppInv, NEW t \in Threads, NEW pid \in Pids, App!GetId(t, pid)
    PROVE  AppInv'
<1>1. /\ asker[t].at = "idle" /\ App!Ask(t, pid)
      /\ UNCHANGED <<holder, environ, fallback, appName, selfId, identifying, saidSelf>>
  BY DEF App!GetId, App!world
<1>2. /\ AppTypes' /\ (\A u \in Threads : Noted(u)' /\ Answered(u)')
      /\ \A u \in Threads \ {t} : asker'[u] = asker[u]
  BY <1>1, AskStep
<1>3. Identified' /\ App!OneIdentity'
  BY <1>1, <1>2 DEF Identified, AppInv, App!OneIdentity, Asking
<1>. QED
  BY <1>2, <1>3 DEF AppInv

LEMMA QuestionStep ==
    ASSUME AppInv, NEW t \in Threads,
           App!NameHasOwner(t) \/ App!ListActivatableNames(t)
    PROVE  AppInv'
<1>. DEFINE next == IF asker[t].at = "owner" THEN "activatable" ELSE "open"
            r == [asker[t] EXCEPT !.at = next]
<1>1. /\ asker[t].at \in {"owner", "activatable"} /\ asker[t].at \in Asking
      /\ UNCHANGED <<holder, environ, fallback, appName, had, saidSelf>>
      /\ \/ asker' = [asker EXCEPT ![t].at = next] /\ UNCHANGED <<selfId, identifying>>
         \/ App!Answer(t, NoId)
  BY DEF App!NameHasOwner, App!ListActivatableNames, App!world, Asking
<1>2. CASE App!Answer(t, NoId)
  BY <1>1, <1>2, AnswerStep DEF Ids
<1>3. CASE asker' = [asker EXCEPT ![t].at = next] /\ UNCHANGED <<selfId, identifying>>
  <2>1. asker[t] \in AskerRecs
    BY DEF AppInv, AppTypes
  <2>2. r \in AskerRecs /\ r.at = next /\ r.pid = asker[t].pid
    BY <2>1 DEF AskerRecs, Asking
  <2>3. next \in Asking /\ next # "identify"
    BY DEF Asking
  <2>4. asker' = [asker EXCEPT ![t] = r]
    BY <1>3
  <2>. HIDE DEF r, next
  <2>. QED
    BY <1>1, <1>3, <2>2, <2>3, <2>4, GoesOn
<1>. QED
  BY <1>1, <1>2, <1>3

LEMMA PidfdOpenStep ==
    ASSUME AppInv, NEW t \in Threads, App!PidfdOpen(t)
    PROVE  AppInv'
<1>. DEFINE r == [asker[t] EXCEPT !.at = "identify", !.fd = holder[asker[t].pid]]
<1>1. /\ asker[t].at = "open" /\ asker[t].at \in Asking
      /\ UNCHANGED <<holder, environ, fallback, appName, had, saidSelf>>
  BY DEF App!PidfdOpen, App!world, Asking
<1>2. /\ asker[t] \in AskerRecs /\ asker[t].pid \in Pids
      /\ holder[asker[t].pid] \in had[t] \cup {None}
      /\ holder[asker[t].pid] \in Processes \cup {None}
  BY <1>1 DEF AppInv, AppTypes, Noted
<1>3. CASE holder[asker[t].pid] = None
  <2>1. App!Answer(t, NoId)
    BY <1>3 DEF App!PidfdOpen
  <2>. QED
    BY <1>1, <2>1, AnswerStep DEF Ids
<1>4. CASE holder[asker[t].pid] # None
  <2>1. /\ asker' = [asker EXCEPT ![t].at = "identify", ![t].fd = holder[asker[t].pid]]
        /\ UNCHANGED <<selfId, identifying>>
    BY <1>4 DEF App!PidfdOpen
  <2>2. asker \in [Threads -> AskerRecs]
    BY DEF AppInv, AppTypes
  <2>3. asker' = [asker EXCEPT ![t] = r]
    BY <2>1, <2>2
  <2>4. /\ r \in AskerRecs /\ r.at = "identify" /\ r.pid = asker[t].pid
        /\ r.fd \in had[t] \ {None} /\ r.at \in Asking
    BY <1>2, <1>4 DEF AskerRecs, Asking
  <2>. HIDE DEF r
  <2>. QED
    BY <1>1, <2>1, <2>3, <2>4, GoesOn
<1>. QED
  BY <1>3, <1>4

LEMMA IdentifyStep ==
    ASSUME AppInv, NEW t \in Threads, App!Identify(t)
    PROVE  AppInv'
<1>1. /\ asker[t].at = "identify" /\ asker[t].at \in Asking
      /\ UNCHANGED <<holder, environ, fallback, appName, had, saidSelf>>
  BY DEF App!Identify, App!world, Asking
<1>2. asker[t].fd \in had[t] \ {None} /\ asker[t].fd \in Processes
  BY <1>1 DEF AppInv, Noted, AppTypes, AskerRecs
<1>3. PICK id \in {NoId} \cup
               {Identity[p] : p \in {asker[t].fd} \cap {holder[asker[t].pid]}} : App!Answer(t, id)
  BY DEF App!Identify
<1>4. id \in Ids /\ (id # NoId => id = Identity[asker[t].fd])
  BY <1>2, <1>3 DEF Ids
<1>. QED
  BY <1>1, <1>2, <1>3, <1>4, AnswerStep

LEMMA ReturnStep ==
    ASSUME AppInv, NEW t \in Threads, App!Return(t)
    PROVE  AppInv'
<1>1. /\ asker[t].at = "told" /\ asker' = [asker EXCEPT ![t] = App!NoCall]
      /\ had' = [had EXCEPT ![t] = {}]
      /\ UNCHANGED <<holder, environ, fallback, appName, selfId, identifying, saidSelf>>
  BY DEF App!Return, App!world
<1>2. /\ App!NoCall \in AskerRecs /\ App!NoCall.at = "idle" /\ "idle" \notin Asking
      /\ {} \in SUBSET (Processes \cup {None})
  BY DEF App!NoCall, AskerRecs, Asking
<1>3. AppTypes' /\ (\A u \in Threads : Noted(u)' /\ Answered(u)')
  BY <1>1, <1>2, OneThreadsStep DEF Asking
<1>4. Identified' /\ App!OneIdentity'
  BY <1>1 DEF Identified, AppInv, AppTypes, App!OneIdentity, Asking
<1>. QED
  BY <1>3, <1>4 DEF AppInv

LEMMA WorldStep ==
    ASSUME AppInv,
           \/ \E n \in Pids : App!Exit(n) \/ \E p \in Processes : App!Fork(n, p)
           \/ \E n \in AppNames : App!SetName(n)
    PROVE  AppInv'
<1>0. AppTypes /\ Identified /\ App!OneIdentity /\ \A t \in Threads : Noted(t) /\ Answered(t)
  BY DEF AppInv
<1>1. ASSUME NEW n \in Pids, App!Exit(n) PROVE AppInv'
  <2>1. /\ holder' = [holder EXCEPT ![n] = None]
        /\ UNCHANGED <<environ, fallback, appName, selfId, identifying, asker, had, saidSelf>>
    BY <1>1 DEF App!Exit
  <2>2. AppTypes' /\ Identified' /\ App!OneIdentity'
    BY <1>0, <2>1 DEF AppTypes, Identified, App!OneIdentity
  <2>3. \A t \in Threads : Noted(t)' /\ Answered(t)'
    BY <1>0, <2>1 DEF AppTypes, Noted, Answered
  <2>. QED
    BY <2>2, <2>3 DEF AppInv
<1>2. ASSUME NEW n \in Pids, NEW p \in Processes, App!Fork(n, p) PROVE AppInv'
  <2>1. /\ holder' = [holder EXCEPT ![n] = p]
        /\ had' = [t \in Threads |-> IF asker[t].pid = n THEN had[t] \cup {p} ELSE had[t]]
        /\ UNCHANGED <<environ, fallback, appName, selfId, identifying, asker, saidSelf>>
    BY <1>2 DEF App!Fork
  <2>2. AppTypes' /\ Identified' /\ App!OneIdentity'
    BY <1>0, <2>1 DEF AppTypes, Identified, App!OneIdentity
  <2>3. ASSUME NEW t \in Threads PROVE Noted(t)' /\ Answered(t)'
    <3>1. had[t] \subseteq had'[t] /\ (asker[t].pid = n => p \in had'[t])
      BY <2>1
    <3>2. Noted(t) /\ Answered(t) /\ asker'[t] = asker[t]
      BY <1>0, <2>1
    <3>3. Answered(t)'
      BY <3>1, <3>2 DEF Answered
    <3>4. Noted(t)'
      BY <1>0, <2>1, <3>1, <3>2 DEF Noted, AppTypes
    <3>. QED
      BY <3>3, <3>4
  <2>. QED
    BY <2>2, <2>3 DEF AppInv
<1>3. ASSUME NEW n \in AppNames, App!SetName(n) PROVE AppInv'
  BY <1>0, <1>3 DEF App!SetName, AppInv, AppTypes, Identified, App!OneIdentity, Noted, Answered
<1>. QED
  BY <1>1, <1>2, <1>3

LEMMA AppStep ==
    ASSUME AppInv, App!Next \/ UNCHANGED App!appVars
    PROVE  AppInv'
<1>1. CASE UNCHANGED App!appVars
  BY <1>1 DEF App!appVars, AppInv, AppTypes, Identified, App!OneIdentity, Noted, Answered
<1>2. ASSUME NEW t \in Threads, App!SelfId(t) \/ App!InitSelfId(t) \/ App!Return(t)
      PROVE  AppInv'
  BY <1>2, SelfIdStep, InitSelfIdStep, ReturnStep
<1>3. ASSUME NEW t \in Threads, NEW pid \in Pids, App!GetId(t, pid)
      PROVE  AppInv'
  BY <1>3, GetIdStep
<1>4. ASSUME NEW t \in Threads,
             \/ App!NameHasOwner(t) \/ App!ListActivatableNames(t)
             \/ App!PidfdOpen(t) \/ App!Identify(t)
      PROVE  AppInv'
  BY <1>4, QuestionStep, PidfdOpenStep, IdentifyStep
<1>. QED
  BY <1>1, <1>2, <1>3, <1>4, WorldStep DEF App!Next

LEMMA AppStarts ==
    ASSUME App!Init
    PROVE  AppInv
<1>1. /\ App!NoCall \in AskerRecs /\ App!NoCall.at = "idle"
      /\ "idle" \notin Asking
  BY DEF App!NoCall, AskerRecs, Asking
<1>2. AppTypes
  BY <1>1, AppConstants DEF App!Init, AppTypes
<1>3. \A t \in Threads : Noted(t) /\ Answered(t)
  BY <1>1 DEF App!Init, Noted, Answered
<1>. QED
  BY <1>2, <1>3 DEF App!Init, AppInv, Identified, App!OneIdentity

(* What is kept of configurations and files is what these say, each within *)
(* its limits.  The rules of the log are those of the configuration that   *)
(* is chosen once no event is under way, unless a value was set to or      *)
(* reset from the one in force (LogManager.cpp:72 to 134).  The version is *)
(* what one file that was installed says, as long as all of them were      *)
(* whole (dsysinfo.cpp:255 to 379).  The components are those of the one   *)
(* file that was loaded, and a text is from the first directory that has   *)
(* one (dlicenseinfo.cpp:98 to 175).  An application has one identity, and *)
(* what it says of a number is of a process that had it                    *)
(* (dsgapplication.cpp:161 to 324).                                        *)
THEOREM KeptStaysTrue ==
    Log!Spec /\ SysInfo!Spec /\ License!Spec /\ App!Spec => []KeptIsTrue
<1>1. Log!Init /\ SysInfo!Init /\ License!Init /\ App!Init
      => LogInv /\ SystemInv /\ LicenseInv /\ AppInv
  BY LogStarts, SystemStarts, LicenseStarts, AppStarts
<1>2. LogInv /\ [Log!Next]_(Log!logVars) => LogInv'
  BY LogStep
<1>3. SystemInv /\ [SysInfo!Next]_(SysInfo!sysVars) => SystemInv'
  BY SystemStep
<1>4. LicenseInv /\ [License!Next]_(License!licenseVars) => LicenseInv'
  BY LicenseStep
<1>5. AppInv /\ [App!Next]_(App!appVars) => AppInv'
  BY AppStep
<1>6. LogInv /\ SystemInv /\ LicenseInv /\ AppInv => KeptIsTrue
  <2>1. LogInv => Of("log", Log!RulesAreChosen)
    BY LogPromises DEF Of
  <2>2. SystemInv => Of("system", SysInfo!VersionIsOneFiles)
    BY SystemPromises DEF Of
  <2>3. LicenseInv => Of("license", License!ListIsOneFiles)
    BY LicensePromises DEF Of
  <2>4. AppInv => Of("app", App!OneIdentity /\ App!ForWhom)
    BY DEF AppInv, Answered, Of, App!ForWhom
  <2>. QED
    BY <2>1, <2>2, <2>3, <2>4 DEF KeptIsTrue
<1>. QED
  BY <1>1, <1>2, <1>3, <1>4, <1>5, <1>6, PTL
     DEF Log!Spec, SysInfo!Spec, License!Spec, App!Spec
-----------------------------------------------------------------------------
(***************************************************************************)
(* Types, part by part: what the invariants above leave out.               *)
(***************************************************************************)
(* DCap. *)
CapTypes ==
    /\ Len(pathList) <= MaxPaths
    /\ tree \in [CapPaths -> {"none", "file", "dir"}]
    /\ dir \in CapPaths /\ filePath \in CapPaths

LEMMA CapTyped ==
    ASSUME Cap!DCapAssumption, CapInv, CapTypes, Cap!Next \/ UNCHANGED Cap!capVars
    PROVE  CapTypes'
<1>0. /\ pathList \in Seq(CapPaths) /\ Len(pathList) \in Nat /\ MaxPaths \in Nat
      /\ DOMAIN pathList = 1 .. Len(pathList)
      /\ Len(pathList) <= MaxPaths
      /\ tree \in [CapPaths -> {"none", "file", "dir"}]
      /\ dir \in CapPaths /\ filePath \in CapPaths
  BY LenProperties DEF CapInv, CapTypes, Cap!DCapAssumption
<1>1. ASSUME UNCHANGED <<pathList, dir, filePath>>,
             tree' \in [CapPaths -> {"none", "file", "dir"}]
      PROVE  CapTypes'
  BY <1>0, <1>1 DEF CapTypes
<1>2. ASSUME NEW ps, NEW what \in {"none", "file", "dir"}, Cap!Put(ps, what), Cap!OnlyTree
      PROVE  CapTypes'
  BY <1>0, <1>1, <1>2 DEF Cap!Put, Cap!OnlyTree
<1>3. ASSUME UNCHANGED <<pathList, tree>>, dir' \in CapPaths, filePath' \in CapPaths
      PROVE  CapTypes'
  BY <1>0, <1>3 DEF CapTypes
<1>4. ASSUME UNCHANGED <<tree, dir, filePath>>, Len(pathList') <= MaxPaths
      PROVE  CapTypes'
  BY <1>0, <1>4 DEF CapTypes
<1>5. ASSUME NEW p \in CapPaths, NEW q \in CapPaths, NEW static \in BOOLEAN,
             Cap!Rename(p, q, static)
      PROVE  CapTypes'
  <2>1. tree' = [tree EXCEPT ![p] = "none", ![q] = "file"] /\ UNCHANGED <<pathList, dir, filePath>>
    BY <1>5 DEF Cap!Rename, Cap!OnlyTree
  <2>2. tree' \in [CapPaths -> {"none", "file", "dir"}]
    BY <1>0, <2>1
  <2>. QED
    BY <1>1, <2>1, <2>2
<1>6. ASSUME NEW path \in Cap!Written, Cap!AppendPath(path) PROVE CapTypes'
  <2>. DEFINE p == Cap!CleanPath(path)
  <2>1. p \in CapPaths
    BY CleanIsPath
  <2>2. Len(pathList) < MaxPaths /\ UNCHANGED <<tree, dir, filePath>>
        /\ (pathList' = pathList \/ pathList' = Append(pathList, p))
    BY <1>6 DEF Cap!AppendPath
  <2>. HIDE DEF p
  <2>3. Len(Append(pathList, p)) = Len(pathList) + 1
    BY <1>0, <2>1, AppendProperties
  <2>4. Len(pathList') <= MaxPaths
    BY <1>0, <2>2, <2>3
  <2>. QED
    BY <1>4, <2>2, <2>4
<1>7. ASSUME NEW path \in Cap!Written, Cap!RemovePath(path) PROVE CapTypes'
  <2>. DEFINE p == Cap!CleanPath(path)
              at == {i \in DOMAIN pathList : pathList[i] = p}
              k == CHOOSE i \in at : \A j \in at : i <= j
  <2>1. /\ UNCHANGED <<tree, dir, filePath>>
        /\ pathList' = IF at = {} THEN pathList
                       ELSE SubSeq(pathList, 1, k - 1) \o SubSeq(pathList, k + 1, Len(pathList))
    BY <1>7 DEF Cap!RemovePath
  <2>2. CASE at = {}
    BY <1>0, <1>4, <2>1, <2>2
  <2>3. CASE at # {}
    <3>1. k \in 1 .. Len(pathList)
      <4>1. at \in SUBSET Nat
        BY <1>0
      <4>2. \E i \in at : \A j \in at : i <= j
        <5>. HIDE DEF at
        <5>. QED
          BY <2>3, <4>1, Smallest
      <4>. QED
        BY <1>0, <4>2
    <3>. HIDE DEF k
    <3>2. pathList' = SubSeq(pathList, 1, k - 1) \o SubSeq(pathList, k + 1, Len(pathList))
      BY <2>1, <2>3, Zenon
    <3>3. Len(pathList') = Len(pathList) - 1
      BY <1>0, <3>1, <3>2, WithoutOne, Zenon
    <3>4. Len(pathList') <= MaxPaths
      BY <1>0, <3>3
    <3>. QED
      BY <1>4, <2>1, <3>4
  <2>. QED
    BY <2>2, <2>3
<1>8. ASSUME NEW p \in CapPaths, Cap!Open(p) \/ Cap!RemoveFile(p) PROVE CapTypes'
  BY <1>2, <1>8 DEF Cap!Open, Cap!RemoveFile
<1>9. ASSUME NEW p \in CapPaths, NEW q \in CapPaths, NEW static \in BOOLEAN,
             Cap!RenameOverwrite(p, q) \/ Cap!CopyTo(p, q, static)
      PROVE  CapTypes'
  BY <1>2, <1>9 DEF Cap!RenameOverwrite, Cap!CopyTo
<1>10. ASSUME NEW p \in CapPaths, NEW q \in CapPaths, Cap!DirRename(p, q) PROVE CapTypes'
  BY <1>5, <1>10 DEF Cap!DirRename
<1>11. ASSUME NEW p \in CapPaths, Cap!SetPath(p) \/ Cap!Cd(p) PROVE CapTypes'
  BY <1>3, <1>11 DEF Cap!SetPath, Cap!Cd
<1>12. ASSUME NEW p \in CapPaths, Cap!MkDir(p) \/ Cap!MkPath(p) \/ Cap!RmDir(p) \/ Cap!RmPath(p)
       PROVE  CapTypes'
  BY <1>2, <1>12 DEF Cap!MkDir, Cap!MkPath, Cap!RmDir, Cap!RmPath
<1>13. CASE Cap!CdUp
  BY <1>0, <1>3, <1>13 DEF Cap!CdUp
<1>14. CASE UNCHANGED Cap!capVars
  BY <1>0, <1>1, <1>14 DEF Cap!capVars
<1>. QED
  BY <1>5, <1>6, <1>7, <1>8, <1>9, <1>10, <1>11, <1>12, <1>13, <1>14 DEF Cap!Next

LEMMA CapStartsTyped ==
    ASSUME Cap!DCapAssumption, Cap!Init
    PROVE  CapInv /\ CapTypes
BY DEF Cap!Init, CapInv, CapTypes, Cap!DCapAssumption
-----------------------------------------------------------------------------
(* DLog. *)
Appenders == [kind : {"console", "journal", "file"}, path : LogPaths \cup {DefaultPath, None}]
LogTypes ==
    /\ rules \in RuleSets \cup {None} /\ seen \subseteq Log!Configs
    /\ registered \in Seq(Appenders)
    /\ console \in 0 .. Len(registered)
    /\ logPath \in LogPaths \cup {DefaultPath, None}

LEMMA LogTyped ==
    ASSUME Log!DLogAssumption, LogInv, LogTypes, Log!Next \/ UNCHANGED Log!logVars
    PROVE  LogTypes'
<1>0. /\ registered \in Seq(Appenders) /\ Len(registered) \in Nat
      /\ console \in 0 .. Len(registered)
      /\ logPath \in LogPaths \cup {DefaultPath, None}
      /\ Log!LogFilePath \in LogPaths \cup {DefaultPath, None}
      /\ rules \in RuleSets \cup {None} /\ seen \subseteq Log!Configs /\ RulesTypes'
      /\ DefaultRules \in [Log!Configs -> RuleSets] /\ "dsg" \in Log!Configs
      /\ "fallback" \in Log!Configs
  BY LogStep, LenProperties DEF LogInv, LogTypes, Log!LogFilePath, Log!DLogAssumption, Log!Configs
<1>1. ASSUME UNCHANGED <<registered, console, logPath>>,
             rules' \in RuleSets \cup {None}, seen' \subseteq Log!Configs
      PROVE  LogTypes'
  BY <1>0, <1>1 DEF LogTypes
<1>2. ASSUME Log!UpdateLoggingRules, UNCHANGED <<registered, console, logPath>>
      PROVE  LogTypes'
  <2>1. Log!Chosen(config', Log!Marks, shown') \in RuleSets \cup {None}
    BY <1>0 DEF RulesTypes, Log!Chosen
  <2>. QED
    BY <1>0, <1>1, <1>2, <2>1 DEF Log!UpdateLoggingRules, Log!Marks
<1>3. ASSUME UNCHANGED <<rules, seen>>, registered' \in Seq(Appenders),
             console' \in 0 .. Len(registered'), logPath' \in LogPaths \cup {DefaultPath, None}
      PROVE  LogTypes'
  BY <1>0, <1>3 DEF LogTypes
<1>4. ASSUME NEW e \in Appenders
      PROVE  /\ Append(registered, e) \in Seq(Appenders)
             /\ Len(Append(registered, e)) = Len(registered) + 1
  BY <1>0, AppendProperties
<1>5. /\ [kind |-> "console", path |-> None] \in Appenders
      /\ [kind |-> "journal", path |-> None] \in Appenders
      /\ [kind |-> "file", path |-> Log!LogFilePath] \in Appenders
  BY <1>0 DEF Appenders
<1>6. ASSUME NEW c \in Log!Configs, Log!InitSucceed(c) \/ Log!RulesChanged(c)
      PROVE  LogTypes'
  BY <1>0, <1>1, <1>2, <1>6 DEF Log!InitSucceed, Log!RulesChanged, Log!appenderVars
<1>7. ASSUME NEW c \in Log!Configs, NEW v \in RuleSets \cup {None},
             Log!Initialize(c, v) \/ Log!Change(c, v) \/ Log!InitFail(c)
      PROVE  LogTypes'
  BY <1>0, <1>1, <1>7 DEF Log!Initialize, Log!Change, Log!InitFail, Log!appenderVars
<1>8. CASE Log!RegisterConsoleAppender
  <2>1. UNCHANGED <<rules, seen, logPath>>
    BY <1>8 DEF Log!RegisterConsoleAppender, Log!OnlyAppenders, Log!ruleVars
  <2>2. \/ UNCHANGED <<registered, console>>
        \/ /\ registered' = Append(registered, [kind |-> "console", path |-> None])
           /\ console' = Len(registered) + 1
    BY <1>8 DEF Log!RegisterConsoleAppender
  <2>3. Len(registered) + 1 \in 0 .. Len(registered) + 1
    BY <1>0
  <2>4. registered' \in Seq(Appenders) /\ console' \in 0 .. Len(registered')
    BY <1>0, <1>4, <1>5, <2>2, <2>3
  <2>. QED
    BY <1>0, <1>3, <2>1, <2>4
<1>9. CASE Log!RegisterJournalAppender
  <2>. DEFINE all == Append(registered, [kind |-> "journal", path |-> None])
  <2>1. UNCHANGED <<rules, seen, logPath>>
    BY <1>9 DEF Log!RegisterJournalAppender, Log!OnlyAppenders, Log!ruleVars
  <2>2. \/ /\ console # 0 /\ console' = 0
           /\ registered' = SubSeq(all, 1, console - 1) \o SubSeq(all, console + 1, Len(all))
        \/ registered' = all /\ console' = console
    BY <1>9 DEF Log!RegisterJournalAppender
  <2>3. all \in Seq(Appenders) /\ Len(all) = Len(registered) + 1
    BY <1>4, <1>5
  <2>. HIDE DEF all
  <2>4. registered' \in Seq(Appenders) /\ console' \in 0 .. Len(registered')
    <3>1. CASE registered' = all /\ console' = console
      BY <1>0, <2>3, <3>1
    <3>2. CASE /\ console # 0 /\ console' = 0
               /\ registered' = SubSeq(all, 1, console - 1) \o SubSeq(all, console + 1, Len(all))
      <4>1. console \in 1 .. Len(all)
        BY <1>0, <2>3, <3>2
      <4>2. registered' \in Seq(Appenders) /\ Len(registered') = Len(all) - 1
        BY <2>3, <3>2, <4>1, WithoutOne
      <4>. QED
        BY <1>0, <2>3, <3>2, <4>2
    <3>. QED
      BY <2>2, <3>1, <3>2
  <2>. QED
    BY <1>0, <1>3, <2>1, <2>4
<1>10. CASE Log!RegisterFileAppender
  <2>1. /\ UNCHANGED <<rules, seen, console>> /\ logPath' = Log!LogFilePath
        /\ registered' = Append(registered, [kind |-> "file", path |-> Log!LogFilePath])
    BY <1>10 DEF Log!RegisterFileAppender, Log!OnlyAppenders, Log!ruleVars
  <2>2. registered' \in Seq(Appenders) /\ console' \in 0 .. Len(registered')
    BY <1>0, <1>4, <1>5, <2>1
  <2>. QED
    BY <1>0, <1>3, <2>1, <2>2
<1>11. ASSUME Log!GetLogFilePath \/ \E p \in LogPaths : Log!SetLogFilePath(p)
       PROVE  LogTypes'
  BY <1>0, <1>3, <1>11 DEF Log!GetLogFilePath, Log!SetLogFilePath, Log!OnlyAppenders,
     Log!ruleVars
<1>12. CASE UNCHANGED Log!logVars
  BY <1>0, <1>1, <1>12 DEF Log!logVars
<1>. QED
  BY <1>6, <1>7, <1>8, <1>9, <1>10, <1>11, <1>12 DEF Log!Next

LEMMA LogStartsTyped ==
    ASSUME Log!Init
    PROVE  LogTypes
BY EmptySeq DEF Log!Init, LogTypes

-----------------------------------------------------------------------------
(* DSysInfo. *)
Builds == [1 .. 5 -> Nat]
LEMMA EnsuredBuild ==
    ASSUME SysInfo!DSysInfoAssumption, NEW f \in OsFiles, NEW build \in Builds, NEW min
    PROVE  SysInfo!Ensured(f, build, min).build \in Builds
<1>. DEFINE bad   == {i \in 1 .. 5 : f.build[i] = SysInfo!Bad}
            first == CHOOSE i \in bad : \A j \in bad : i <= j
<1>1. CASE build[1] > 0 \/ f = None \/ Len(f.build) # 5
  BY <1>1 DEF SysInfo!Ensured
<1>2. CASE ~(build[1] > 0 \/ f = None \/ Len(f.build) # 5)
  <2>1. /\ f.build \in Seq(Nat \cup {SysInfo!Bad}) /\ Len(f.build) = 5
        /\ DOMAIN f.build = 1 .. 5
    BY <1>2, LenProperties DEF SysInfo!DSysInfoAssumption
  <2>2. \A i \in 1 .. 5 : f.build[i] \in Nat \cup {SysInfo!Bad}
    BY <2>1, ElementOfSeq
  <2>3. CASE bad = {}
    <3>1. SysInfo!Ensured(f, build, min).build = f.build
      BY <1>2, <2>3 DEF SysInfo!Ensured
    <3>2. f.build = [i \in 1 .. 5 |-> f.build[i]]
      BY <2>1
    <3>3. \A i \in 1 .. 5 : f.build[i] \in Nat
      BY <2>2, <2>3
    <3>. QED
      BY <3>1, <3>2, <3>3 DEF Builds
  <2>4. CASE bad # {}
    <3>1. first \in 1 .. 5 /\ \A j \in bad : first <= j
      <4>1. bad \in SUBSET Nat
        OBVIOUS
      <4>2. \E i \in bad : \A j \in bad : i <= j
        <5>. HIDE DEF bad
        <5>. QED
          BY <2>4, <4>1, Smallest
      <4>. QED
        BY <4>2
    <3>2. SysInfo!Ensured(f, build, min).build
            = [i \in 1 .. 5 |-> IF i < first THEN f.build[i] ELSE IF i = first THEN 0 ELSE build[i]]
      BY <1>2, <2>4 DEF SysInfo!Ensured
    <3>3. \A i \in 1 .. 5 : i < first => f.build[i] \in Nat
      <4>. SUFFICES ASSUME NEW i \in 1 .. 5, i < first PROVE f.build[i] \in Nat
        OBVIOUS
      <4>1. i \notin bad
        BY <3>1
      <4>. QED
        BY <2>2, <4>1
    <3>. HIDE DEF first, bad
    <3>. QED
      BY <3>1, <3>2, <3>3 DEF Builds
  <2>. QED
    BY <2>3, <2>4
<1>. QED
  BY <1>1, <1>2

LEMMA SystemTyped ==
    ASSUME SysInfo!DSysInfoAssumption, SystemInv, SysInfo!TypeOK,
           SysInfo!Next \/ UNCHANGED SysInfo!sysVars
    PROVE  SysInfo!TypeOK'
<1>0. /\ osFile \in OsFiles /\ osBuild \in Builds /\ DOMAIN release = SysInfo!Fields
      /\ productType \in {"unset", "unknown"} \cup KnownTypes /\ diskSize \in Nat
  BY DEF SystemInv, SysInfo!TypeOK, Builds
<1>1. ASSUME osBuild' \in Builds, DOMAIN release' = SysInfo!Fields,
             productType' \in {"unset", "unknown"} \cup KnownTypes, diskSize' \in Nat
      PROVE  SysInfo!TypeOK'
  BY <1>1 DEF SysInfo!TypeOK, Builds
<1>2. CASE SysInfo!EnsureOsVersion
  <2>1. /\ osBuild' = SysInfo!Ensured(osFile, osBuild, minVersion).build
        /\ UNCHANGED <<release, productType, diskSize>>
    BY <1>2 DEF SysInfo!EnsureOsVersion, SysInfo!releaseVars
  <2>2. osBuild' \in Builds
    BY <1>0, <2>1, EnsuredBuild
  <2>. QED
    BY <1>0, <1>1, <2>1, <2>2
<1>3. CASE SysInfo!EnsureReleaseInfo
  <2>1. PICK r : /\ r = SysInfo!ReadLsbRelease(SysInfo!ReadOsRelease(release))
                 /\ release' = r
                 /\ productType' = IF r["id"] \in KnownTypes THEN r["id"]
                                   ELSE IF r["id"] \in AlikeTypes THEN productType ELSE "unknown"
                 /\ UNCHANGED <<osBuild, diskSize>>
    BY <1>3 DEF SysInfo!EnsureReleaseInfo, SysInfo!osVars
  <2>2. DOMAIN release' = SysInfo!Fields
    BY <2>1 DEF SysInfo!ReadLsbRelease, SysInfo!ReadEtcFile
  <2>3. productType' \in {"unset", "unknown"} \cup KnownTypes
    BY <1>0, <2>1
  <2>. QED
    BY <1>0, <1>1, <2>1, <2>2, <2>3
<1>4. CASE SysInfo!SystemDiskSize
  <2>1. /\ UNCHANGED <<osBuild, release, productType>>
        /\ diskSize' = diskSize \/ diskSize' = 0 \/ \E i \in DOMAIN Blocks : diskSize' = Blocks[i].size
    BY <1>4 DEF SysInfo!SystemDiskSize, SysInfo!osVars, SysInfo!releaseVars
  <2>2. diskSize' \in Nat
    BY <1>0, <2>1 DEF SysInfo!DSysInfoAssumption
  <2>. QED
    BY <1>0, <1>1, <2>1, <2>2
<1>5. ASSUME UNCHANGED <<osBuild, release, productType, diskSize>> PROVE SysInfo!TypeOK'
  BY <1>0, <1>1, <1>5
<1>6. ASSUME \/ SysInfo!EnsureDeepinInfo \/ SysInfo!CpuModelName
             \/ \E f \in OsFiles, rs \in ReleaseFiles, d \in DeepinFiles : SysInfo!Upgrade(f, rs, d)
      PROVE  SysInfo!TypeOK'
  BY <1>5, <1>6 DEF SysInfo!EnsureDeepinInfo, SysInfo!CpuModelName, SysInfo!Upgrade,
     SysInfo!osVars, SysInfo!releaseVars
<1>7. CASE UNCHANGED SysInfo!sysVars
  BY <1>5, <1>7 DEF SysInfo!sysVars
<1>. QED
  BY <1>2, <1>3, <1>4, <1>6, <1>7 DEF SysInfo!Next

LEMMA SystemStartsTyped ==
    ASSUME SysInfo!Init
    PROVE  SysInfo!TypeOK
BY DEF SysInfo!Init, SysInfo!TypeOK, SysInfo!NoBuild
-----------------------------------------------------------------------------
(* DTrashManager: a part is outside or in the trash.                       *)
Places ==
    /\ DOMAIN files \subseteq Trash!Names /\ DOMAIN info \subseteq Trash!Names
    /\ outside \in [Sources -> SUBSET UNION {Trash!Parts(s) : s \in Sources}]
    /\ \A s \in Sources : outside[s] \subseteq Trash!Parts(s)
    /\ \A s \in Sources : \A n \in DOMAIN files : \A x \in outside[s] : <<s, x>> \notin files[n]

LEMMA PlacesTyped ==
    ASSUME TrashInv, Places, Trash!Next \/ UNCHANGED Trash!trashVars
    PROVE  Places'
<1>. DEFINE All == UNION {Trash!Parts(s) : s \in Sources}
<1>0. /\ DOMAIN files \subseteq Trash!Names /\ DOMAIN info \subseteq Trash!Names
      /\ outside \in [Sources -> SUBSET All]
      /\ \A s \in Sources : outside[s] \subseteq Trash!Parts(s)
      /\ \A s \in Sources : \A n \in DOMAIN files : \A x \in outside[s] : <<s, x>> \notin files[n]
      /\ \A m \in Movers : mover[m].at # "idle" =>
            mover[m].source \in Sources /\ mover[m].name \in Trash!Names
  BY DEF Places, TrashInv, TrashTypes
<1>. HIDE DEF All
<1>1. ASSUME UNCHANGED outside, DOMAIN info' \subseteq Trash!Names, DOMAIN files' \subseteq DOMAIN files,
             \A n \in DOMAIN files' : files'[n] = files[n]
      PROVE  Places'
  BY <1>0, <1>1 DEF Places, Trash!Parts, Trash!Self, Trash!Names, All
<1>2. ASSUME NEW s \in Sources, NEW o \in SUBSET Trash!Parts(s),
             outside' = [outside EXCEPT ![s] = o], UNCHANGED info,
             DOMAIN files' \subseteq Trash!Names,
             \A n \in DOMAIN files' : \A x \in o : <<s, x>> \notin files'[n],
             \A n \in DOMAIN files' : \A r \in Sources \ {s} : \A x :
                 <<r, x>> \in files'[n] => n \in DOMAIN files /\ <<r, x>> \in files[n]
      PROVE  Places'
  <2>1. outside' \in [Sources -> SUBSET All] /\ \A r \in Sources : outside'[r] \subseteq Trash!Parts(r)
    BY <1>0, <1>2 DEF All
  <2>2. \A r \in Sources : \A n \in DOMAIN files' : \A x \in outside'[r] : <<r, x>> \notin files'[n]
    BY <1>0, <1>2
  <2>. QED
    BY <1>0, <1>2, <2>1, <2>2 DEF Places, Trash!Parts, Trash!Self, Trash!Names, All
<1>3. ASSUME NEW m \in Movers, NEW s \in Sources, Trash!MoveToTrash(m, s) PROVE Places'
  BY <1>0, <1>1, <1>3 DEF Trash!MoveToTrash
<1>4. ASSUME NEW m \in Movers, Trash!CheckInfo(m) \/ Trash!RenameEmptied(m) PROVE Places'
  BY <1>0, <1>1, <1>4 DEF Trash!CheckInfo, Trash!RenameEmptied
<1>5. ASSUME NEW m \in Movers, Trash!WriteInfo(m) PROVE Places'
  <2>1. UNCHANGED <<outside, files>> /\ DOMAIN info' \subseteq DOMAIN info \cup {mover[m].name}
        /\ mover[m].at = "write"
    BY <1>5 DEF Trash!WriteInfo, Trash!Extend
  <2>. QED
    BY <1>0, <1>1, <2>1
<1>6. ASSUME NEW m \in Movers, Trash!RenameWhole(m) PROVE Places'
  <2>. DEFINE s == mover[m].source
              n == mover[m].name
  <2>1. s \in Sources /\ n \in Trash!Names /\ UNCHANGED info
    BY <1>0, <1>6 DEF Trash!RenameWhole
  <2>2. CASE UNCHANGED <<files, outside>>
    BY <1>0, <1>1, <2>1, <2>2
  <2>3. CASE ~UNCHANGED <<files, outside>>
    <3>1. /\ files' = Trash!Extend(files, n, Trash!Of(s, {Trash!Self}))
          /\ outside' = [outside EXCEPT ![s] = {}]
      BY <1>6, <2>3 DEF Trash!RenameWhole
    <3>2. /\ DOMAIN files' = DOMAIN files \cup {n} /\ files'[n] = {s} \X {Trash!Self}
          /\ \A k \in DOMAIN files \ {n} : files'[k] = files[k]
      BY <3>1 DEF Trash!Extend, Trash!Of
    <3>. HIDE DEF s, n
    <3>3. \A k \in DOMAIN files' : \A r \in Sources \ {s} : \A x :
             <<r, x>> \in files'[k] => k \in DOMAIN files /\ <<r, x>> \in files[k]
      BY <3>2
    <3>4. DOMAIN files' \subseteq Trash!Names
      BY <1>0, <2>1, <3>2
    <3>5. {} \in SUBSET Trash!Parts(s) /\ \A k \in DOMAIN files' : \A x \in {} : <<s, x>> \notin files'[k]
      OBVIOUS
    <3>. QED
      BY <1>2, <2>1, <3>1, <3>3, <3>4, <3>5
  <2>. QED
    BY <2>2, <2>3
<1>7. ASSUME NEW m \in Movers, NEW f, Trash!RenameWithin(m, f) PROVE Places'
  <2>. DEFINE s == mover[m].source
              n == mover[m].name
              there == IF n \in DOMAIN files THEN files[n] ELSE {}
  <2>1. s \in Sources /\ n \in Trash!Names /\ UNCHANGED info /\ f \in outside[s]
    BY <1>0, <1>7 DEF Trash!RenameWithin
  <2>2. ASSUME NEW more \in SUBSET {f}, NEW o \in SUBSET outside[s],
               files' = Trash!Extend(files, n, there \cup Trash!Of(s, more)),
               outside' = [outside EXCEPT ![s] = o], more \cap o = {}
        PROVE  Places'
    <3>1. /\ DOMAIN files' = DOMAIN files \cup {n} /\ files'[n] = there \cup ({s} \X more)
          /\ \A k \in DOMAIN files \ {n} : files'[k] = files[k]
      BY <2>2 DEF Trash!Extend, Trash!Of
    <3>2. \A r, x : <<r, x>> \in there => n \in DOMAIN files /\ <<r, x>> \in files[n]
      OBVIOUS
    <3>. HIDE DEF s, n, there
    <3>3. o \in SUBSET Trash!Parts(s)
      BY <1>0, <2>1, <2>2
    <3>4. ASSUME NEW k \in DOMAIN files', NEW x \in o PROVE <<s, x>> \notin files'[k]
      <4>1. CASE k = n
        <5>1. x \notin more /\ x \in outside[s]
          BY <2>2
        <5>2. <<s, x>> \notin there
          BY <1>0, <2>1, <3>2, <5>1
        <5>. QED
          BY <3>1, <4>1, <5>1, <5>2
      <4>2. CASE k # n
        BY <1>0, <2>1, <2>2, <3>1, <4>2
      <4>. QED
        BY <4>1, <4>2
    <3>5. ASSUME NEW k \in DOMAIN files', NEW r \in Sources \ {s}, NEW x, <<r, x>> \in files'[k]
          PROVE  k \in DOMAIN files /\ <<r, x>> \in files[k]
      BY <3>1, <3>2, <3>5
    <3>6. DOMAIN files' \subseteq Trash!Names
      BY <1>0, <2>1, <3>1
    <3>. QED
      BY <1>2, <2>1, <2>2, <3>3, <3>4, <3>5, <3>6
  <2>3. \/ /\ files' = Trash!Extend(files, n, there \cup Trash!Of(s, {f}))
           /\ outside' = [outside EXCEPT ![s] = @ \ {f}]
        \/ files' = Trash!Extend(files, n, there) /\ UNCHANGED outside
    BY <1>7 DEF Trash!RenameWithin
  <2>4. CASE /\ files' = Trash!Extend(files, n, there \cup Trash!Of(s, {f}))
             /\ outside' = [outside EXCEPT ![s] = @ \ {f}]
    <3>1. outside' = [outside EXCEPT ![s] = outside[s] \ {f}]
      BY <2>4
    <3>2. {f} \in SUBSET {f} /\ outside[s] \ {f} \in SUBSET outside[s] /\ {f} \cap (outside[s] \ {f}) = {}
      OBVIOUS
    <3>. HIDE DEF s, n, there
    <3>. QED
      BY <2>2, <2>4, <3>1, <3>2
  <2>5. CASE files' = Trash!Extend(files, n, there) /\ UNCHANGED outside
    <3>1. outside' = [outside EXCEPT ![s] = outside[s]]
      BY <1>0, <2>1, <2>5
    <3>2. there = there \cup Trash!Of(s, {})
      BY DEF Trash!Of
    <3>3. {} \in SUBSET {f} /\ outside[s] \in SUBSET outside[s] /\ {} \cap outside[s] = {}
      OBVIOUS
    <3>. HIDE DEF s, n, there
    <3>. QED
      BY <2>2, <2>5, <3>1, <3>2, <3>3
  <2>. QED
    BY <2>3, <2>4, <2>5
<1>8. CASE Trash!CleanInfo
  <2>1. PICK kept \in SUBSET DOMAIN info : info' = Trash!Restrict(info, kept)
    BY <1>8 DEF Trash!CleanInfo
  <2>2. UNCHANGED <<outside, files>> /\ DOMAIN info' \subseteq DOMAIN info
    BY <1>8, <2>1 DEF Trash!CleanInfo, Trash!Restrict
  <2>. QED
    BY <1>0, <1>1, <2>2
<1>9. CASE Trash!CleanFiles
  <2>1. PICK kept \in SUBSET DOMAIN files : files' = Trash!Restrict(files, kept)
    BY <1>9 DEF Trash!CleanFiles
  <2>2. UNCHANGED <<outside, info>> /\ DOMAIN files' = kept /\ \A n \in kept : files'[n] = files[n]
    BY <1>9, <2>1 DEF Trash!CleanFiles, Trash!Restrict
  <2>. QED
    BY <1>0, <1>1, <2>2
<1>10. ASSUME NEW s \in Sources, Trash!Remake(s) PROVE Places'
  <2>1. /\ outside' = [outside EXCEPT ![s] = Trash!Parts(s)] /\ UNCHANGED <<files, info>>
        /\ \A n \in DOMAIN files : s \notin {x[1] : x \in files[n]}
    BY <1>10 DEF Trash!Remake
  <2>2. \A n \in DOMAIN files : \A x : <<s, x>> \notin files[n]
    <3>. SUFFICES ASSUME NEW n \in DOMAIN files, NEW x, <<s, x>> \in files[n] PROVE FALSE
      OBVIOUS
    <3>1. <<s, x>>[1] = s
      OBVIOUS
    <3>. QED
      BY <2>1, <3>1
  <2>. QED
    BY <1>0, <1>2, <2>1, <2>2
<1>11. CASE UNCHANGED Trash!trashVars
  BY <1>0, <1>1, <1>11 DEF Trash!trashVars
<1>. QED
  BY <1>3, <1>4, <1>5, <1>6, <1>7, <1>8, <1>9, <1>10, <1>11 DEF Trash!Next

LEMMA TrashStartsTyped ==
    ASSUME Trash!Init
    PROVE  Places
BY DEF Trash!Init, Places

LEMMA PlacesAreTypes ==
    ASSUME Places
    PROVE  Trash!TypeOK
BY DEF Places, Trash!TypeOK, Trash!Of
-----------------------------------------------------------------------------
(* DSGApplication: a thread has a descriptor only while it asks the        *)
(* manager.                                                                *)
Descriptors == \A t \in Threads : (asker[t].fd # None) = (asker[t].at = "identify")

LEMMA AppTyped ==
    ASSUME AppInv, Descriptors, App!Next \/ UNCHANGED App!appVars
    PROVE  Descriptors'
<1>0. /\ asker \in [Threads -> AskerRecs] /\ holder \in [Pids -> Processes \cup {None}]
      /\ \A t \in Threads : (asker[t].fd # None) = (asker[t].at = "identify")
      /\ \A t \in Threads : asker[t].at \in Asking => asker[t].pid \in Pids
  BY DEF AppInv, AppTypes, Noted, Descriptors
<1>1. ASSUME UNCHANGED asker PROVE Descriptors'
  BY <1>0, <1>1 DEF Descriptors
<1>2. ASSUME NEW t \in Threads, NEW r, asker' = [asker EXCEPT ![t] = r],
             (r.fd # None) = (r.at = "identify")
      PROVE  Descriptors'
  BY <1>0, <1>2 DEF Descriptors
<1>3. ASSUME NEW t \in Threads, NEW pid, App!Ask(t, pid) PROVE Descriptors'
  <2>1. PICK r : r = [App!NoCall EXCEPT !.at = "owner", !.pid = pid]
    OBVIOUS
  <2>2. r.fd = None /\ r.at = "owner"
    BY <2>1 DEF App!NoCall
  <2>3. asker' = [asker EXCEPT ![t] = r]
    BY <1>3, <2>1 DEF App!Ask
  <2>. QED
    BY <1>2, <2>2, <2>3
<1>4. ASSUME NEW t \in Threads, NEW id, App!Answer(t, id) PROVE Descriptors'
  <2>1. PICK r : r = [App!NoCall EXCEPT !.at = "told", !.pid = asker[t].pid, !.answer = id]
    OBVIOUS
  <2>2. r.fd = None /\ r.at = "told"
    BY <2>1 DEF App!NoCall
  <2>3. asker' = [asker EXCEPT ![t] = r]
    BY <1>4, <2>1 DEF App!Answer
  <2>. QED
    BY <1>2, <2>2, <2>3
<1>5. ASSUME NEW t \in Threads, NEW at \in {"activatable", "open"}, asker[t].at # "identify",
             asker' = [asker EXCEPT ![t].at = at]
      PROVE  Descriptors'
  <2>1. PICK r : r = [asker[t] EXCEPT !.at = at]
    OBVIOUS
  <2>2. r.fd = asker[t].fd /\ r.at = at
    BY <1>0, <2>1 DEF AskerRecs
  <2>3. (r.fd # None) = (r.at = "identify")
    BY <1>0, <1>5, <2>2
  <2>4. asker' = [asker EXCEPT ![t] = r]
    BY <1>5, <2>1
  <2>. QED
    BY <1>2, <2>3, <2>4
<1>6. ASSUME NEW t \in Threads, App!NameHasOwner(t) \/ App!ListActivatableNames(t)
      PROVE  Descriptors'
  <2>1. \/ /\ asker[t].at # "identify"
           /\ \E at \in {"activatable", "open"} : asker' = [asker EXCEPT ![t].at = at]
        \/ App!Answer(t, NoId)
    BY <1>6 DEF App!NameHasOwner, App!ListActivatableNames
  <2>. QED
    BY <1>4, <1>5, <2>1
<1>7. ASSUME NEW t \in Threads, App!PidfdOpen(t) PROVE Descriptors'
  <2>1. CASE holder[asker[t].pid] = None
    BY <1>4, <1>7, <2>1 DEF App!PidfdOpen
  <2>2. CASE holder[asker[t].pid] # None
    <3>1. PICK r : r = [asker[t] EXCEPT !.at = "identify", !.fd = holder[asker[t].pid]]
      OBVIOUS
    <3>2. r.fd = holder[asker[t].pid] /\ r.at = "identify"
      BY <1>0, <3>1 DEF AskerRecs
    <3>3. asker' = [asker EXCEPT ![t] = r]
      BY <1>7, <2>2, <3>1 DEF App!PidfdOpen
    <3>. QED
      BY <1>2, <2>2, <3>2, <3>3
  <2>. QED
    BY <2>1, <2>2
<1>8. ASSUME NEW t \in Threads, App!Identify(t) PROVE Descriptors'
  BY <1>4, <1>8 DEF App!Identify
<1>9. ASSUME NEW t \in Threads, App!Return(t) PROVE Descriptors'
  <2>1. asker' = [asker EXCEPT ![t] = App!NoCall] /\ App!NoCall.fd = None /\ App!NoCall.at = "idle"
    BY <1>9 DEF App!Return, App!NoCall
  <2>. QED
    BY <1>2, <2>1
<1>10. ASSUME NEW t \in Threads, App!InitSelfId(t) PROVE Descriptors'
  BY <1>1, <1>3, <1>10 DEF App!InitSelfId
<1>11. ASSUME NEW t \in Threads, NEW pid \in Pids, App!GetId(t, pid) PROVE Descriptors'
  BY <1>3, <1>11 DEF App!GetId
<1>12. ASSUME \/ \E t \in Threads : App!SelfId(t)
              \/ \E n \in Pids : App!Exit(n) \/ \E p \in Processes : App!Fork(n, p)
              \/ \E n \in AppNames : App!SetName(n)
              \/ UNCHANGED App!appVars
       PROVE  Descriptors'
  BY <1>1, <1>12 DEF App!SelfId, App!Exit, App!Fork, App!SetName, App!appVars
<1>. QED
  BY <1>6, <1>7, <1>8, <1>9, <1>10, <1>11, <1>12 DEF App!Next

LEMMA AppStartsTyped ==
    ASSUME App!Init
    PROVE  Descriptors
BY DEF App!Init, Descriptors, App!NoCall

-----------------------------------------------------------------------------
(* DVtableHook.                                                            *)
LEMMA HookTyped ==
    ASSUME HookInv, unsound \subseteq Addresses, Hook!Next \/ UNCHANGED Hook!hookVars
    PROVE  unsound' \subseteq Addresses
<1>1. ASSUME NEW a \in Addresses, Hook!ResetVtable(a) PROVE unsound' \subseteq Addresses
  BY <1>1 DEF Hook!ResetVtable
<1>2. CASE Hook!OriginalReturns
  BY <1>2 DEF Hook!OriginalReturns
<1>3. ASSUME NEW a \in Addresses,
             \/ Hook!Delete(a) \/ Hook!GoOutOfScope(a)
             \/ \E c \in Classes : Hook!Construct(a, c)
             \/ \E f \in Functions : Hook!ResetVfptrFun(a, f) \/ Hook!CallOriginalFun(a, f)
             \/ \E f \in Functions, r \in Replacements : Hook!OverrideVfptrFun(a, f, r)
      PROVE  unsound' \subseteq Addresses
  BY <1>3 DEF Hook!Delete, Hook!GoOutOfScope, Hook!Construct, Hook!ResetVfptrFun,
     Hook!CallOriginalFun, Hook!OverrideVfptrFun
<1>4. ASSUME NEW c \in Classes, NEW f \in Functions, NEW r \in Replacements,
             Hook!OverrideClass(c, f, r)
      PROVE  unsound' \subseteq Addresses
  BY <1>4 DEF Hook!OverrideClass
<1>5. CASE UNCHANGED Hook!hookVars
  BY <1>5 DEF Hook!hookVars
<1>. QED
  BY <1>1, <1>2, <1>3, <1>4, <1>5 DEF Hook!Next

LEMMA HookIsTyped ==
    ASSUME HookInv, unsound \subseteq Addresses
    PROVE  Hook!TypeOK
<1>1. original = DOMAIN ghost /\ original = DOMAIN destruct
  BY DEF HookInv, MapsExact
<1>. QED
  BY <1>1 DEF HookInv, TablesOwned, Hook!TypeOK
-----------------------------------------------------------------------------
(* DDciFileEngine: files are in directories that exist; the DDciFile of a  *)
(* thread is whole and belongs to its engines.                             *)
Held(f)  == \A s \in DOMAIN f.files : Engine!CanHold(f, s)
Sound(f) == Held(f) /\ ~f.cut
EnginesOwn ==
    /\ Held(dciDisk)
    /\ \A t \in Threads : dci[t] # None => Sound(dci[t]) /\ \E e \in Engines : engine[e].thread = t

LEMMA FileSound ==
    ASSUME NEW f \in Engine!DciFiles, Sound(f), NEW s \in Subs, NEW text
    PROVE  /\ Engine!Exists(f, s) => Engine!CanHold(f, s)
           /\ Engine!CanHold(f, s) => Sound(Engine!With(f, s, text))
           /\ Sound(Engine!Without(f, s))
           /\ \A to \in Subs : Engine!CanHold(f, to) => Engine!CanHold(Engine!Without(f, s), to)
<1>1. Engine!Exists(f, s) => Engine!CanHold(f, s)
  BY DEF Sound, Held, Engine!Exists
<1>2. ASSUME Engine!CanHold(f, s) PROVE Sound(Engine!With(f, s, text))
  <2>1. PICK g : g = Engine!With(f, s, text)
    OBVIOUS
  <2>2. g.dir = f.dir /\ g.cut = f.cut /\ DOMAIN g.files = DOMAIN f.files \cup {s}
    BY <2>1 DEF Engine!With, Engine!DciFiles
  <2>. QED
    BY <1>2, <2>1, <2>2 DEF Sound, Held, Engine!CanHold
<1>3. PICK g : g = Engine!Without(f, s)
  OBVIOUS
<1>4. g.dir = f.dir /\ g.cut = f.cut /\ DOMAIN g.files = DOMAIN f.files \ {s}
  BY <1>3 DEF Engine!Without, Engine!Restrict, Engine!DciFiles
<1>5. Sound(Engine!Without(f, s))
  BY <1>3, <1>4 DEF Sound, Held, Engine!CanHold
<1>6. \A to \in Subs : Engine!CanHold(f, to) => Engine!CanHold(Engine!Without(f, s), to)
  BY <1>3, <1>4 DEF Engine!CanHold
<1>. QED
  BY <1>1, <1>2, <1>5, <1>6

LEMMA ChangedSound ==
    ASSUME Engine!DDciFileEngineAssumption,
           NEW f \in Engine!DciFiles, Sound(f), NEW s \in Subs, NEW g \in Engine!Changes(f, s)
    PROVE  Sound(g)
<1>1. \/ g = Engine!Without(f, s)
      \/ \E to \in Subs : /\ Engine!Exists(f, s) /\ Engine!CanHold(f, to)
                          /\ g = Engine!With(Engine!Without(f, s), to, f.files[s])
      \/ \E to \in Subs : Engine!CanHold(f, to) /\ g = Engine!With(f, to, f.files[s])
      \/ g = [f EXCEPT !.dir = TRUE]
      \/ g = [f EXCEPT !.dir = FALSE, !.files = Engine!Restrict(f.files, DOMAIN f.files \ InDirectory)]
  BY DEF Engine!Changes
<1>2. CASE g = Engine!Without(f, s)
  BY <1>2, FileSound
<1>3. ASSUME NEW to \in Subs, Engine!Exists(f, s), Engine!CanHold(f, to),
             g = Engine!With(Engine!Without(f, s), to, f.files[s])
      PROVE  Sound(g)
  <2>1. Engine!Without(f, s) \in Engine!DciFiles
    <3>1. Engine!Restrict(f.files, DOMAIN f.files \ {s}) \in [DOMAIN f.files \ {s} -> Texts]
      BY FilesFunction DEF Engine!Restrict
    <3>. QED
      BY <3>1, FilesFunction DEF Engine!Without
  <2>2. PICK h \in Engine!DciFiles : h = Engine!Without(f, s)
    BY <2>1
  <2>3. Sound(h) /\ Engine!CanHold(h, to)
    BY <1>3, <2>2, FileSound
  <2>. QED
    BY <1>3, <2>2, <2>3, FileSound
<1>4. ASSUME NEW to \in Subs, Engine!CanHold(f, to), g = Engine!With(f, to, f.files[s])
      PROVE  Sound(g)
  BY <1>4, FileSound
<1>5. CASE g = [f EXCEPT !.dir = TRUE]
  <2>1. g.dir = TRUE /\ g.cut = f.cut /\ g.files = f.files
    BY <1>5 DEF Engine!DciFiles
  <2>. QED
    BY <2>1 DEF Sound, Held, Engine!CanHold
<1>6. CASE g = [f EXCEPT !.dir = FALSE, !.files = Engine!Restrict(f.files, DOMAIN f.files \ InDirectory)]
  <2>1. /\ g.dir = FALSE /\ g.cut = f.cut
        /\ g.files = Engine!Restrict(f.files, DOMAIN f.files \ InDirectory)
    BY <1>6 DEF Engine!DciFiles
  <2>2. DOMAIN g.files = DOMAIN f.files \ InDirectory
    BY <2>1 DEF Engine!Restrict
  <2>. QED
    BY <2>1, <2>2 DEF Sound, Held, Engine!CanHold
<1>. QED
  BY <1>1, <1>2, <1>3, <1>4, <1>5, <1>6

(* A running engine that stays its thread's.                               *)
LEMMA OwnerStays ==
    ASSUME Engine!DDciFileEngineAssumption, EngineInv, EnginesOwn, NEW e \in Engines,
           Engine!Running(e), NEW r, r.thread = engine[e].thread,
           engine' = [engine EXCEPT ![e] = r],
           NEW f, dci' = [dci EXCEPT ![engine[e].thread] = f], Sound(f), Held(dciDisk')
    PROVE  EnginesOwn'
<1>1. /\ dci \in [Threads -> Engine!DciFiles \cup {None}] /\ engine \in [Engines -> EngineRecs]
  BY DEF EngineInv, EngineTypes
<1>2. \A o \in Engines : engine'[o].thread = engine[o].thread
  BY <1>1
<1>3. \A t \in Threads : dci'[t] # None =>
         Sound(dci'[t]) /\ \E o \in Engines : engine'[o].thread = t
  BY <1>1, <1>2 DEF EnginesOwn
<1>. QED
  BY <1>3 DEF EnginesOwn, Sound, Held, Engine!CanHold

LEMMA OwnersRecord ==
    ASSUME EngineInv, NEW e \in Engines, NEW mode, NEW text, Engine!Becomes(e, mode, text)
    PROVE  \E r : r.thread = engine[e].thread /\ engine' = [engine EXCEPT ![e] = r]
<1>1. engine[e] \in EngineRecs
  BY DEF EngineInv, EngineTypes
<1>2. PICK r : r = [engine[e] EXCEPT !.mode = mode, !.text = text]
  OBVIOUS
<1>3. r.thread = engine[e].thread
  BY <1>1, <1>2 DEF EngineRecs
<1>. QED
  BY <1>2, <1>3 DEF Engine!Becomes

LEMMA EngineTyped ==
    ASSUME Engine!DDciFileEngineAssumption, EngineInv, EnginesOwn,
           Engine!Next \/ UNCHANGED Engine!engineVars
    PROVE  EnginesOwn'
<1>0. /\ dci \in [Threads -> Engine!DciFiles \cup {None}] /\ engine \in [Engines -> EngineRecs]
      /\ dciDisk \in Engine!DciFiles /\ Held(dciDisk)
      /\ \A t \in Threads : dci[t] # None => Sound(dci[t]) /\ \E e \in Engines : engine[e].thread = t
      /\ None \notin Threads
  BY DEF EngineInv, EngineTypes, EnginesOwn, Engine!DDciFileEngineAssumption
<1>1. ASSUME NEW e \in Engines, Engine!Running(e)
      PROVE  /\ Engine!File(e) \in Engine!DciFiles /\ Sound(Engine!File(e)) /\ engine[e].sub \in Subs
             /\ dci = [dci EXCEPT ![engine[e].thread] = Engine!File(e)]
             /\ engine = [engine EXCEPT ![e] = engine[e]]
             /\ engine[e].thread \in Threads
  BY <1>0, <1>1, RunningEngine DEF Engine!File
<1>2. Held(Engine!Cut) /\ Held(Engine!Empty)
  <2>1. DOMAIN <<>> = {}
    OBVIOUS
  <2>2. Engine!Cut.files = <<>> /\ Engine!Empty.files = <<>>
    BY DEF Engine!Cut, Engine!Empty
  <2>. QED
    BY <2>1, <2>2 DEF Held
<1>3. ASSUME NEW e \in Engines, Engine!Running(e), UNCHANGED dci, Held(dciDisk'),
             UNCHANGED engine \/ \E mode, text : Engine!Becomes(e, mode, text)
      PROVE  EnginesOwn'
  <2>1. PICK r : r.thread = engine[e].thread /\ engine' = [engine EXCEPT ![e] = r]
    BY <1>1, <1>3, OwnersRecord
  <2>2. PICK f : f = Engine!File(e)
    OBVIOUS
  <2>3. dci' = [dci EXCEPT ![engine[e].thread] = f] /\ Sound(f)
    BY <1>1, <1>3, <2>2
  <2>. QED
    BY <1>3, <2>1, <2>3, OwnerStays
<1>4. ASSUME NEW e \in Engines, Engine!Running(e), NEW f, Sound(f), Engine!Save(engine[e].thread, f),
             UNCHANGED engine \/ \E mode, text : Engine!Becomes(e, mode, text)
      PROVE  EnginesOwn'
  <2>1. PICK r : r.thread = engine[e].thread /\ engine' = [engine EXCEPT ![e] = r]
    BY <1>1, <1>4, OwnersRecord
  <2>2. dci' = [dci EXCEPT ![engine[e].thread] = f] /\ dciDisk' \in {f, dciDisk, Engine!Cut}
    BY <1>4 DEF Engine!Save
  <2>3. Held(dciDisk')
    BY <1>0, <1>2, <1>4, <2>2 DEF Sound
  <2>. QED
    BY <1>4, <2>1, <2>2, <2>3, OwnerStays
<1>5. ASSUME NEW e \in Engines, NEW t \in Threads, NEW s \in Subs, Engine!Create(e, t, s)
      PROVE  EnginesOwn'
  <2>1. PICK r : r = [Engine!NoEngine EXCEPT !.thread = t, !.sub = s]
    OBVIOUS
  <2>2. r.thread = t
    BY <2>1 DEF Engine!NoEngine
  <2>3. /\ engine' = [engine EXCEPT ![e] = r] /\ dciDisk' = dciDisk
        /\ dci' = [dci EXCEPT ![t] = IF dci[t] = None THEN dciDisk ELSE dci[t]]
        /\ ~Engine!Running(e) /\ (dci[t] # None \/ ~dciDisk.cut)
    BY <1>5, <2>1 DEF Engine!Create
  <2>4. /\ engine'[e].thread = t
        /\ \A o \in Engines : engine[o].thread # None => engine'[o].thread = engine[o].thread
    BY <1>0, <2>2, <2>3 DEF Engine!Running
  <2>5. Sound(dci'[t]) /\ \A u \in Threads \ {t} : dci'[u] = dci[u]
    BY <1>0, <2>3 DEF Sound
  <2>6. \A u \in Threads : dci'[u] # None => Sound(dci'[u]) /\ \E o \in Engines : engine'[o].thread = u
    BY <1>0, <2>4, <2>5
  <2>. QED
    BY <1>0, <2>3, <2>6 DEF EnginesOwn, Sound, Held, Engine!CanHold
<1>6. ASSUME NEW e \in Engines, Engine!OpenRead(e) PROVE EnginesOwn'
  BY <1>0, <1>3, <1>6 DEF Engine!OpenRead
<1>7. ASSUME NEW e \in Engines, NEW truncate \in BOOLEAN, Engine!OpenWrite(e, truncate)
      PROVE  EnginesOwn'
  <2>. DEFINE s == engine[e].sub
              g == IF Engine!Exists(Engine!File(e), s) THEN Engine!File(e)
                   ELSE Engine!With(Engine!File(e), s, Blank)
  <2>1. Engine!Running(e) /\ dciDisk' = IF truncate THEN Engine!Cut ELSE dciDisk
    BY <1>7 DEF Engine!OpenWrite
  <2>2. Held(dciDisk')
    BY <1>0, <1>2, <2>1
  <2>3. CASE Engine!Exists(Engine!File(e), s) \/ Engine!CanHold(Engine!File(e), s)
    <3>1. /\ dci' = [dci EXCEPT ![engine[e].thread] = g]
          /\ Engine!Becomes(e, "write", g.files[s])
      BY <1>7, <2>3 DEF Engine!OpenWrite
    <3>2. Sound(g)
      BY <1>1, <2>1, <2>3, FileSound
    <3>. HIDE DEF g
    <3>3. PICK r : r.thread = engine[e].thread /\ engine' = [engine EXCEPT ![e] = r]
      BY <3>1, OwnersRecord
    <3>. QED
      BY <2>1, <2>2, <3>1, <3>2, <3>3, OwnerStays
  <2>4. CASE ~(Engine!Exists(Engine!File(e), s) \/ Engine!CanHold(Engine!File(e), s))
    <3>1. UNCHANGED dci /\ Engine!Becomes(e, "stuck", Blank)
      BY <1>7, <2>4 DEF Engine!OpenWrite
    <3>. QED
      BY <1>3, <2>1, <2>2, <3>1
  <2>. QED
    BY <2>3, <2>4
<1>8. ASSUME NEW e \in Engines, NEW text \in Texts, Engine!Write(e, text) PROVE EnginesOwn'
  <2>1. Engine!Running(e)
    BY <1>8 DEF Engine!Write, EngineInv, EngineTypes
  <2>. QED
    BY <1>0, <1>3, <1>8, <2>1 DEF Engine!Write
<1>9. ASSUME NEW e \in Engines, Engine!Running(e), Engine!Flushed(e),
             UNCHANGED engine \/ \E mode, text : Engine!Becomes(e, mode, text)
      PROVE  EnginesOwn'
  <2>. DEFINE s == engine[e].sub
  <2>1. CASE Engine!Exists(Engine!File(e), s) \/ Engine!CanHold(Engine!File(e), s)
    <3>1. Engine!Save(engine[e].thread, Engine!With(Engine!File(e), s, engine[e].text))
      BY <1>9, <2>1 DEF Engine!Flushed
    <3>2. Sound(Engine!With(Engine!File(e), s, engine[e].text))
      BY <1>1, <1>9, <2>1, FileSound
    <3>. QED
      BY <1>4, <1>9, <3>1, <3>2
  <2>2. CASE ~(Engine!Exists(Engine!File(e), s) \/ Engine!CanHold(Engine!File(e), s))
    <3>1. UNCHANGED <<dciDisk, dci>>
      BY <1>9, <2>2 DEF Engine!Flushed
    <3>. QED
      BY <1>0, <1>3, <1>9, <3>1
  <2>. QED
    BY <2>1, <2>2
<1>10. ASSUME NEW e \in Engines, Engine!Flush(e) PROVE EnginesOwn'
  <2>1. Engine!Running(e)
    BY <1>10 DEF Engine!Flush, EngineInv, EngineTypes
  <2>. QED
    BY <1>9, <1>10, <2>1 DEF Engine!Flush
<1>11. ASSUME NEW e \in Engines, Engine!Close(e) PROVE EnginesOwn'
  <2>1. Engine!Running(e)
    BY <1>11 DEF Engine!Close, EngineInv, EngineTypes
  <2>2. Engine!Becomes(e, "closed", Blank)
    BY <1>11 DEF Engine!Close
  <2>3. CASE engine[e].mode = "read"
    <3>1. UNCHANGED <<dciDisk, dci>>
      BY <1>11, <2>3 DEF Engine!Close
    <3>. QED
      BY <1>0, <1>3, <2>1, <2>2, <3>1
  <2>4. CASE engine[e].mode # "read"
    <3>1. Engine!Flushed(e)
      BY <1>11, <2>4 DEF Engine!Close
    <3>. QED
      BY <1>9, <2>1, <2>2, <3>1
  <2>. QED
    BY <2>3, <2>4
<1>12. ASSUME NEW e \in Engines, Engine!Change(e) PROVE EnginesOwn'
  <2>1. PICK f \in Engine!Changes(Engine!File(e), engine[e].sub) : Engine!Save(engine[e].thread, f)
    BY <1>12 DEF Engine!Change
  <2>2. Engine!Running(e) /\ UNCHANGED engine
    BY <1>12 DEF Engine!Change
  <2>3. Sound(f)
    BY <1>1, <2>1, <2>2, ChangedSound
  <2>. QED
    BY <1>4, <2>1, <2>2, <2>3
<1>13. ASSUME NEW e \in Engines, NEW text \in Texts, Engine!SetSize(e, text) PROVE EnginesOwn'
  <2>. DEFINE s == engine[e].sub
  <2>1. Engine!Running(e) /\ UNCHANGED engine
    BY <1>13 DEF Engine!SetSize
  <2>2. CASE /\ Engine!Exists(Engine!File(e), s) \/ Engine!CanHold(Engine!File(e), s)
             /\ Engine!Save(engine[e].thread, Engine!With(Engine!File(e), s, text))
    <3>1. Sound(Engine!With(Engine!File(e), s, text))
      BY <1>1, <2>1, <2>2, FileSound
    <3>. QED
      BY <1>4, <2>1, <2>2, <3>1
  <2>3. CASE dciDisk' \in {dciDisk, Engine!Cut} /\ UNCHANGED dci
    <3>1. Held(dciDisk')
      BY <1>0, <1>2, <2>3
    <3>. QED
      BY <1>3, <2>1, <2>3, <3>1
  <2>. QED
    BY <1>13, <2>2, <2>3 DEF Engine!SetSize
<1>18. ASSUME NEW e \in Engines, Engine!ChangeHalf(e) PROVE EnginesOwn'
  <2>1. Engine!Running(e) /\ UNCHANGED engine /\ dciDisk' = dciDisk
    BY <1>18 DEF Engine!ChangeHalf
  <2>2. PICK f \in Engine!DciFiles : f = Engine!File(e) /\ Sound(f)
    BY <1>1, <2>1
  <2>3. PICK g : g = [f EXCEPT !.dir = ~f.dir,
                              !.files = Engine!Restrict(f.files, DOMAIN f.files \ InDirectory)]
    OBVIOUS
  <2>4. dci' = [dci EXCEPT ![engine[e].thread] = g]
    BY <1>1, <1>18, <2>1, <2>2, <2>3, HalfChanged
  <2>5. /\ g.cut = f.cut
        /\ g.files = Engine!Restrict(f.files, DOMAIN f.files \ InDirectory)
    BY <2>3 DEF Engine!DciFiles
  <2>6. DOMAIN g.files = DOMAIN f.files \ InDirectory
    BY <2>5 DEF Engine!Restrict
  <2>7. Sound(g)
    BY <2>2, <2>5, <2>6 DEF Sound, Held, Engine!CanHold
  <2>8. Held(dciDisk') /\ engine' = [engine EXCEPT ![e] = engine[e]]
    BY <1>0, <1>1, <2>1
  <2>. QED
    BY <2>1, <2>4, <2>7, <2>8, OwnerStays
<1>14. ASSUME NEW e \in Engines, Engine!Destroy(e) PROVE EnginesOwn'
  <2>1. PICK t : t = engine[e].thread
    OBVIOUS
  <2>2. PICK x : x = IF \E o \in Engines \ {e} : engine[o].thread = t THEN dci[t] ELSE None
    OBVIOUS
  <2>3. /\ dci' = [dci EXCEPT ![t] = x] /\ dciDisk' = dciDisk
        /\ engine' = [engine EXCEPT ![e] = Engine!NoEngine] /\ Engine!Running(e)
    BY <1>14, <2>1, <2>2 DEF Engine!Destroy
  <2>4. t \in Threads
    BY <1>1, <2>1, <2>3
  <2>5. \A o \in Engines \ {e} : engine'[o] = engine[o]
    BY <1>0, <2>3
  <2>6. \A u \in Threads \ {t} : dci'[u] = dci[u] /\ (dci[u] # None => \E o \in Engines \ {e} : engine[o].thread = u)
    BY <1>0, <2>1, <2>3
  <2>7. dci'[t] = x /\ (x # None => x = dci[t] /\ \E o \in Engines \ {e} : engine[o].thread = t)
    BY <1>0, <2>2, <2>3, <2>4
  <2>8. \A u \in Threads : dci'[u] # None => Sound(dci'[u]) /\ \E o \in Engines : engine'[o].thread = u
    BY <1>0, <2>5, <2>6, <2>7
  <2>. QED
    BY <1>0, <2>3, <2>8 DEF EnginesOwn, Sound, Held, Engine!CanHold
<1>15. CASE Engine!Crash
  <2>1. dciDisk' \in {dciDisk, Engine!Cut} /\ \A t \in Threads : dci'[t] = None
    BY <1>15 DEF Engine!Crash
  <2>2. Held(dciDisk')
    BY <1>0, <1>2, <2>1
  <2>. QED
    BY <2>1, <2>2 DEF EnginesOwn, Held, Engine!CanHold
<1>16. CASE Engine!Replace
  <2>1. dciDisk' = Engine!Empty /\ \A t \in Threads : dci'[t] = None
    BY <1>16 DEF Engine!Replace
  <2>2. Held(dciDisk')
    BY <1>2, <2>1
  <2>. QED
    BY <2>1, <2>2 DEF EnginesOwn, Held, Engine!CanHold
<1>17. CASE UNCHANGED Engine!engineVars
  BY <1>17 DEF Engine!engineVars, EnginesOwn, Sound, Held, Engine!CanHold
<1>. QED
  BY <1>5, <1>6, <1>7, <1>8, <1>10, <1>11, <1>12, <1>13, <1>14, <1>15, <1>16, <1>17, <1>18 DEF Engine!Next

LEMMA EngineStartsTyped ==
    ASSUME Engine!Init
    PROVE  EnginesOwn
<1>1. dciDisk = Engine!Empty /\ \A t \in Threads : dci[t] = None
  BY DEF Engine!Init
<1>2. DOMAIN dciDisk.files = {}
  <2>1. dciDisk.files = <<>> /\ DOMAIN <<>> = {}
    BY <1>1 DEF Engine!Empty
  <2>. QED
    BY <2>1
<1>. QED
  BY <1>1, <1>2 DEF EnginesOwn, Held

LEMMA EngineIsTyped ==
    ASSUME Engine!DDciFileEngineAssumption, EngineInv, EnginesOwn
    PROVE  Engine!TypeOK
<1>1. /\ dci \in [Threads -> Engine!DciFiles \cup {None}] /\ engine \in [Engines -> EngineRecs]
      /\ dciDisk \in Engine!DciFiles /\ None \notin Threads
      /\ \A e \in Engines : engine[e].thread # None => dci[engine[e].thread] # None
  BY DEF EngineInv, EngineTypes, Engine!DDciFileEngineAssumption, Engine!Running, Engine!File
<1>2. ASSUME NEW f \in Engine!DciFiles, Held(f) PROVE Engine!IsDci(f)
  <2>1. f.dir \in BOOLEAN /\ f.cut \in BOOLEAN
    BY DEF Engine!DciFiles
  <2>. QED
    BY <1>2, <2>1, FilesFunction DEF Held, Engine!IsDci
<1>3. ASSUME NEW t \in Threads
      PROVE  IF dci[t] = None THEN \A e \in Engines : engine[e].thread # t
             ELSE Engine!IsDci(dci[t]) /\ ~dci[t].cut /\ \E e \in Engines : engine[e].thread = t
  <2>1. CASE dci[t] = None
    BY <1>1, <2>1
  <2>2. CASE dci[t] # None
    BY <1>1, <1>2, <2>2 DEF EnginesOwn, Sound
  <2>. QED
    BY <2>1, <2>2
<1>4. Engine!IsDci(dciDisk)
  BY <1>1, <1>2 DEF EnginesOwn
<1>5. \A e \in Engines : engine[e].mode \in {"closed", "stuck", "stuckread", "read", "write"}
  BY <1>1 DEF EngineRecs, Modes
<1>. QED
  BY <1>3, <1>4, <1>5 DEF Engine!TypeOK

-----------------------------------------------------------------------------
(* Each part by itself.                                                    *)
LEMMA RecentIsTyped ==
    ASSUME RecentInv
    PROVE  Recently!TypeOK
<1>1. SUFFICES ASSUME xbel # None, NEW i \in DOMAIN xbel
               PROVE  /\ xbel[i].file \in Recent
                      /\ \E a \in Apps : xbel[i].count[a] > 0
  BY DEF Recently!TypeOK
<1>2. xbel \in Seq(Bookmarks)
  BY <1>1 DEF RecentInv, RecentTypes, Docs
<1>3. xbel[i] \in Bookmarks
  BY <1>1, <1>2, ElementOfSeq, LenProperties
<1>. QED
  BY <1>3 DEF Bookmarks

LEMMA AppIsTyped ==
    ASSUME AppInv, Descriptors
    PROVE  App!TypeOK
<1>1. /\ asker \in [Threads -> AskerRecs] /\ holder \in [Pids -> Processes \cup {None}]
  BY DEF AppInv, AppTypes
<1>2. \A t \in Threads : asker[t].fd \in Processes \cup {None}
  BY <1>1 DEF AskerRecs
<1>. QED
  BY <1>1, <1>2 DEF Descriptors, App!TypeOK

LEMMA SettingsStayTyped == Settings!Spec => []Of("settings", Settings!TypeOK)
<1>. Settings!DSettingsAssumption
  BY LibraryAssumption
<1>1. Settings!Init => SettingsInv
  BY SettingsStarts
<1>2. SettingsInv /\ [Settings!Next]_(Settings!vars) => SettingsInv'
  BY SettingsStep, SettingsStutter
<1>3. SettingsInv => Of("settings", Settings!TypeOK)
  BY DEF SettingsInv, SettingsTypes, Settings!TypeOK, Of
<1>. QED
  BY <1>1, <1>2, <1>3, PTL DEF Settings!Spec

LEMMA EngineStaysTyped == Engine!Spec => []Of("engine", Engine!TypeOK)
<1>. Engine!DDciFileEngineAssumption
  BY LibraryAssumption
<1>1. Engine!Init => (EngineInv /\ EnginesOwn)
  BY EngineStarts, EngineStartsTyped
<1>2. EngineInv /\ EnginesOwn /\ [Engine!Next]_(Engine!engineVars) => (EngineInv /\ EnginesOwn)'
  BY EngineStep, EngineTyped
<1>3. EngineInv /\ EnginesOwn => Of("engine", Engine!TypeOK)
  BY EngineIsTyped DEF Of
<1>. QED
  BY <1>1, <1>2, <1>3, PTL DEF Engine!Spec

LEMMA ResultStaysTyped == Result!Spec => []Of("expected", Result!TypeOK)
<1>. Result!DExpectedAssumption
  BY LibraryAssumption
<1>1. Result!Init => ResultInv
  BY ResultStarts
<1>2. ResultInv /\ [Result!Next]_(Result!expectedVars) => ResultInv'
  BY ResultStep
<1>3. ResultInv => Of("expected", Result!TypeOK)
  BY DEF ResultInv, Slots, Result!TypeOK, Of
<1>. QED
  BY <1>1, <1>2, <1>3, PTL DEF Result!Spec

LEMMA TrashStaysTyped == Trash!Spec => []Of("trash", Trash!TypeOK)
<1>1. Trash!Init => (TrashInv /\ Places)
  BY TrashStarts, TrashStartsTyped
<1>2. TrashInv /\ Places /\ [Trash!Next]_(Trash!trashVars) => (TrashInv /\ Places)'
  BY TrashStep, PlacesTyped
<1>3. TrashInv /\ Places => Of("trash", Trash!TypeOK)
  BY PlacesAreTypes DEF Of
<1>. QED
  BY <1>1, <1>2, <1>3, PTL DEF Trash!Spec

LEMMA RecentStaysTyped == Recently!Spec => []Of("recent", Recently!TypeOK)
<1>1. Recently!Init => RecentInv
  BY RecentStarts
<1>2. RecentInv /\ [Recently!Next]_(Recently!recentVars) => RecentInv'
  BY RecentStep
<1>3. RecentInv => Of("recent", Recently!TypeOK)
  BY RecentIsTyped DEF Of
<1>. QED
  BY <1>1, <1>2, <1>3, PTL DEF Recently!Spec

LEMMA CapStaysTyped == Cap!Spec => []Of("cap", Cap!TypeOK)
<1>. Cap!DCapAssumption
  BY LibraryAssumption
<1>1. Cap!Init => (CapInv /\ CapTypes)
  BY CapStartsTyped
<1>2. CapInv /\ CapTypes /\ [Cap!Next]_(Cap!capVars) => (CapInv /\ CapTypes)'
  BY CapStep, CapTyped
<1>3. CapInv /\ CapTypes => Of("cap", Cap!TypeOK)
  BY DEF CapInv, CapTypes, Cap!TypeOK, Of
<1>. QED
  BY <1>1, <1>2, <1>3, PTL DEF Cap!Spec

LEMMA HookStaysTyped == Hook!Spec => []Of("hook", Hook!TypeOK)
<1>. Hook!DVtableHookAssumption
  BY LibraryAssumption
<1>1. Hook!Init => (HookInv /\ unsound \subseteq Addresses)
  BY HookStarts DEF Hook!Init
<1>2. HookInv /\ unsound \subseteq Addresses /\ [Hook!Next]_(Hook!hookVars) => (HookInv /\ unsound \subseteq Addresses)'
  BY HookStep, HookTyped
<1>3. HookInv /\ unsound \subseteq Addresses => Of("hook", Hook!TypeOK)
  BY HookIsTyped DEF Of
<1>. QED
  BY <1>1, <1>2, <1>3, PTL DEF Hook!Spec

LEMMA LogStaysTyped == Log!Spec => []Of("log", Log!TypeOK)
<1>. Log!DLogAssumption
  BY LibraryAssumption
<1>1. Log!Init => (LogInv /\ LogTypes)
  BY LogStarts, LogStartsTyped
<1>2. LogInv /\ LogTypes /\ [Log!Next]_(Log!logVars) => (LogInv /\ LogTypes)'
  BY LogStep, LogTyped
<1>3. LogInv /\ LogTypes => Of("log", Log!TypeOK)
  BY DEF LogInv, RulesTypes, Told, LogTypes, Log!TypeOK, Of
<1>. QED
  BY <1>1, <1>2, <1>3, PTL DEF Log!Spec

LEMMA SystemStaysTyped == SysInfo!Spec => []Of("system", SysInfo!TypeOK)
<1>. SysInfo!DSysInfoAssumption
  BY LibraryAssumption
<1>1. SysInfo!Init => (SystemInv /\ SysInfo!TypeOK)
  BY SystemStarts, SystemStartsTyped
<1>2. SystemInv /\ SysInfo!TypeOK /\ [SysInfo!Next]_(SysInfo!sysVars) => (SystemInv /\ SysInfo!TypeOK)'
  BY SystemStep, SystemTyped
<1>3. SystemInv /\ SysInfo!TypeOK => Of("system", SysInfo!TypeOK)
  BY DEF Of
<1>. QED
  BY <1>1, <1>2, <1>3, PTL DEF SysInfo!Spec

LEMMA AppStaysTyped == App!Spec => []Of("app", App!TypeOK)
<1>1. App!Init => (AppInv /\ Descriptors)
  BY AppStarts, AppStartsTyped
<1>2. AppInv /\ Descriptors /\ [App!Next]_(App!appVars) => (AppInv /\ Descriptors)'
  BY AppStep, AppTyped
<1>3. AppInv /\ Descriptors => Of("app", App!TypeOK)
  BY AppIsTyped DEF Of
<1>. QED
  BY <1>1, <1>2, <1>3, PTL DEF App!Spec

(* Whatever the parts do, each one's variables keep their types: a part of *)
(* a file in the trash is not outside, the engines of a thread share its   *)
(* file and no other thread's, the maps of the hooks know the same         *)
(* addresses, and every bookmark is some application's.                    *)
THEOREM LibraryTypes ==
    /\ Settings!Spec /\ Engine!Spec /\ Result!Spec /\ Trash!Spec /\ Recently!Spec
    /\ Cap!Spec /\ Hook!Spec /\ Log!Spec /\ SysInfo!Spec /\ App!Spec
    => []TypeOK
<1>1. /\ Of("settings", Settings!TypeOK) /\ Of("engine", Engine!TypeOK)
      /\ Of("expected", Result!TypeOK) /\ Of("trash", Trash!TypeOK)
      /\ Of("recent", Recently!TypeOK) /\ Of("cap", Cap!TypeOK)
      /\ Of("hook", Hook!TypeOK) /\ Of("log", Log!TypeOK)
      /\ Of("system", SysInfo!TypeOK) /\ Of("app", App!TypeOK)
      => TypeOK
  BY DEF TypeOK
<1>. QED
  BY <1>1, SettingsStayTyped, EngineStaysTyped, ResultStaysTyped, TrashStaysTyped,
     RecentStaysTyped, CapStaysTyped, HookStaysTyped, LogStaysTyped, SystemStaysTyped,
     AppStaysTyped, PTL

-----------------------------------------------------------------------------
(***************************************************************************)
(* DDciFile.  A tree and its index fit if every entry's node has the name  *)
(* and the parent the entry's path says, and every node is some entry's.   *)
(* Then the way from the root to a node is named by its path.              *)
(***************************************************************************)
DciPaths == Seq(FileNames)
Up(p, k) == [i \in 1 .. k |-> p[i]]
Above(p) == Up(p, Len(p) - 1)
Under(p, x) == Len(p) <= Len(x) /\ Up(x, Len(p)) = p
DciNodes == [name : FileNames \cup {""}, parent : 0 .. MaxNodes \cup {None},
             type : {"dir", "file", "link"}, data : Contents \cup LinkTargets \cup {None}]

Indexed(t, ix) ==
    /\ DOMAIN ix \subseteq DciPaths /\ <<>> \in DOMAIN ix
    /\ \A p \in DOMAIN ix : ix[p] \in DOMAIN t
    /\ \A n \in DOMAIN t : \E p \in DOMAIN ix : ix[p] = n
    /\ \A p, q \in DOMAIN ix : ix[p] = ix[q] => p = q
TreeOf(t, ix) ==
    /\ DOMAIN t \subseteq 0 .. MaxNodes /\ \A n \in DOMAIN t : t[n] \in DciNodes
    /\ Indexed(t, ix)
    /\ ix[<<>>] = Tree!Root /\ t[Tree!Root].parent = None
    /\ \A p \in DOMAIN ix : \A k \in 0 .. Len(p) : Up(p, k) \in DOMAIN ix
    /\ \A p \in DOMAIN ix \ {<<>>} :
          t[ix[p]].parent = ix[Above(p)] /\ t[ix[p]].name = p[Len(p)]

LEMMA PathParts ==
    ASSUME NEW p \in DciPaths
    PROVE  /\ Len(p) \in Nat /\ DOMAIN p = 1 .. Len(p) /\ Up(p, Len(p)) = p
           /\ \A k \in 0 .. Len(p) : Up(p, k) \in DciPaths /\ Len(Up(p, k)) = k
           /\ \A k \in 0 .. Len(p) : \A j \in 0 .. k : Up(Up(p, k), j) = Up(p, j)
           /\ p = <<>> <=> Len(p) = 0
           /\ p # <<>> => /\ Len(p) - 1 \in 0 .. Len(p) /\ Above(p) \in DciPaths
                          /\ Len(Above(p)) = Len(p) - 1 /\ p[Len(p)] \in FileNames
                          /\ Tree!Dir(p) = Above(p)
<1>1. Len(p) \in Nat /\ DOMAIN p = 1 .. Len(p) /\ p \in [1 .. Len(p) -> FileNames]
  BY LenProperties DEF DciPaths
<1>2. p = [i \in 1 .. Len(p) |-> p[i]]
  BY <1>1
<1>3. ASSUME NEW k \in 0 .. Len(p)
      PROVE  /\ Up(p, k) \in DciPaths /\ Len(Up(p, k)) = k
             /\ \A j \in 0 .. k : Up(Up(p, k), j) = Up(p, j)
  <2>1. k \in Nat /\ Up(p, k) \in [1 .. k -> FileNames]
    BY <1>1 DEF Up
  <2>2. Up(p, k) \in DciPaths /\ Len(Up(p, k)) = k
    BY <2>1 DEF DciPaths
  <2>3. ASSUME NEW j \in 0 .. k PROVE Up(Up(p, k), j) = Up(p, j)
    BY <1>1, <2>1 DEF Up
  <2>. QED
    BY <2>2, <2>3
<1>4. p = <<>> <=> Len(p) = 0
  BY <1>1, EmptySeq DEF DciPaths
<1>5. p # <<>> => Len(p) - 1 \in 0 .. Len(p) /\ p[Len(p)] \in FileNames
  BY <1>1, <1>4
<1>6. p # <<>> => Tree!Dir(p) = Above(p)
  BY <1>1, <1>5 DEF Tree!Dir, Above, Up
<1>. QED
  BY <1>1, <1>2, <1>3, <1>4, <1>5, <1>6 DEF Up, Above

LEMMA IndexedWays ==
    ASSUME MaxNodes \in Nat, NEW t, NEW ix, TreeOf(t, ix), NEW p \in DOMAIN ix,
           NEW w, w = [i \in 1 .. Len(p) |-> ix[Up(p, i)]]
    PROVE  w \in Tree!Ways(t) /\ Tree!EndOf(w) = ix[p] /\ Len(w) = Len(p)
<1>1. /\ p \in DciPaths /\ Len(p) \in Nat /\ Up(p, Len(p)) = p /\ <<>> \in DciPaths
      /\ \A k \in 0 .. Len(p) : Up(p, k) \in DOMAIN ix /\ Up(p, k) \in DciPaths /\ Len(Up(p, k)) = k
      /\ \A q \in DOMAIN ix : ix[q] \in DOMAIN t
      /\ \A q, r \in DOMAIN ix : ix[q] = ix[r] => q = r
      /\ <<>> \in DOMAIN ix /\ ix[<<>>] = 0 /\ Len(<<>>) = 0
      /\ DOMAIN t \subseteq 0 .. MaxNodes
  BY PathParts DEF TreeOf, Indexed, Tree!Root
<1>2. \A i \in 1 .. Len(p) : i \in 0 .. Len(p) /\ i # 0
  BY <1>1
<1>3. \A i \in 1 .. Len(p) : ix[Up(p, i)] \in DOMAIN t \ {0} /\ ix[Up(p, i)] \in 1 .. MaxNodes
  BY <1>1, <1>2
<1>4. \A i, j \in 1 .. Len(p) : ix[Up(p, i)] = ix[Up(p, j)] => i = j
  BY <1>1, <1>2
<1>5. Len(p) <= MaxNodes
  <2>1. w \in Injection(1 .. Len(p), 1 .. MaxNodes)
    BY <1>3, <1>4 DEF Injection, IsInjective
  <2>2. /\ IsFiniteSet(1 .. MaxNodes) /\ Cardinality(1 .. MaxNodes) <= MaxNodes
        /\ Cardinality(1 .. Len(p)) = Len(p)
    <3>1. 1 \in Int /\ MaxNodes \in Int /\ Len(p) \in Int
      BY <1>1
    <3>2. /\ IsFiniteSet(1 .. MaxNodes)
          /\ Cardinality(1 .. MaxNodes) = IF 1 > MaxNodes THEN 0 ELSE MaxNodes - 1 + 1
          /\ Cardinality(1 .. Len(p)) = IF 1 > Len(p) THEN 0 ELSE Len(p) - 1 + 1
      BY <3>1, FS_Interval
    <3>. QED
      BY <1>1, <3>2
  <2>3. Cardinality(1 .. Len(p)) <= Cardinality(1 .. MaxNodes)
    BY <2>1, <2>2, FS_Injection
  <2>4. Cardinality(1 .. MaxNodes) \in Nat
    BY <2>2, FS_CardinalityType, Zenon
  <2>. QED
    BY <1>1, <2>2, <2>3, <2>4
<1>6. w \in Tree!SeqUpTo(DOMAIN t \ {0}, MaxNodes) /\ DOMAIN w = 1 .. Len(p) /\ Len(w) = Len(p)
  <2>1. w \in [1 .. Len(p) -> DOMAIN t \ {0}] /\ Len(p) \in 0 .. MaxNodes
    BY <1>1, <1>3, <1>5
  <2>2. w \in Seq(DOMAIN t \ {0}) /\ Len(w) = Len(p)
    BY <1>1, <2>1
  <2>. QED
    BY <2>1, <2>2 DEF Tree!SeqUpTo
<1>7. ASSUME NEW i \in 1 .. Len(p)
      PROVE  t[w[i]].parent = IF i = 1 THEN 0 ELSE w[i - 1]
  <2>1. /\ i \in 0 .. Len(p) /\ i - 1 \in 0 .. i /\ i - 1 \in 0 .. Len(p)
        /\ i # 1 => i - 1 \in 1 .. Len(p)
    BY <1>1
  <2>2. /\ Up(p, i) \in DOMAIN ix \ {<<>>} /\ Len(Up(p, i)) = i
        /\ Above(Up(p, i)) = Up(p, i - 1)
    BY <1>1, <1>2, <2>1, PathParts DEF Above
  <2>3. t[w[i]].parent = ix[Up(p, i - 1)]
    BY <2>2 DEF TreeOf
  <2>4. Up(p, 0) = <<>>
    <3>1. 0 \in 0 .. Len(p)
      BY <1>1
    <3>2. Up(p, 0) \in DciPaths /\ Len(Up(p, 0)) = 0
      BY <1>1, <3>1
    <3>. QED
      BY <3>2, PathParts
  <2>. QED
    BY <1>1, <2>1, <2>3, <2>4
<1>8. w \in Tree!Ways(t)
  BY <1>6, <1>7 DEF Tree!Ways, Tree!Root
<1>9. Tree!EndOf(w) = ix[p]
  <2>1. CASE p = <<>>
    <3>1. Len(p) = 0 /\ w = <<>>
      BY <1>1, <2>1
    <3>. QED
      BY <1>1, <2>1, <3>1 DEF Tree!EndOf, Tree!Root
  <2>2. CASE p # <<>>
    <3>1. Len(p) \in 1 .. Len(p)
      BY <1>1, <2>2, PathParts
    <3>2. w # <<>> /\ w[Len(w)] = ix[p]
      BY <1>1, <1>6, <3>1
    <3>. QED
      BY <3>2 DEF Tree!EndOf
  <2>. QED
    BY <2>1, <2>2
<1>. QED
  BY <1>6, <1>8, <1>9

(* There is one way to a node: at each step its parent is.                 *)
LEMMA OneWay ==
    ASSUME MaxNodes \in Nat, NEW t, NEW ix, TreeOf(t, ix), NEW p \in DOMAIN ix,
           NEW w \in Tree!Ways(t), Tree!EndOf(w) = ix[p]
    PROVE  w = [i \in 1 .. Len(p) |-> ix[Up(p, i)]]
<1>1. /\ p \in DciPaths
      /\ DOMAIN ix \subseteq DciPaths
      /\ \A n \in DOMAIN t : \E q \in DOMAIN ix : ix[q] = n
      /\ \A q, r \in DOMAIN ix : ix[q] = ix[r] => q = r
      /\ <<>> \in DOMAIN ix /\ ix[<<>>] = 0 /\ Len(<<>>) = 0
      /\ \A q \in DOMAIN ix : \A k \in 0 .. Len(q) : Up(q, k) \in DOMAIN ix
  BY DEF TreeOf, Indexed, Tree!Root
<1>2. /\ w \in Seq(DOMAIN t \ {0}) /\ Len(w) \in Nat /\ DOMAIN w = 1 .. Len(w)
      /\ \A i \in 1 .. Len(w) : w[i] \in DOMAIN t \ {0}
      /\ \A i \in 1 .. Len(w) : t[w[i]].parent = IF i = 1 THEN 0 ELSE w[i - 1]
      /\ w = [i \in 1 .. Len(w) |-> w[i]]
  <2>1. w \in Tree!SeqUpTo(DOMAIN t \ {0}, MaxNodes)
    BY DEF Tree!Ways, Tree!Root
  <2>2. PICK m \in 0 .. MaxNodes : w \in [1 .. m -> DOMAIN t \ {0}]
    BY <2>1 DEF Tree!SeqUpTo
  <2>3. m \in Nat /\ w \in Seq(DOMAIN t \ {0})
    BY <2>2
  <2>4. Len(w) = m
    BY <2>2, <2>3
  <2>. QED
    BY <2>2, <2>3, <2>4 DEF Tree!Ways, Tree!Root
<1>. DEFINE Fits(i, q) == Len(q) = i /\ \A j \in 1 .. i : w[j] = ix[Up(q, j)]
            bad == {i \in 1 .. Len(w) : ~ \E q \in DOMAIN ix : Fits(i, q)}
<1>3. ASSUME NEW q \in DOMAIN ix, NEW i \in 1 .. Len(w), w[i] = ix[q]
      PROVE  /\ q # <<>> /\ Above(q) \in DOMAIN ix /\ Up(q, Len(q)) = q
             /\ Len(q) \in Nat \ {0} /\ Len(Above(q)) = Len(q) - 1
             /\ ix[Above(q)] = IF i = 1 THEN 0 ELSE w[i - 1]
  <2>1. q # <<>>
    BY <1>1, <1>2, <1>3
  <2>2. /\ Len(q) \in Nat \ {0} /\ Len(q) - 1 \in 0 .. Len(q) /\ Up(q, Len(q)) = q
        /\ Len(Above(q)) = Len(q) - 1
    BY <1>1, <2>1, PathParts
  <2>3. t[ix[q]].parent = ix[Above(q)]
    BY <2>1 DEF TreeOf
  <2>. QED
    BY <1>1, <1>2, <1>3, <2>1, <2>2, <2>3 DEF Above
<1>4. bad = {}
  <2>1. SUFFICES ASSUME bad # {} PROVE FALSE
    OBVIOUS
  <2>2. bad \in SUBSET Nat
    BY <1>2
  <2>3. PICK m \in bad : \A j \in bad : m <= j
    BY <2>1, <2>2, Smallest
  <2>4. m \in 1 .. Len(w)
    BY <2>3
  <2>5. PICK q \in DOMAIN ix : ix[q] = w[m]
    BY <1>1, <1>2, <2>4
  <2>6. /\ q # <<>> /\ Above(q) \in DOMAIN ix /\ Up(q, Len(q)) = q
        /\ Len(q) \in Nat \ {0} /\ Len(Above(q)) = Len(q) - 1
        /\ ix[Above(q)] = IF m = 1 THEN 0 ELSE w[m - 1]
    BY <1>3, <2>4, <2>5
  <2>7. CASE m = 1
    <3>1. Above(q) = <<>>
      BY <1>1, <2>6, <2>7
    <3>2. Len(q) = 1
      BY <1>1, <2>6, <3>1
    <3>3. Fits(m, q)
      BY <2>5, <2>6, <2>7, <3>2
    <3>. QED
      BY <2>3, <3>3
  <2>8. CASE m # 1
    <3>1. m - 1 \in 1 .. Len(w) /\ ~(m <= m - 1)
      BY <1>2, <2>4, <2>8
    <3>2. m - 1 \notin bad
      BY <2>3, <3>1
    <3>3. PICK r \in DOMAIN ix : Fits(m - 1, r)
      BY <3>1, <3>2
    <3>4. Up(r, Len(r)) = r
      BY <1>1, PathParts
    <3>5. w[m - 1] = ix[r]
      BY <3>1, <3>3, <3>4
    <3>6. Above(q) = r
      BY <1>1, <2>6, <2>8, <3>5
    <3>7. Len(q) = m
      BY <2>4, <2>6, <3>3, <3>6
    <3>8. ASSUME NEW j \in 1 .. m PROVE w[j] = ix[Up(q, j)]
      <4>1. CASE j = m
        BY <2>5, <2>6, <3>7, <4>1
      <4>2. CASE j # m
        <5>1. j \in 1 .. m - 1 /\ j \in 0 .. Len(q) - 1 /\ Len(q) - 1 \in 0 .. Len(q)
          BY <2>4, <3>7, <4>2
        <5>2. Up(r, j) = Up(q, j)
          <6>1. q \in DciPaths
            BY <1>1
          <6>2. Up(Up(q, Len(q) - 1), j) = Up(q, j)
            BY <5>1, <6>1, PathParts
          <6>. QED
            BY <3>6, <6>2 DEF Above
        <5>. QED
          BY <3>3, <5>1, <5>2
      <4>. QED
        BY <4>1, <4>2
    <3>9. Fits(m, q)
      BY <3>7, <3>8
    <3>. QED
      BY <2>3, <3>9
  <2>. QED
    BY <2>7, <2>8
<1>5. CASE w = <<>>
  <2>1. ix[p] = 0 /\ Len(w) = 0
    BY <1>5 DEF Tree!EndOf, Tree!Root
  <2>2. Len(p) = 0
    BY <1>1, <2>1
  <2>. QED
    BY <1>2, <2>1, <2>2
<1>6. CASE w # <<>>
  <2>1. Len(w) \in 1 .. Len(w)
    BY <1>2, <1>6, EmptySeq
  <2>2. PICK q \in DOMAIN ix : Fits(Len(w), q)
    BY <1>4, <2>1
  <2>3. w[Len(w)] = ix[p]
    BY <1>6 DEF Tree!EndOf
  <2>4. Up(q, Len(q)) = q
    BY <1>1, PathParts
  <2>5. q = p
    BY <1>1, <2>1, <2>2, <2>3, <2>4
  <2>. QED
    BY <1>2, <2>2, <2>5
<1>. QED
  BY <1>5, <1>6

(* The way, the path and what is below a node, by the index.               *)
LEMMA WayIs ==
    ASSUME MaxNodes \in Nat, NEW t, NEW ix, TreeOf(t, ix), NEW p \in DOMAIN ix
    PROVE  /\ Tree!WayTo(t, ix[p]) = [i \in 1 .. Len(p) |-> ix[Up(p, i)]]
           /\ Tree!PathOf(t, ix[p]) = p
<1>1. PICK w : w = [i \in 1 .. Len(p) |-> ix[Up(p, i)]]
  OBVIOUS
<1>2. w \in Tree!Ways(t) /\ Tree!EndOf(w) = ix[p]
  BY <1>1, IndexedWays
<1>3. Tree!WayTo(t, ix[p]) \in Tree!Ways(t) /\ Tree!EndOf(Tree!WayTo(t, ix[p])) = ix[p]
  BY <1>2 DEF Tree!WayTo
<1>4. Tree!WayTo(t, ix[p]) = w
  BY <1>1, <1>3, OneWay
<1>5. /\ p \in DciPaths /\ Len(p) \in Nat /\ DOMAIN p = 1 .. Len(p) /\ p = [i \in 1 .. Len(p) |-> p[i]]
      /\ \A k \in 0 .. Len(p) : Up(p, k) \in DOMAIN ix /\ Len(Up(p, k)) = k
  <2>1. p \in DciPaths
    BY DEF TreeOf, Indexed
  <2>. QED
    BY <2>1, PathParts DEF TreeOf, DciPaths
<1>6. ASSUME NEW i \in 1 .. Len(p) PROVE t[w[i]].name = p[i]
  <2>1. i \in 0 .. Len(p) /\ Len(Up(p, i)) = i /\ Up(p, i) \in DOMAIN ix /\ i # 0 /\ Len(<<>>) = 0
    BY <1>5
  <2>2. Up(p, i) \in DOMAIN ix \ {<<>>} /\ Up(p, i)[i] = p[i]
    BY <2>1 DEF Up
  <2>3. t[ix[Up(p, i)]].name = Up(p, i)[i]
    BY <2>1, <2>2 DEF TreeOf
  <2>. QED
    BY <1>1, <2>2, <2>3
<1>7. Tree!PathOf(t, ix[p]) = [i \in 1 .. Len(p) |-> t[w[i]].name]
  BY <1>1, <1>4 DEF Tree!PathOf
<1>. QED
  BY <1>1, <1>4, <1>5, <1>6, <1>7

LEMMA BelowIs ==
    ASSUME MaxNodes \in Nat, None \notin 0 .. MaxNodes, NEW t, NEW ix, TreeOf(t, ix), NEW p \in DOMAIN ix
    PROVE  /\ Tree!Below(t, ix[p]) = {ix[x] : x \in {y \in DOMAIN ix : Under(p, y)}}
           /\ Tree!Children(t, ix[p]) = {ix[x] : x \in {y \in DOMAIN ix \ {<<>>} : Above(y) = p}}
<1>1. /\ DOMAIN ix \subseteq DciPaths
      /\ \A n \in DOMAIN t : \E q \in DOMAIN ix : ix[q] = n
      /\ \A q \in DOMAIN ix : ix[q] \in DOMAIN t
      /\ \A q, r \in DOMAIN ix : ix[q] = ix[r] => q = r
      /\ <<>> \in DOMAIN ix /\ ix[<<>>] = 0 /\ Len(<<>>) = 0
      /\ \A q \in DOMAIN ix : \A k \in 0 .. Len(q) : Up(q, k) \in DOMAIN ix
      /\ t[0].parent = None /\ DOMAIN t \subseteq 0 .. MaxNodes
  BY DEF TreeOf, Indexed, Tree!Root
<1>2. ASSUME NEW x \in DOMAIN ix
      PROVE  (ix[p] = 0 \/ ix[p] \in Tree!Range(Tree!WayTo(t, ix[x]))) <=> Under(p, x)
  <2>1. Tree!Range(Tree!WayTo(t, ix[x])) = {ix[Up(x, i)] : i \in 1 .. Len(x)}
    <3>1. Tree!WayTo(t, ix[x]) = [i \in 1 .. Len(x) |-> ix[Up(x, i)]]
      BY WayIs
    <3>. QED
      BY <3>1 DEF Tree!Range
  <2>2. /\ Len(x) \in Nat /\ Len(p) \in Nat
        /\ \A k \in 0 .. Len(x) : Len(Up(x, k)) = k /\ Up(x, k) \in DOMAIN ix
    BY <1>1, PathParts
  <2>3. ix[p] = 0 <=> p = <<>>
    BY <1>1
  <2>4. CASE p = <<>>
    <3>1. 0 \in 0 .. Len(x) /\ Up(x, 0) = <<>>
      <4>1. 0 \in 0 .. Len(x)
        BY <2>2
      <4>2. Up(x, 0) \in DOMAIN ix /\ Len(Up(x, 0)) = 0
        BY <2>2, <4>1
      <4>. QED
        BY <1>1, <4>1, <4>2, PathParts
    <3>. QED
      BY <1>1, <2>2, <2>3, <2>4, <3>1 DEF Under
  <2>5. CASE p # <<>>
    <3>1. Len(p) # 0
      BY <1>1, <2>5, PathParts
    <3>2. ASSUME NEW i \in 1 .. Len(x), ix[p] = ix[Up(x, i)] PROVE Under(p, x)
      <4>1. i \in 0 .. Len(x)
        OBVIOUS
      <4>2. p = Up(x, i) /\ Len(p) = i
        BY <1>1, <2>2, <3>2, <4>1
      <4>. QED
        BY <4>1, <4>2 DEF Under
    <3>3. ASSUME Under(p, x) PROVE Len(p) \in 1 .. Len(x) /\ ix[p] = ix[Up(x, Len(p))]
      BY <2>2, <3>1, <3>3 DEF Under
    <3>. QED
      BY <2>1, <2>3, <2>5, <3>2, <3>3
  <2>. QED
    BY <2>4, <2>5
<1>3. Tree!Below(t, ix[p]) = {ix[x] : x \in {y \in DOMAIN ix : Under(p, y)}}
  <2>1. Tree!Below(t, ix[p]) =
           {m \in DOMAIN t : ix[p] = 0 \/ ix[p] \in Tree!Range(Tree!WayTo(t, m))}
    BY DEF Tree!Below, Tree!Root
  <2>. QED
    BY <1>1, <1>2, <2>1
<1>4. ASSUME NEW x \in DOMAIN ix
      PROVE  t[ix[x]].parent = ix[p] <=> x # <<>> /\ Above(x) = p
  <2>1. CASE x = <<>>
    BY <1>1, <2>1
  <2>2. CASE x # <<>>
    <3>1. Above(x) \in DOMAIN ix
      BY <1>1, <2>2, PathParts DEF Above
    <3>2. t[ix[x]].parent = ix[Above(x)]
      BY <2>2 DEF TreeOf
    <3>. QED
      BY <1>1, <2>2, <3>1, <3>2
  <2>. QED
    BY <2>1, <2>2
<1>. QED
  BY <1>1, <1>3, <1>4 DEF Tree!Children

(* A node more, below one that is there.                                   *)
LEMMA GrownTree ==
    ASSUME MaxNodes \in Nat, NEW t, NEW ix, TreeOf(t, ix),
           NEW q \in DciPaths, q # <<>>, q \notin DOMAIN ix, Above(q) \in DOMAIN ix,
           NEW n \in 0 .. MaxNodes, n \notin DOMAIN t,
           NEW r \in DciNodes, r.name = q[Len(q)], r.parent = ix[Above(q)],
           NEW t1, t1 = Tree!Grown(t, n, r), NEW ix1, ix1 = Tree!Grown(ix, q, n)
    PROVE  TreeOf(t1, ix1) /\ Tree!PathOf(t1, n) = q
<1>1. /\ DOMAIN t1 = DOMAIN t \cup {n} /\ t1[n] = r /\ \A m \in DOMAIN t : t1[m] = t[m]
      /\ DOMAIN ix1 = DOMAIN ix \cup {q} /\ ix1[q] = n
      /\ \A p \in DOMAIN ix : p # q /\ ix1[p] = ix[p]
  BY DEF Tree!Grown
<1>2. /\ DOMAIN ix \subseteq DciPaths /\ <<>> \in DOMAIN ix /\ ix[<<>>] = 0
      /\ \A p \in DOMAIN ix : ix[p] \in DOMAIN t
      /\ \A m \in DOMAIN t : \E p \in DOMAIN ix : ix[p] = m
      /\ \A p, x \in DOMAIN ix : ix[p] = ix[x] => p = x
      /\ DOMAIN t \subseteq 0 .. MaxNodes /\ \A m \in DOMAIN t : t[m] \in DciNodes
      /\ t[0].parent = None
  BY DEF TreeOf, Indexed, Tree!Root
<1>3. Indexed(t1, ix1)
  BY <1>1, <1>2 DEF Indexed
<1>4. ix1[<<>>] = 0 /\ t1[0].parent = None
  BY <1>1, <1>2
<1>5. ASSUME NEW p \in DOMAIN ix1, NEW k \in 0 .. Len(p) PROVE Up(p, k) \in DOMAIN ix1
  <2>1. CASE p \in DOMAIN ix
    BY <1>1, <2>1 DEF TreeOf
  <2>2. CASE p = q
    <3>1. /\ Len(q) \in Nat /\ Up(q, Len(q)) = q /\ Len(Above(q)) = Len(q) - 1
          /\ Len(q) - 1 \in 0 .. Len(q)
      BY PathParts
    <3>2. CASE k = Len(q)
      BY <1>1, <2>2, <3>1, <3>2
    <3>3. CASE k # Len(q)
      <4>1. k \in 0 .. Len(q) - 1
        BY <2>2, <3>1, <3>3
      <4>2. Up(Above(q), k) = Up(q, k)
        BY <3>1, <4>1, PathParts DEF Above
      <4>3. Up(Above(q), k) \in DOMAIN ix
        BY <3>1, <4>1 DEF TreeOf
      <4>. QED
        BY <1>1, <2>2, <4>2, <4>3
    <3>. QED
      BY <3>2, <3>3
  <2>. QED
    BY <1>1, <2>1, <2>2
<1>6. ASSUME NEW p \in DOMAIN ix1 \ {<<>>}
      PROVE  t1[ix1[p]].parent = ix1[Above(p)] /\ t1[ix1[p]].name = p[Len(p)]
  <2>1. CASE p \in DOMAIN ix
    <3>1. Above(p) \in DOMAIN ix
      BY <1>2, <2>1, PathParts DEF TreeOf, Above
    <3>2. t[ix[p]].parent = ix[Above(p)] /\ t[ix[p]].name = p[Len(p)]
      BY <2>1 DEF TreeOf
    <3>. QED
      BY <1>1, <1>2, <2>1, <3>1, <3>2
  <2>2. CASE p = q
    BY <1>1, <2>2
  <2>. QED
    BY <1>1, <2>1, <2>2
<1>7. TreeOf(t1, ix1)
  <2>1. DOMAIN t1 \subseteq 0 .. MaxNodes /\ \A m \in DOMAIN t1 : t1[m] \in DciNodes
    BY <1>1, <1>2
  <2>. QED
    BY <1>3, <1>4, <1>5, <1>6, <2>1 DEF TreeOf, Tree!Root
<1>. QED
  BY <1>1, <1>7, WayIs

(* Whatever is done to the index: it stays a tree's while nothing went     *)
(* past it.                                                                *)
TreeInv == wild \in Nat /\ (wild = 0 /\ fatal = "" => TreeOf(node, index))

LEMMA TreeConstants ==
    /\ MaxNodes \in Nat /\ None \notin 0 .. MaxNodes /\ None \notin Contents
    /\ LinkTargets \subseteq Seq(FileNames) /\ MaxDepth \in Nat
  BY LibraryAssumption DEF Tree!DDciFileAssumption

LEMMA TreePaths == Tree!Paths \subseteq DciPaths
<1>1. ASSUME NEW p \in Tree!Paths PROVE p \in DciPaths
  <2>1. PICK k \in 0 .. MaxDepth : p \in [1 .. k -> FileNames]
    BY DEF Tree!Paths, Tree!SeqUpTo
  <2>2. k \in Nat
    BY TreeConstants
  <2>. QED
    BY <2>1, <2>2 DEF DciPaths
<1>. QED
  BY <1>1

(* A step that stops the program leaves nothing to show; another has to    *)
(* say what it did to the index, unless it did not keep that up.           *)
LEMMA TreeStops ==
    ASSUME TreeInv, NEW why, why # "", Tree!Stop(why)
    PROVE  TreeInv'
BY DEF Tree!Stop, TreeInv

LEMMA Successor ==
    ASSUME NEW n \in Nat
    PROVE  n + 1 \in Nat /\ n + 1 # 0
  OBVIOUS

LEMMA TreeKept ==
    ASSUME TreeInv, NEW whole \in BOOLEAN, Tree!Kept(whole), fatal' = fatal,
           wild = 0 /\ whole /\ fatal = "" => TreeOf(node', index')
    PROVE  TreeInv'
<1>1. wild \in Nat
  BY DEF TreeInv
<1>2. wild' \in Nat /\ (wild' = 0 => wild = 0 /\ whole)
  <2>1. CASE wild = 0 /\ whole
    BY <2>1 DEF Tree!Kept
  <2>2. CASE ~(wild = 0 /\ whole)
    <3>1. wild' = wild + 1
      BY <2>2 DEF Tree!Kept
    <3>2. wild' \in Nat /\ wild' # 0
      BY <1>1, <3>1, Successor
    <3>. QED
      BY <3>2
  <2>. QED
    BY <2>1, <2>2
<1>. QED
  BY <1>2 DEF TreeInv

LEMMA FreeNode ==
    ASSUME Tree!Unused # {}
    PROVE  Tree!New \in 0 .. MaxNodes /\ Tree!New \notin DOMAIN node
<1>1. Tree!Unused \in SUBSET Nat /\ Tree!Unused \in SUBSET (0 .. MaxNodes)
  BY TreeConstants DEF Tree!Unused, Tree!Ids
<1>2. PICK n \in Tree!Unused : \A m \in Tree!Unused : n <= m
  BY <1>1, Smallest
<1>3. Tree!New \in Tree!Unused
  BY <1>2 DEF Tree!New
<1>. QED
  BY <1>1, <1>3 DEF Tree!Unused

(* mkNode.                                                                 *)
LEMMA MadeTree ==
    ASSUME TreeOf(node, index), NEW q \in Tree!Paths, Tree!CanMake(q),
           NEW type \in {"dir", "file", "link"},
           NEW data \in Contents \cup LinkTargets \cup {None},
           NEW made, made = Tree!MkNode(q, type, data)
    PROVE  /\ TreeOf(made.node, made.index)
           /\ made.index = Tree!Grown(index, q, Tree!New)
           /\ DOMAIN made.node = DOMAIN node \cup {Tree!New}
           /\ \A n \in DOMAIN node : made.node[n] = node[n]
<1>. DEFINE r == Tree!Node(q[Len(q)], index[Tree!Dir(q)], type, data)
<1>1. /\ q \in DciPaths /\ q # <<>> /\ q \notin DOMAIN index /\ Tree!Unused # {}
      /\ Above(q) \in DOMAIN index /\ Tree!Dir(q) = Above(q)
      /\ q[Len(q)] \in FileNames
  BY TreePaths, PathParts DEF Tree!CanMake, Tree!Has, Tree!IsDir, Tree!Live
<1>2. Tree!New \in 0 .. MaxNodes /\ Tree!New \notin DOMAIN node
  BY <1>1, FreeNode
<1>3. r \in DciNodes /\ r.name = q[Len(q)] /\ r.parent = index[Above(q)]
  <2>1. index[Above(q)] \in 0 .. MaxNodes
    BY <1>1 DEF TreeOf, Indexed
  <2>. QED
    BY <1>1, <2>1 DEF DciNodes, Tree!Node
<1>. HIDE DEF r
<1>4. PICK t1 : t1 = Tree!Grown(node, Tree!New, r)
  OBVIOUS
<1>5. PICK ix1 : ix1 = Tree!Grown(index, q, Tree!New)
  OBVIOUS
<1>6. TreeOf(t1, ix1) /\ Tree!PathOf(t1, Tree!New) = q
  BY <1>1, <1>2, <1>3, <1>4, <1>5, TreeConstants, GrownTree
<1>7. made.node = t1 /\ made.index = Tree!Grown(index, Tree!PathOf(t1, Tree!New), Tree!New)
  BY <1>4 DEF Tree!MkNode, r
<1>8. DOMAIN t1 = DOMAIN node \cup {Tree!New} /\ \A n \in DOMAIN node : t1[n] = node[n]
  BY <1>2, <1>4 DEF Tree!Grown
<1>. QED
  BY <1>5, <1>6, <1>7, <1>8

LEMMA InstallStep ==
    ASSUME TreeInv, NEW s, Tree!Install(s),
           wild = 0 /\ fatal = "" => TreeOf(s.node, s.index)
    PROVE  TreeInv'
<1>1. /\ node' = s.node /\ index' = s.index /\ Tree!Kept(TRUE) /\ fatal' = fatal
  BY DEF Tree!Install
<1>. QED
  BY <1>1, TreeKept

LEMMA MakeStep ==
    ASSUME TreeInv, NEW p \in Tree!Paths,
           \/ Tree!Mkdir(p)
           \/ \E data \in Contents : Tree!WriteNew(p, data)
           \/ \E source \in LinkTargets : Tree!Link(source, p)
    PROVE  TreeInv'
<1>1. PICK type \in {"dir", "file", "link"}, data \in Contents \cup LinkTargets \cup {None} :
         Tree!CanMake(p) /\ Tree!Install(Tree!MkNode(p, type, data))
  BY DEF Tree!Mkdir, Tree!WriteNew, Tree!Link
<1>2. PICK made : made = Tree!MkNode(p, type, data)
  OBVIOUS
<1>3. wild = 0 /\ fatal = "" => TreeOf(made.node, made.index)
  BY <1>1, <1>2, MadeTree DEF TreeInv
<1>. QED
  BY <1>1, <1>2, <1>3, InstallStep

(* A node's type and content are of no account.                            *)
LEMMA SameTree ==
    ASSUME NEW t, NEW ix, TreeOf(t, ix), NEW t1, DOMAIN t1 = DOMAIN t,
           \A n \in DOMAIN t : t1[n] \in DciNodes /\ t1[n].name = t[n].name /\ t1[n].parent = t[n].parent
    PROVE  TreeOf(t1, ix)
<1>1. Indexed(t1, ix)
  BY DEF TreeOf, Indexed
<1>2. t1[Tree!Root].parent = None
  BY DEF TreeOf, Indexed
<1>3. \A p \in DOMAIN ix \ {<<>>} : t1[ix[p]].parent = ix[Above(p)] /\ t1[ix[p]].name = p[Len(p)]
  BY DEF TreeOf, Indexed
<1>. QED
  BY <1>1, <1>2, <1>3 DEF TreeOf

LEMMA WriteOverStep ==
    ASSUME TreeInv, NEW p \in Tree!Paths, NEW data \in Contents, Tree!WriteOver(p, data)
    PROVE  TreeInv'
<1>1. CASE Tree!Stop("endless")
  BY <1>1, TreeStops
<1>2. ASSUME NEW target, Tree!Live(target), node' = [node EXCEPT ![index[target]].data = data],
             Tree!Kept(TRUE), index' = index, fatal' = fatal
      PROVE  TreeInv'
  <2>1. SUFFICES ASSUME TreeOf(node, index) PROVE TreeOf(node', index')
    BY <1>2, TreeKept DEF TreeInv
  <2>2. PICK n : n = index[target]
    OBVIOUS
  <2>3. PICK r : r = [node[n] EXCEPT !.data = data]
    OBVIOUS
  <2>4. n \in DOMAIN node /\ node[n] \in DciNodes
    BY <1>2, <2>1, <2>2 DEF Tree!Live, TreeOf
  <2>5. r \in DciNodes /\ r.name = node[n].name /\ r.parent = node[n].parent
    BY <2>3, <2>4 DEF DciNodes
  <2>6. /\ DOMAIN node' = DOMAIN node /\ node'[n] = r
        /\ \A m \in DOMAIN node \ {n} : node'[m] = node[m]
    BY <1>2, <2>2, <2>3, <2>4
  <2>7. \A m \in DOMAIN node : /\ node'[m] \in DciNodes /\ node'[m].name = node[m].name
                              /\ node'[m].parent = node[m].parent
    BY <2>1, <2>5, <2>6 DEF TreeOf
  <2>. QED
    BY <1>2, <2>1, <2>6, <2>7, SameTree
<1>. QED
  BY <1>1, <1>2 DEF Tree!WriteOver

(* Nodes fewer: with each path those under it go.                          *)
Pruned(t, ix, gone, t1, ix1) ==
    /\ gone \subseteq DOMAIN ix /\ <<>> \notin gone
    /\ \A p \in gone : \A x \in DOMAIN ix : Under(p, x) => x \in gone
    /\ DOMAIN t1 = DOMAIN t \ {ix[x] : x \in gone} /\ \A n \in DOMAIN t1 : t1[n] = t[n]
    /\ DOMAIN ix1 = DOMAIN ix \ gone /\ \A p \in DOMAIN ix1 : ix1[p] = ix[p]

LEMMA PrunedTree ==
    ASSUME NEW t, NEW ix, TreeOf(t, ix), NEW gone, NEW t1, NEW ix1, Pruned(t, ix, gone, t1, ix1)
    PROVE  TreeOf(t1, ix1)
<1>0. /\ gone \subseteq DOMAIN ix /\ <<>> \notin gone
      /\ \A p \in gone : \A x \in DOMAIN ix : Under(p, x) => x \in gone
      /\ DOMAIN t1 = DOMAIN t \ {ix[x] : x \in gone} /\ \A n \in DOMAIN t1 : t1[n] = t[n]
      /\ DOMAIN ix1 = DOMAIN ix \ gone /\ \A p \in DOMAIN ix1 : ix1[p] = ix[p]
  BY DEF Pruned
<1>1. /\ DOMAIN ix \subseteq DciPaths /\ <<>> \in DOMAIN ix /\ ix[<<>>] = 0
      /\ \A p \in DOMAIN ix : ix[p] \in DOMAIN t
      /\ \A m \in DOMAIN t : \E p \in DOMAIN ix : ix[p] = m
      /\ \A p, x \in DOMAIN ix : ix[p] = ix[x] => p = x
      /\ DOMAIN t \subseteq 0 .. MaxNodes /\ \A m \in DOMAIN t : t[m] \in DciNodes
      /\ t[0].parent = None
  BY DEF TreeOf, Indexed, Tree!Root
<1>2. \A p \in DOMAIN ix1 : p \in DOMAIN ix /\ p \notin gone /\ ix1[p] \in DOMAIN t1
  BY <1>0, <1>1
<1>3. \A m \in DOMAIN t1 : \E p \in DOMAIN ix1 : ix1[p] = m
  <2>1. SUFFICES ASSUME NEW m \in DOMAIN t1 PROVE \E p \in DOMAIN ix1 : ix1[p] = m
    OBVIOUS
  <2>2. PICK p \in DOMAIN ix : ix[p] = m
    BY <1>1
  <2>3. p \notin gone
    BY <1>0, <2>2
  <2>. QED
    BY <1>0, <2>2, <2>3
<1>4. Indexed(t1, ix1)
  BY <1>0, <1>1, <1>2, <1>3 DEF Indexed
<1>5. ASSUME NEW p \in DOMAIN ix1, NEW k \in 0 .. Len(p) PROVE Up(p, k) \in DOMAIN ix1
  <2>1. Up(p, k) \in DOMAIN ix
    BY <1>2 DEF TreeOf
  <2>2. Under(Up(p, k), p)
    <3>1. Len(Up(p, k)) = k /\ Len(p) \in Nat
      BY <1>1, <1>2, PathParts
    <3>. QED
      BY <3>1 DEF Under
  <2>. QED
    BY <1>0, <1>2, <2>1, <2>2
<1>6. ASSUME NEW p \in DOMAIN ix1 \ {<<>>}
      PROVE  t1[ix1[p]].parent = ix1[Above(p)] /\ t1[ix1[p]].name = p[Len(p)]
  <2>1. Above(p) \in DOMAIN ix1
    BY <1>1, <1>2, <1>5, PathParts DEF Above
  <2>2. t[ix[p]].parent = ix[Above(p)] /\ t[ix[p]].name = p[Len(p)]
    BY <1>2 DEF TreeOf
  <2>. QED
    BY <1>0, <1>2, <2>1, <2>2
<1>7. ix1[<<>>] = 0 /\ t1[0].parent = None
  <2>1. <<>> \in DOMAIN ix1
    BY <1>0, <1>1
  <2>2. ix1[<<>>] = 0
    BY <1>0, <1>1, <2>1
  <2>3. 0 \in DOMAIN t1
    BY <1>2, <2>1, <2>2
  <2>. QED
    BY <1>0, <1>1, <2>2, <2>3
<1>. QED
  BY <1>0, <1>1, <1>4, <1>5, <1>6, <1>7 DEF TreeOf, Tree!Root

LEMMA UnderItself ==
    ASSUME NEW p \in DciPaths
    PROVE  /\ Under(p, p) /\ \A x \in DciPaths : Under(x, <<>>) => x = <<>>
           /\ \A x, y \in DciPaths : Under(p, x) /\ Under(x, y) => Under(p, y)
<1>1. Under(p, p)
  <2>1. Len(p) \in Nat /\ Up(p, Len(p)) = p
    BY PathParts
  <2>. QED
    BY <2>1 DEF Under
<1>2. ASSUME NEW x \in DciPaths, Under(x, <<>>) PROVE x = <<>>
  <2>1. Len(x) \in Nat /\ Len(x) <= Len(<<>>) /\ Len(<<>>) = 0
    BY <1>2, PathParts DEF Under
  <2>2. Len(x) = 0
    BY <2>1
  <2>. QED
    BY <2>2, PathParts
<1>3. ASSUME NEW x \in DciPaths, NEW y \in DciPaths, Under(p, x), Under(x, y) PROVE Under(p, y)
  <2>1. /\ Len(p) \in Nat /\ Len(x) \in Nat /\ Len(y) \in Nat /\ Len(p) <= Len(x) /\ Len(x) <= Len(y)
        /\ Up(x, Len(p)) = p /\ Up(y, Len(x)) = x
    BY <1>3, PathParts DEF Under
  <2>2. Len(x) \in 0 .. Len(y) /\ Len(p) \in 0 .. Len(x) /\ Len(p) <= Len(y)
    BY <2>1
  <2>3. Up(Up(y, Len(x)), Len(p)) = Up(y, Len(p))
    BY <2>2, PathParts
  <2>. QED
    BY <2>1, <2>2, <2>3, Zenon DEF Under
<1>. QED
  BY <1>1, <1>2, <1>3

LEMMA RemoveStep ==
    ASSUME TreeInv, NEW p \in Tree!Paths, Tree!RemoveFile(p)
    PROVE  TreeInv'
<1>. DEFINE ns       == IF index[p] = Tree!Root THEN Tree!Children(node, Tree!Root) ELSE {index[p]}
            unlisted == ns \cup UNION {Tree!Children(node, n) : n \in ns}
            deleted  == UNION {Tree!Below(node, n) : n \in ns}
            keys     == {Tree!PathOf(node, n) : n \in unlisted}
<1>1. Tree!Live(p) /\ (Tree!RemoveNodes(ns) \/ Tree!Stop("undefined"))
  BY DEF Tree!RemoveFile
<1>2. CASE Tree!Stop("assertion") \/ Tree!Stop("undefined")
  BY <1>2, TreeStops
<1>3. ASSUME node' = Tree!Restrict(node, DOMAIN node \ deleted),
             index' = Tree!Restrict(index, DOMAIN index \ keys),
             Tree!Kept(deleted = unlisted), fatal' = fatal
      PROVE  TreeInv'
  <2>1. SUFFICES ASSUME TreeOf(node, index), deleted = unlisted PROVE TreeOf(node', index')
    <3>1. PICK whole \in BOOLEAN : whole = (deleted = unlisted)
      OBVIOUS
    <3>. QED
      BY <1>3, <3>1, TreeKept DEF TreeInv
  <2>2. /\ DOMAIN index \subseteq DciPaths /\ <<>> \in DOMAIN index /\ index[<<>>] = 0
        /\ \A x, y \in DOMAIN index : index[x] = index[y] => x = y
        /\ p \in DOMAIN index
    BY <1>1, <2>1 DEF TreeOf, Indexed, Tree!Root, Tree!Live, Tree!Has
  <2>. DEFINE P    == IF p = <<>> THEN {y \in DOMAIN index \ {<<>>} : Above(y) = <<>>} ELSE {p}
              gone == {x \in DOMAIN index : \E y \in P : Under(y, x)}
  <2>3. P \in SUBSET (DOMAIN index \ {<<>>}) /\ ns = {index[y] : y \in P}
    <3>1. Tree!Children(node, index[<<>>]) =
             {index[x] : x \in {y \in DOMAIN index \ {<<>>} : Above(y) = <<>>}}
      BY <2>1, <2>2, TreeConstants, BelowIs
    <3>2. index[p] = Tree!Root <=> p = <<>>
      BY <2>2 DEF Tree!Root
    <3>3. CASE p = <<>>
      BY <2>2, <3>1, <3>2, <3>3 DEF Tree!Root
    <3>4. CASE p # <<>>
      BY <2>2, <3>2, <3>4
    <3>. QED
      BY <3>3, <3>4
  <2>. HIDE DEF P, ns
  <2>4. \A y \in P : Tree!Below(node, index[y]) = {index[x] : x \in {z \in DOMAIN index : Under(y, z)}}
    BY <2>1, <2>3, TreeConstants, BelowIs
  <2>5. deleted = {index[x] : x \in gone}
    <3>1. ASSUME NEW n PROVE n \in deleted <=> \E y \in P : n \in Tree!Below(node, index[y])
      BY <2>3
    <3>2. ASSUME NEW n PROVE n \in deleted <=> \E x \in gone : n = index[x]
      <4>1. ASSUME NEW y \in P
            PROVE  n \in Tree!Below(node, index[y]) <=> \E x \in DOMAIN index : Under(y, x) /\ n = index[x]
        BY <2>4
      <4>2. n \in deleted <=> \E y \in P : \E x \in DOMAIN index : Under(y, x) /\ n = index[x]
        BY <3>1, <4>1
      <4>3. (\E y \in P : \E x \in DOMAIN index : Under(y, x) /\ n = index[x])
            <=> \E x \in gone : n = index[x]
        OBVIOUS
      <4>. QED
        BY <4>2, <4>3
    <3>. QED
      BY <3>2
  <2>. HIDE DEF deleted
  <2>6. keys = gone
    <3>1. keys = {Tree!PathOf(node, n) : n \in deleted}
      BY <2>1
    <3>2. \A x \in DOMAIN index : Tree!PathOf(node, index[x]) = x
      BY <2>1, TreeConstants, WayIs
    <3>3. gone \subseteq DOMAIN index
      OBVIOUS
    <3>. HIDE DEF keys, gone
    <3>. QED
      BY <2>5, <3>1, <3>2, <3>3
  <2>. HIDE DEF keys
  <2>7. <<>> \notin gone
    BY <2>2, <2>3, UnderItself
  <2>8. \A y \in gone : \A x \in DOMAIN index : Under(y, x) => x \in gone
    BY <2>2, <2>3, UnderItself
  <2>9. /\ DOMAIN node' = DOMAIN node \ {index[x] : x \in gone}
        /\ \A n \in DOMAIN node' : node'[n] = node[n]
        /\ DOMAIN index' = DOMAIN index \ gone /\ \A x \in DOMAIN index' : index'[x] = index[x]
    BY <1>3, <2>5, <2>6 DEF Tree!Restrict
  <2>. HIDE DEF gone
  <2>10. gone \in SUBSET (DOMAIN index)
    BY DEF gone
  <2>11. Pruned(node, index, gone, node', index')
    BY <2>7, <2>8, <2>9, <2>10 DEF Pruned
  <2>. QED
    BY <2>1, <2>11, PrunedTree
<1>. QED
  BY <1>1, <1>2, <1>3 DEF Tree!RemoveNodes

(* Nothing is under a node without children.                               *)
LEMMA LeafUnder ==
    ASSUME MaxNodes \in Nat, None \notin 0 .. MaxNodes, NEW t, NEW ix, TreeOf(t, ix),
           NEW p \in DOMAIN ix, Tree!Children(t, ix[p]) = {},
           NEW x \in DOMAIN ix, Under(p, x)
    PROVE  x = p
<1>1. /\ p \in DciPaths /\ x \in DciPaths /\ Len(p) \in Nat /\ Len(x) \in Nat
      /\ Len(p) <= Len(x) /\ Up(x, Len(p)) = p /\ Up(x, Len(x)) = x
      /\ \A k \in 0 .. Len(x) : Up(x, k) \in DOMAIN ix
  BY PathParts DEF TreeOf, Indexed, Under
<1>2. CASE Len(x) = Len(p)
  BY <1>1, <1>2
<1>3. CASE Len(x) # Len(p)
  <2>1. PICK k : k = Len(p) + 1
    OBVIOUS
  <2>2. k \in 0 .. Len(x) /\ k # 0 /\ Len(p) \in 0 .. k /\ k - 1 = Len(p)
    BY <1>1, <1>3, <2>1
  <2>3. Up(x, k) \in DOMAIN ix /\ Len(Up(x, k)) = k /\ Up(x, k) # <<>>
    <3>1. Len(Up(x, k)) = k /\ Len(<<>>) = 0
      BY <1>1, <2>2, PathParts
    <3>. QED
      BY <1>1, <2>2, <3>1
  <2>4. Above(Up(x, k)) = p
    <3>1. Up(Up(x, k), Len(p)) = Up(x, Len(p))
      BY <1>1, <2>2, PathParts
    <3>. QED
      BY <1>1, <2>2, <2>3, <3>1 DEF Above
  <2>5. ix[Up(x, k)] \in Tree!Children(t, ix[p])
    <3>1. Tree!Children(t, ix[p]) = {ix[y] : y \in {z \in DOMAIN ix \ {<<>>} : Above(z) = p}}
      BY BelowIs
    <3>2. Up(x, k) \in {z \in DOMAIN ix \ {<<>>} : Above(z) = p}
      BY <2>3, <2>4
    <3>. QED
      BY <3>1, <3>2
  <2>. QED
    BY <2>5
<1>. QED
  BY <1>2, <1>3

LEMMA LeafBelow ==
    ASSUME NEW t, NEW n \in DOMAIN t, n # 0, \A m \in DOMAIN t : t[m].parent # n,
           \A m \in DOMAIN t : \E w \in Tree!Ways(t) : Tree!EndOf(w) = m
    PROVE  Tree!Below(t, n) = {n}
<1>1. ASSUME NEW m \in DOMAIN t PROVE n \in Tree!Range(Tree!WayTo(t, m)) <=> n = m
  <2>1. PICK w : w = Tree!WayTo(t, m)
    OBVIOUS
  <2>2. w \in Tree!Ways(t) /\ Tree!EndOf(w) = m
    BY <2>1 DEF Tree!WayTo
  <2>3. /\ Len(w) \in Nat /\ DOMAIN w = 1 .. Len(w) /\ w \in Seq(DOMAIN t \ {0})
        /\ \A i \in 1 .. Len(w) : w[i] \in DOMAIN t /\ t[w[i]].parent = IF i = 1 THEN 0 ELSE w[i - 1]
    <3>1. w \in Tree!SeqUpTo(DOMAIN t \ {0}, MaxNodes)
      BY <2>2 DEF Tree!Ways, Tree!Root
    <3>2. PICK k \in 0 .. MaxNodes : w \in [1 .. k -> DOMAIN t \ {0}]
      BY <3>1 DEF Tree!SeqUpTo
    <3>3. k \in Nat /\ w \in Seq(DOMAIN t \ {0})
      BY <3>2, TreeConstants
    <3>4. Len(w) = k
      BY <3>2, <3>3
    <3>. QED
      BY <2>2, <3>2, <3>3, <3>4 DEF Tree!Ways, Tree!Root
  <2>4. ASSUME NEW i \in 1 .. Len(w), w[i] = n PROVE n = m
    <3>1. CASE i = Len(w)
      <4>1. w # <<>>
        BY <2>3, <3>1, EmptySeq
      <4>. QED
        BY <2>2, <2>4, <3>1, <4>1 DEF Tree!EndOf
    <3>2. CASE i # Len(w)
      <4>1. i + 1 \in 1 .. Len(w) /\ i + 1 # 1 /\ (i + 1) - 1 = i
        <5>1. Len(w) \in Nat
          BY <2>3
        <5>. QED
          BY <3>2, <5>1
      <4>2. t[w[i + 1]].parent = n /\ w[i + 1] \in DOMAIN t
        BY <2>3, <2>4, <4>1
      <4>. QED
        BY <4>2
    <3>. QED
      BY <3>1, <3>2
  <2>5. ASSUME n = m PROVE \E i \in 1 .. Len(w) : w[i] = n
    <3>1. w # <<>>
      BY <2>2, <2>5 DEF Tree!EndOf, Tree!Root
    <3>2. Len(w) \in 1 .. Len(w)
      <4>1. Len(w) # 0
        BY <2>3, <3>1, EmptySeq
      <4>. QED
        BY <2>3, <4>1
    <3>3. w[Len(w)] = n
      BY <2>2, <2>5, <3>1 DEF Tree!EndOf
    <3>. QED
      BY <3>2, <3>3
  <2>. QED
    BY <2>1, <2>3, <2>4, <2>5 DEF Tree!Range
<1>. QED
  BY <1>1 DEF Tree!Below, Tree!Root

(* A way stays one where the nodes on it do.                               *)
Treads(w, t, t1) == \A i \in DOMAIN w : w[i] \in DOMAIN t1 /\ t1[w[i]].parent = t[w[i]].parent

LEMMA SameWay ==
    ASSUME NEW t, NEW t1, NEW w \in Tree!Ways(t), Treads(w, t, t1)
    PROVE  w \in Tree!Ways(t1)
<1>0. \A i \in DOMAIN w : w[i] \in DOMAIN t1 /\ t1[w[i]].parent = t[w[i]].parent
  BY DEF Treads
<1>1. PICK k \in 0 .. MaxNodes : w \in [1 .. k -> DOMAIN t \ {0}]
  BY DEF Tree!Ways, Tree!SeqUpTo, Tree!Root
<1>2. w \in [1 .. k -> DOMAIN t1 \ {0}]
  BY <1>0, <1>1
<1>3. w \in Tree!SeqUpTo(DOMAIN t1 \ {0}, MaxNodes)
  BY <1>1, <1>2 DEF Tree!SeqUpTo
<1>. QED
  BY <1>0, <1>3 DEF Tree!Ways, Tree!Root



(* A leaf takes another name and parent, and the place of another leaf.    *)
Renamed(p, q, over, rest, moved, gone, t1) ==
    /\ p \in DOMAIN index /\ q \in DciPaths /\ q # <<>> /\ p # q /\ p # <<>>
    /\ over <=> q \in DOMAIN index
    /\ Tree!Children(node, index[p]) = {} /\ (over => Tree!Children(node, index[q]) = {})
    /\ rest = Tree!Restrict(index, DOMAIN index \ (IF over THEN {p, q} ELSE {p}))
    /\ Above(q) \in DOMAIN rest
    /\ moved = [node EXCEPT ![index[p]].name = q[Len(q)], ![index[p]].parent = rest[Above(q)]]
    /\ gone = IF over THEN Tree!Below(moved, index[q]) ELSE {}
    /\ t1 = Tree!Restrict(moved, DOMAIN node \ gone)

LEMMA RenamedTree ==
    ASSUME TreeOf(node, index), NEW p, NEW q, NEW over \in BOOLEAN, NEW rest, NEW moved,
           NEW gone, NEW t1, Renamed(p, q, over, rest, moved, gone, t1)
    PROVE  TreeOf(t1, Tree!Grown(rest, q, index[p]))
<1>0. /\ p \in DOMAIN index /\ q \in DciPaths /\ q # <<>> /\ p # q /\ p # <<>>
      /\ over <=> q \in DOMAIN index
      /\ Tree!Children(node, index[p]) = {} /\ (over => Tree!Children(node, index[q]) = {})
      /\ rest = Tree!Restrict(index, DOMAIN index \ (IF over THEN {p, q} ELSE {p}))
      /\ Above(q) \in DOMAIN rest
      /\ moved = [node EXCEPT ![index[p]].name = q[Len(q)], ![index[p]].parent = rest[Above(q)]]
      /\ gone = IF over THEN Tree!Below(moved, index[q]) ELSE {}
      /\ t1 = Tree!Restrict(moved, DOMAIN node \ gone)
  BY DEF Renamed
<1>. USE <1>0
<1>. DEFINE n    == index[p]
            away == IF over THEN {p, q} ELSE {p}
            t0   == Tree!Restrict(node, DOMAIN node \ {index[x] : x \in away})
            r    == moved[n]
            t2   == Tree!Grown(t0, n, r)
            ix2  == Tree!Grown(rest, q, n)
<1>1. /\ DOMAIN index \subseteq DciPaths /\ <<>> \in DOMAIN index /\ index[<<>>] = 0
      /\ \A x \in DOMAIN index : index[x] \in DOMAIN node
      /\ \A m \in DOMAIN node : \E x \in DOMAIN index : index[x] = m
      /\ \A x, y \in DOMAIN index : index[x] = index[y] => x = y
      /\ DOMAIN node \subseteq 0 .. MaxNodes /\ \A m \in DOMAIN node : node[m] \in DciNodes
      /\ MaxNodes \in Nat /\ None \notin 0 .. MaxNodes
  BY TreeConstants DEF TreeOf, Indexed, Tree!Root
<1>2. away \subseteq DOMAIN index /\ <<>> \notin away /\ p \in away /\ (q \in DOMAIN index => q \in away)
  OBVIOUS
<1>3. \A x \in away : \A y \in DOMAIN index : Under(x, y) => y \in away
  <2>1. ASSUME NEW y \in DOMAIN index, Under(p, y) PROVE y = p
    BY <1>1, <2>1, LeafUnder
  <2>2. ASSUME over, NEW y \in DOMAIN index, Under(q, y) PROVE y = q
    BY <1>1, <2>2, LeafUnder
  <2>. QED
    BY <2>1, <2>2
<1>4. /\ DOMAIN rest = DOMAIN index \ away /\ \A x \in DOMAIN rest : rest[x] = index[x]
      /\ DOMAIN t0 = DOMAIN node \ {index[x] : x \in away} /\ \A m \in DOMAIN t0 : t0[m] = node[m]
  BY DEF Tree!Restrict
<1>. HIDE DEF t0
<1>5. TreeOf(t0, rest)
  <2>1. Pruned(node, index, away, t0, rest)
    BY <1>2, <1>3, <1>4 DEF Pruned
  <2>. QED
    BY <2>1, PrunedTree
<1>6. /\ r \in DciNodes /\ r.name = q[Len(q)] /\ r.parent = rest[Above(q)] /\ n \in DOMAIN node
      /\ DOMAIN moved = DOMAIN node /\ \A m \in DOMAIN node \ {n} : moved[m] = node[m]
      /\ rest[Above(q)] = index[Above(q)] /\ Above(q) \in DOMAIN index
  <2>1. Above(q) \in DOMAIN index /\ rest[Above(q)] = index[Above(q)]
    BY <1>4
  <2>2. n \in DOMAIN node /\ node[n] \in DciNodes /\ index[Above(q)] \in 0 .. MaxNodes
    BY <1>1, <2>1
  <2>3. q[Len(q)] \in FileNames
    BY PathParts
  <2>4. PICK e : e = [node[n] EXCEPT !.name = q[Len(q)], !.parent = rest[Above(q)]]
    OBVIOUS
  <2>5. e \in DciNodes /\ e.name = q[Len(q)] /\ e.parent = rest[Above(q)]
    BY <2>1, <2>2, <2>3, <2>4 DEF DciNodes
  <2>6. moved = [node EXCEPT ![n] = e]
    BY <2>2, <2>4
  <2>. QED
    BY <2>1, <2>2, <2>5, <2>6
<1>. HIDE DEF r
<1>7. TreeOf(t2, ix2)
  <2>1. q \notin DOMAIN rest /\ n \in 0 .. MaxNodes /\ n \notin DOMAIN t0
    BY <1>1, <1>2, <1>4
  <2>2. r.parent = rest[Above(q)] /\ r.name = q[Len(q)] /\ r \in DciNodes
    BY <1>6
  <2>3. PICK g2 : g2 = t2
    OBVIOUS
  <2>4. PICK x2 : x2 = ix2
    OBVIOUS
  <2>5. TreeOf(g2, x2)
    BY <1>1, <1>5, <2>1, <2>2, <2>3, <2>4, GrownTree
  <2>. QED
    BY <2>3, <2>4, <2>5
<1>8. /\ DOMAIN t2 = DOMAIN t0 \cup {n} /\ t2[n] = moved[n]
      /\ \A m \in DOMAIN t2 : m \in DOMAIN moved /\ t2[m] = moved[m]
  BY <1>1, <1>2, <1>4, <1>6 DEF Tree!Grown, r
<1>. HIDE DEF t2, ix2
<1>9. gone = IF over THEN {index[q]} ELSE {}
  <2>1. SUFFICES ASSUME over PROVE Tree!Below(moved, index[q]) = {index[q]}
    OBVIOUS
  <2>2. /\ q \in DOMAIN index /\ index[q] \in DOMAIN moved /\ index[q] # 0 /\ index[q] # n
        /\ DOMAIN node = DOMAIN t2 \cup {index[q]}
    <3>1. q \in DOMAIN index /\ index[q] \in DOMAIN node /\ index[q] # 0 /\ index[q] # n
      BY <1>1, <2>1
    <3>2. index[q] \in DOMAIN moved
      BY <1>6, <3>1
    <3>3. DOMAIN t0 = DOMAIN node \ {index[p], index[q]}
      <4>1. {index[x] : x \in away} = {index[p], index[q]}
        BY <2>1
      <4>. QED
        BY <1>4, <4>1
    <3>4. DOMAIN t2 = DOMAIN t0 \cup {index[p]} /\ index[p] \in DOMAIN node
      BY <1>6, <1>8
    <3>. QED
      BY <3>1, <3>2, <3>3, <3>4
  <2>3. \A m \in DOMAIN moved : moved[m].parent # index[q]
    <3>1. moved[n].parent # index[q]
      <4>1. Above(q) # q
        BY PathParts
      <4>. QED
        BY <1>1, <1>6, <2>2, <4>1 DEF r
    <3>2. \A m \in DOMAIN node : node[m].parent # index[q]
      BY <2>1 DEF Tree!Children
    <3>. QED
      BY <1>6, <3>1, <3>2
  <2>4. ASSUME NEW m \in DOMAIN t2 PROVE \E w \in Tree!Ways(moved) : Tree!EndOf(w) = m
    <3>1. PICK x \in DOMAIN ix2 : ix2[x] = m
      BY <1>7 DEF TreeOf, Indexed
    <3>2. PICK w : w = [i \in 1 .. Len(x) |-> ix2[Up(x, i)]]
      OBVIOUS
    <3>3. w \in Tree!Ways(t2) /\ Tree!EndOf(w) = m
      BY <1>1, <1>7, <3>1, <3>2, IndexedWays
    <3>4. \A i \in DOMAIN w : w[i] \in DOMAIN t2
      BY <3>3 DEF Tree!Ways, Tree!SeqUpTo
    <3>5. w \in Tree!Ways(moved)
      <4>1. PICK g2 : g2 = t2
        OBVIOUS
      <4>2. PICK mo : mo = moved
        OBVIOUS
      <4>3. Treads(w, g2, mo)
        BY <1>8, <3>4, <4>1, <4>2 DEF Treads
      <4>4. w \in Tree!Ways(g2)
        BY <3>3, <4>1
      <4>. QED
        BY <4>2, <4>3, <4>4, SameWay
    <3>. QED
      BY <3>3, <3>5
  <2>5. \E w \in Tree!Ways(moved) : Tree!EndOf(w) = index[q]
    <3>1. PICK w : w = [i \in 1 .. Len(q) |-> index[Up(q, i)]]
      OBVIOUS
    <3>2. w \in Tree!Ways(node) /\ Tree!EndOf(w) = index[q]
      BY <1>1, <2>2, <3>1, IndexedWays
    <3>3. ASSUME NEW i \in DOMAIN w PROVE w[i] \in DOMAIN node \ {n}
      <4>1. i \in 1 .. Len(q) /\ i \in 0 .. Len(q) /\ Len(q) \in Nat
        BY <3>1, PathParts
      <4>2. Up(q, i) \in DOMAIN index /\ Len(Up(q, i)) = i
        BY <2>2, <4>1, PathParts DEF TreeOf
      <4>3. Under(Up(q, i), q)
        BY <4>1, <4>2 DEF Under
      <4>4. Up(q, i) # p
        BY <1>1, <2>2, <4>3, LeafUnder
      <4>. QED
        BY <1>1, <3>1, <4>1, <4>2, <4>4
    <3>4. w \in Tree!Ways(moved)
      <4>1. Treads(w, node, moved)
        BY <1>6, <3>3 DEF Treads
      <4>. QED
        BY <3>2, <4>1, SameWay
    <3>. QED
      BY <3>2, <3>4
  <2>6. \A m \in DOMAIN moved : \E w \in Tree!Ways(moved) : Tree!EndOf(w) = m
    BY <1>6, <2>2, <2>4, <2>5
  <2>. QED
    BY <2>2, <2>3, <2>6, LeafBelow
<1>10. t1 = t2
  <2>1. /\ DOMAIN t1 = DOMAIN node \ gone /\ \A m \in DOMAIN t1 : t1[m] = moved[m]
        /\ t1 = [m \in DOMAIN node \ gone |-> moved[m]]
    BY DEF Tree!Restrict
  <2>2. DOMAIN node \ gone = DOMAIN t2
    <3>1. \A m \in DOMAIN t2 : m \in DOMAIN node /\ m \notin gone
      BY <1>1, <1>4, <1>6, <1>8, <1>9
    <3>2. \A m \in DOMAIN node \ gone : m \in DOMAIN t2
      BY <1>4, <1>8, <1>9
    <3>. QED
      BY <3>1, <3>2
  <2>3. t2 = [m \in DOMAIN t2 |-> t2[m]]
    BY DEF t2, Tree!Grown
  <2>4. PICK D : D = DOMAIN t2
    OBVIOUS
  <2>5. \A m \in D : t1[m] = t2[m]
    BY <1>8, <2>1, <2>2, <2>4
  <2>6. t1 = [m \in D |-> t1[m]]
    BY <2>1, <2>2, <2>4
  <2>7. t2 = [m \in D |-> t2[m]]
    BY <2>3, <2>4
  <2>8. PICK g : g = t2
    OBVIOUS
  <2>9. g = [m \in D |-> g[m]] /\ t1 = [m \in D |-> t1[m]] /\ \A m \in D : t1[m] = g[m]
    BY <2>5, <2>6, <2>7, <2>8
  <2>10. t1 = g
    BY <2>9
  <2>. QED
    BY <2>8, <2>10
<1>. QED
  BY <1>7, <1>10 DEF ix2

LEMMA RenameStep ==
    ASSUME TreeInv, NEW p \in Tree!Paths, NEW q \in Tree!Paths, NEW override \in BOOLEAN,
           Tree!Rename(p, q, override)
    PROVE  TreeInv'
<1>. DEFINE over  == override /\ Tree!Has(q)
            rest  == Tree!Restrict(index, DOMAIN index \ (IF over THEN {p, q} ELSE {p}))
            n     == index[p]
            into  == rest[Tree!Dir(q)]
            moved == [node EXCEPT ![n].name = q[Len(q)], ![n].parent = into]
            gone  == IF over THEN Tree!Below(moved, index[q]) ELSE {}
<1>1. p # q /\ (override \/ ~Tree!Has(q)) /\ q \in DciPaths
  BY TreePaths DEF Tree!Rename
<1>2. \/ Tree!Kept(index' = index) /\ node' = node /\ fatal' = fatal
      \/ \E why : why # "" /\ Tree!Stop(why)
      \/ /\ Tree!Has(p) /\ Tree!Dir(q) \in DOMAIN rest /\ n # Tree!Root
         /\ node' = Tree!Restrict(moved, DOMAIN node \ gone) /\ index' = Tree!Grown(rest, q, n)
         /\ Tree!Kept(/\ Tree!Children(node, n) = {}
                      /\ over => Tree!Children(node, index[q]) = {})
         /\ fatal' = fatal
  BY DEF Tree!Rename
<1>3. CASE Tree!Kept(index' = index) /\ node' = node /\ fatal' = fatal
  <2>1. PICK whole \in BOOLEAN : whole = (index' = index)
    OBVIOUS
  <2>2. wild = 0 /\ whole /\ fatal = "" => TreeOf(node', index')
    BY <1>3, <2>1 DEF TreeInv
  <2>. QED
    BY <1>3, <2>1, <2>2, TreeKept
<1>4. CASE \E why : why # "" /\ Tree!Stop(why)
  BY <1>4, TreeStops
<1>5. CASE /\ Tree!Has(p) /\ Tree!Dir(q) \in DOMAIN rest /\ n # Tree!Root
           /\ node' = Tree!Restrict(moved, DOMAIN node \ gone) /\ index' = Tree!Grown(rest, q, n)
           /\ Tree!Kept(/\ Tree!Children(node, n) = {}
                        /\ over => Tree!Children(node, index[q]) = {})
           /\ fatal' = fatal
  <2>1. PICK whole \in BOOLEAN : whole = (/\ Tree!Children(node, n) = {}
                                          /\ over => Tree!Children(node, index[q]) = {})
    OBVIOUS
  <2>2. ASSUME TreeOf(node, index), Tree!Children(node, n) = {},
               over => Tree!Children(node, index[q]) = {}
        PROVE  TreeOf(node', index')
    <3>1. /\ p \in DOMAIN index /\ index[<<>>] = 0 /\ <<>> \in DOMAIN index /\ p # <<>>
          /\ over <=> q \in DOMAIN index
      BY <1>1, <1>5, <2>2 DEF TreeOf, Indexed, Tree!Has, Tree!Root
    <3>2. q # <<>>
      <4>1. SUFFICES ASSUME q = <<>> PROVE FALSE
        OBVIOUS
      <4>2. over /\ Tree!Dir(q) = q
        BY <3>1, <4>1, EmptySeq DEF Tree!Dir
      <4>3. q \notin DOMAIN rest
        BY <4>2 DEF Tree!Restrict
      <4>. QED
        BY <1>5, <4>2, <4>3
    <3>3. Tree!Dir(q) = Above(q)
      BY <1>1, <3>2, PathParts
    <3>4. PICK ov \in BOOLEAN : ov <=> over
      <4>. HIDE DEF over
      <4>1. CASE over
        BY <4>1
      <4>2. CASE ~over
        BY <4>2
      <4>. QED
        BY <4>1, <4>2
    <3>5. PICK re : re = rest
      OBVIOUS
    <3>6. PICK mo : mo = moved
      OBVIOUS
    <3>7. PICK go : go = gone
      <4>. HIDE DEF gone
      <4>. QED
        OBVIOUS
    <3>8. PICK t1 : t1 = node'
      OBVIOUS
    <3>9. TreeOf(t1, Tree!Grown(re, q, index[p]))
      <4>1. /\ ov <=> q \in DOMAIN index
            /\ Tree!Children(node, index[p]) = {} /\ (ov => Tree!Children(node, index[q]) = {})
        BY <2>2, <3>1, <3>4
      <4>2. /\ re = Tree!Restrict(index, DOMAIN index \ (IF ov THEN {p, q} ELSE {p}))
            /\ Above(q) \in DOMAIN re
        BY <1>5, <3>3, <3>4, <3>5
      <4>3. mo = [node EXCEPT ![index[p]].name = q[Len(q)], ![index[p]].parent = re[Above(q)]]
        BY <3>3, <3>5, <3>6
      <4>4. go = IF ov THEN Tree!Below(mo, index[q]) ELSE {}
        <5>. HIDE DEF over, moved
        <5>. QED
          BY <3>4, <3>6, <3>7
      <4>5. t1 = Tree!Restrict(mo, DOMAIN node \ go)
        BY <1>5, <3>6, <3>7, <3>8
      <4>6. TreeOf(node, index)
        BY <2>2
      <4>. QED
        <5>1. Renamed(p, q, ov, re, mo, go, t1)
          BY <1>1, <3>1, <3>2, <4>1, <4>2, <4>3, <4>4, <4>5 DEF Renamed
        <5>. QED
          BY <4>6, <5>1, RenamedTree
    <3>. QED
      BY <1>5, <3>5, <3>8, <3>9
  <2>3. wild = 0 /\ whole /\ fatal = "" => TreeOf(node', index')
    BY <2>1, <2>2 DEF TreeInv
  <2>. QED
    BY <1>5, <2>1, <2>3, TreeKept
<1>. QED
  BY <1>2, <1>3, <1>4, <1>5

(* A path under p, moved under q.                                          *)
To(p, q, x) ==
    [i \in 1 .. Len(q) + (Len(x) - Len(p)) |->
        IF i <= Len(q) THEN q[i] ELSE x[(i - Len(q)) + Len(p)]]

LEMMA ToPath ==
    ASSUME NEW p \in DciPaths, NEW q \in DciPaths, NEW x \in DciPaths, Under(p, x)
    PROVE  /\ To(p, q, x) \in DciPaths /\ Len(To(p, q, x)) = Len(q) + (Len(x) - Len(p))
           /\ \A k \in 0 .. Len(q) : Up(To(p, q, x), k) = Up(q, k)
           /\ \A k \in Len(p) .. Len(x) :
                 /\ k \in 0 .. Len(x) /\ Under(p, Up(x, k))
                 /\ Up(To(p, q, x), (k - Len(p)) + Len(q)) = To(p, q, Up(x, k))
<1>1. PICK lp, lq, lx : lp = Len(p) /\ lq = Len(q) /\ lx = Len(x)
  OBVIOUS
<1>2. /\ lp \in Nat /\ lq \in Nat /\ lx \in Nat /\ lp <= lx /\ Up(x, lp) = p
      /\ p \in [1 .. lp -> FileNames] /\ q \in [1 .. lq -> FileNames] /\ x \in [1 .. lx -> FileNames]
  BY <1>1, PathParts, LenProperties DEF Under, DciPaths
<1>3. PICK n : n = lq + (lx - lp)
  OBVIOUS
<1>4. n \in Nat /\ lq <= n
  BY <1>2, <1>3
<1>5. To(p, q, x) = [i \in 1 .. n |-> IF i <= lq THEN q[i] ELSE x[(i - lq) + lp]]
  BY <1>1, <1>3 DEF To
<1>6. To(p, q, x) \in DciPaths /\ Len(To(p, q, x)) = n
  <2>1. ASSUME NEW i \in 1 .. n PROVE (IF i <= lq THEN q[i] ELSE x[(i - lq) + lp]) \in FileNames
    <3>1. CASE i <= lq
      <4>1. i \in 1 .. lq
        BY <1>2, <3>1
      <4>. QED
        BY <1>2, <3>1, <4>1
    <3>2. CASE ~(i <= lq)
      <4>1. (i - lq) + lp \in 1 .. lx
        BY <1>2, <1>3, <3>2
      <4>. QED
        BY <1>2, <3>2, <4>1
    <3>. QED
      BY <3>1, <3>2
  <2>2. To(p, q, x) \in [1 .. n -> FileNames]
    BY <1>5, <2>1
  <2>3. To(p, q, x) \in Seq(FileNames)
    BY <1>4, <2>2
  <2>. QED
    BY <1>4, <2>2, <2>3 DEF DciPaths
<1>7. ASSUME NEW k \in 0 .. lq PROVE Up(To(p, q, x), k) = Up(q, k)
  <2>1. \A i \in 1 .. k : i \in 1 .. n /\ i <= lq
    BY <1>2, <1>4
  <2>. QED
    BY <1>5, <2>1 DEF Up
<1>8. ASSUME NEW k \in lp .. lx
      PROVE  /\ k \in 0 .. lx /\ Under(p, Up(x, k))
             /\ Up(To(p, q, x), (k - lp) + lq) = To(p, q, Up(x, k))
  <2>1. k \in 0 .. lx /\ lp \in 0 .. k /\ lp <= k /\ k \in Nat
    BY <1>2
  <2>2. /\ Len(Up(x, k)) = k /\ Up(Up(x, k), lp) = Up(x, lp)
    BY <1>1, <2>1, PathParts
  <2>3. Under(p, Up(x, k))
    BY <1>1, <1>2, <2>1, <2>2 DEF Under
  <2>4. PICK m : m = lq + (k - lp)
    OBVIOUS
  <2>5. m = (k - lp) + lq /\ m \in 0 .. n
    BY <1>2, <1>3, <2>1, <2>4
  <2>6. To(p, q, Up(x, k)) = [i \in 1 .. m |-> IF i <= lq THEN q[i] ELSE Up(x, k)[(i - lq) + lp]]
    BY <1>1, <2>2, <2>4 DEF To
  <2>7. ASSUME NEW i \in 1 .. m
        PROVE  /\ i \in 1 .. n
               /\ (IF i <= lq THEN q[i] ELSE Up(x, k)[(i - lq) + lp])
                    = (IF i <= lq THEN q[i] ELSE x[(i - lq) + lp])
    <3>1. i \in 1 .. n
      BY <1>4, <2>5
    <3>2. CASE ~(i <= lq)
      <4>1. (i - lq) + lp \in 1 .. k
        BY <1>2, <2>1, <2>4, <3>2
      <4>. QED
        BY <3>1, <4>1 DEF Up
    <3>. QED
      BY <3>1, <3>2
  <2>8. Up(To(p, q, x), m) = [i \in 1 .. m |-> IF i <= lq THEN q[i] ELSE x[(i - lq) + lp]]
    BY <1>5, <2>7 DEF Up
  <2>9. To(p, q, Up(x, k)) = [i \in 1 .. m |-> IF i <= lq THEN q[i] ELSE x[(i - lq) + lp]]
    BY <2>6, <2>7
  <2>. QED
    BY <2>1, <2>3, <2>5, <2>8, <2>9
<1>. QED
  BY <1>1, <1>3, <1>6, <1>7, <1>8

LEMMA ToBelow ==
    ASSUME NEW p \in DciPaths, NEW q \in DciPaths, NEW x \in DciPaths, Under(p, x), x # p
    PROVE  /\ Len(To(p, q, x)) > Len(q) /\ x # <<>> /\ To(p, q, x) # <<>>
           /\ Above(To(p, q, x)) = To(p, q, Above(x)) /\ Under(p, Above(x))
           /\ To(p, q, x)[Len(To(p, q, x))] = x[Len(x)]
<1>1. PICK lp, lq, lx : lp = Len(p) /\ lq = Len(q) /\ lx = Len(x)
  OBVIOUS
<1>2. lp \in Nat /\ lq \in Nat /\ lx \in Nat /\ lp <= lx /\ Up(x, lp) = p /\ Up(x, lx) = x
  BY <1>1, PathParts DEF Under
<1>3. lp < lx
  BY <1>2
<1>4. PICK n : n = lq + (lx - lp)
  OBVIOUS
<1>5. n \in Nat /\ lq < n /\ n \in 1 .. n /\ lx - 1 \in lp .. lx /\ lx # 0 /\ n # 0
      /\ ~(n <= lq) /\ (n - lq) + lp = lx /\ ((lx - 1) - lp) + lq = n - 1
  BY <1>2, <1>3, <1>4
<1>6. To(p, q, x) \in DciPaths /\ Len(To(p, q, x)) = n
  BY <1>1, <1>4, ToPath
<1>7. Up(To(p, q, x), n - 1) = To(p, q, Up(x, lx - 1)) /\ Under(p, Up(x, lx - 1))
  <2>1. \A k \in lp .. lx : /\ Under(p, Up(x, k))
                            /\ Up(To(p, q, x), (k - lp) + lq) = To(p, q, Up(x, k))
    BY <1>1, ToPath
  <2>2. PICK k \in lp .. lx : k = lx - 1
    BY <1>5
  <2>3. (k - lp) + lq = n - 1
    BY <1>5, <2>2
  <2>. QED
    BY <2>1, <2>2, <2>3
<1>8. To(p, q, x)[n] = x[lx]
  <2>1. To(p, q, x)[n] = IF n <= lq THEN q[n] ELSE x[(n - lq) + lp]
    BY <1>1, <1>4, <1>5 DEF To
  <2>. QED
    BY <1>5, <2>1
<1>9. Len(<<>>) = 0
  OBVIOUS
<1>. QED
  BY <1>1, <1>5, <1>6, <1>7, <1>8, <1>9 DEF Above

LEMMA ToItself ==
    ASSUME NEW p \in DciPaths, NEW q \in DciPaths
    PROVE  To(p, q, p) = q
<1>1. Len(p) \in Nat /\ Len(q) \in Nat /\ Len(q) + (Len(p) - Len(p)) = Len(q)
  BY PathParts
<1>2. q = [i \in 1 .. Len(q) |-> q[i]]
  BY LenProperties DEF DciPaths
<1>3. \A i \in 1 .. Len(q) : i <= Len(q)
  OBVIOUS
<1>. QED
  BY <1>1, <1>2, <1>3 DEF To

LEMMA ToOne ==
    ASSUME NEW p \in DciPaths, NEW q \in DciPaths, NEW x \in DciPaths, NEW y \in DciPaths,
           Under(p, x), Under(p, y), To(p, q, x) = To(p, q, y)
    PROVE  x = y
<1>1. PICK lp, lq, lx : lp = Len(p) /\ lq = Len(q) /\ lx = Len(x)
  OBVIOUS
<1>2. /\ lp \in Nat /\ lq \in Nat /\ lx \in Nat /\ Len(y) \in Nat /\ lp <= lx
      /\ Up(x, lp) = p /\ Up(y, lp) = p
  BY <1>1, PathParts DEF Under
<1>3. Len(y) = lx
  <2>1. lq + (lx - lp) = lq + (Len(y) - lp)
    <3>1. /\ Len(To(p, q, x)) = lq + (lx - lp)
          /\ Len(To(p, q, y)) = lq + (Len(y) - lp)
      BY <1>1, ToPath
    <3>. QED
      BY <3>1
  <2>. QED
    BY <1>2, <2>1
<1>4. ASSUME NEW i \in 1 .. lx PROVE x[i] = y[i]
  <2>1. CASE i <= lp
    <3>1. i \in 1 .. lp
      BY <1>2, <2>1
    <3>2. Up(x, lp)[i] = x[i] /\ Up(y, lp)[i] = y[i]
      BY <3>1 DEF Up
    <3>. QED
      BY <1>2, <3>2
  <2>2. CASE ~(i <= lp)
    <3>1. PICK j : j = (i - lp) + lq
      OBVIOUS
    <3>2. j \in 1 .. lq + (lx - lp) /\ ~(j <= lq) /\ (j - lq) + lp = i
      BY <1>2, <2>2, <3>1
    <3>3. To(p, q, x)[j] = (IF j <= lq THEN q[j] ELSE x[(j - lq) + lp])
      BY <1>1, <3>2 DEF To
    <3>4. To(p, q, y)[j] = (IF j <= lq THEN q[j] ELSE y[(j - lq) + lp])
      BY <1>1, <1>3, <3>2 DEF To
    <3>5. To(p, q, x)[j] = x[i] /\ To(p, q, y)[j] = y[i]
      BY <3>2, <3>3, <3>4
    <3>. QED
      BY <3>5
  <2>. QED
    BY <2>1, <2>2
<1>5. x = [i \in 1 .. lx |-> x[i]] /\ y = [i \in 1 .. lx |-> y[i]]
  <2>1. Up(x, Len(x)) = x /\ Up(y, Len(y)) = y
    BY PathParts
  <2>. QED
    BY <1>1, <1>3, <2>1 DEF Up
<1>. QED
  BY <1>4, <1>5

(* Nodes more, each where its path says.                                   *)
Grafted(t0, ix0, S, to, tw, t, ix) ==
    /\ \A x \in S : /\ to[x] \in DciPaths \ DOMAIN ix0 /\ to[x] # <<>>
                    /\ tw[x] \in (0 .. MaxNodes) \ DOMAIN t0
                    /\ t[tw[x]] \in DciNodes /\ ix[to[x]] = tw[x]
                    /\ \A k \in 0 .. Len(to[x]) : Up(to[x], k) \in DOMAIN ix
                    /\ t[tw[x]].parent = ix[Above(to[x])] /\ t[tw[x]].name = to[x][Len(to[x])]
    /\ \A x, y \in S : tw[x] = tw[y] => x = y
    /\ DOMAIN t = DOMAIN t0 \cup {tw[x] : x \in S} /\ \A n \in DOMAIN t0 : t[n] = t0[n]
    /\ DOMAIN ix = DOMAIN ix0 \cup {to[x] : x \in S} /\ \A y \in DOMAIN ix0 : ix[y] = ix0[y]

LEMMA GraftedTree ==
    ASSUME NEW t0, NEW ix0, TreeOf(t0, ix0), NEW S, NEW to, NEW tw, NEW t, NEW ix,
           Grafted(t0, ix0, S, to, tw, t, ix)
    PROVE  TreeOf(t, ix)
<1>1. /\ DOMAIN ix0 \subseteq DciPaths /\ <<>> \in DOMAIN ix0 /\ ix0[<<>>] = 0
      /\ \A p \in DOMAIN ix0 : ix0[p] \in DOMAIN t0
      /\ \A m \in DOMAIN t0 : \E p \in DOMAIN ix0 : ix0[p] = m
      /\ \A p, x \in DOMAIN ix0 : ix0[p] = ix0[x] => p = x
      /\ DOMAIN t0 \subseteq 0 .. MaxNodes /\ \A m \in DOMAIN t0 : t0[m] \in DciNodes
      /\ t0[0].parent = None
      /\ \A p \in DOMAIN ix0 : \A k \in 0 .. Len(p) : Up(p, k) \in DOMAIN ix0
      /\ \A p \in DOMAIN ix0 \ {<<>>} :
            t0[ix0[p]].parent = ix0[Above(p)] /\ t0[ix0[p]].name = p[Len(p)]
  BY DEF TreeOf, Indexed, Tree!Root
<1>2. /\ \A x \in S : /\ to[x] \in DciPaths \ DOMAIN ix0 /\ to[x] # <<>>
                      /\ tw[x] \in (0 .. MaxNodes) \ DOMAIN t0
                      /\ t[tw[x]] \in DciNodes /\ ix[to[x]] = tw[x]
                      /\ \A k \in 0 .. Len(to[x]) : Up(to[x], k) \in DOMAIN ix
                      /\ t[tw[x]].parent = ix[Above(to[x])] /\ t[tw[x]].name = to[x][Len(to[x])]
      /\ \A x, y \in S : tw[x] = tw[y] => x = y
      /\ DOMAIN t = DOMAIN t0 \cup {tw[x] : x \in S} /\ \A n \in DOMAIN t0 : t[n] = t0[n]
      /\ DOMAIN ix = DOMAIN ix0 \cup {to[x] : x \in S} /\ \A y \in DOMAIN ix0 : ix[y] = ix0[y]
  BY DEF Grafted
<1>3. Indexed(t, ix)
  <2>1. DOMAIN ix \subseteq DciPaths /\ <<>> \in DOMAIN ix
    BY <1>1, <1>2
  <2>2. \A p \in DOMAIN ix : ix[p] \in DOMAIN t
    BY <1>1, <1>2
  <2>3. \A n \in DOMAIN t : \E p \in DOMAIN ix : ix[p] = n
    <3>1. ASSUME NEW n \in DOMAIN t0 PROVE \E p \in DOMAIN ix : ix[p] = n
      BY <1>1, <1>2
    <3>2. ASSUME NEW x \in S PROVE \E p \in DOMAIN ix : ix[p] = tw[x]
      BY <1>2
    <3>. QED
      BY <1>2, <3>1, <3>2
  <2>4. ASSUME NEW a \in DOMAIN ix, NEW b \in DOMAIN ix, ix[a] = ix[b] PROVE a = b
    <3>1. CASE a \in DOMAIN ix0 /\ b \in DOMAIN ix0
      BY <1>1, <1>2, <2>4, <3>1
    <3>2. CASE a \in DOMAIN ix0 /\ b \notin DOMAIN ix0
      <4>1. PICK x \in S : b = to[x]
        BY <1>2, <3>2
      <4>. QED
        BY <1>1, <1>2, <2>4, <3>2, <4>1
    <3>3. CASE a \notin DOMAIN ix0 /\ b \in DOMAIN ix0
      <4>1. PICK x \in S : a = to[x]
        BY <1>2, <3>3
      <4>. QED
        BY <1>1, <1>2, <2>4, <3>3, <4>1
    <3>4. CASE a \notin DOMAIN ix0 /\ b \notin DOMAIN ix0
      <4>1. PICK x \in S, y \in S : a = to[x] /\ b = to[y]
        BY <1>2, <3>4
      <4>2. tw[x] = tw[y]
        BY <1>2, <2>4, <4>1
      <4>. QED
        BY <1>2, <4>1, <4>2
    <3>. QED
      BY <3>1, <3>2, <3>3, <3>4
  <2>. QED
    BY <2>1, <2>2, <2>3, <2>4 DEF Indexed
<1>4. ix[<<>>] = 0 /\ t[0].parent = None
  BY <1>1, <1>2
<1>5. ASSUME NEW p \in DOMAIN ix, NEW k \in 0 .. Len(p) PROVE Up(p, k) \in DOMAIN ix
  BY <1>1, <1>2
<1>6. ASSUME NEW p \in DOMAIN ix \ {<<>>}
      PROVE  t[ix[p]].parent = ix[Above(p)] /\ t[ix[p]].name = p[Len(p)]
  <2>1. CASE p \in DOMAIN ix0
    <3>1. p \in DciPaths /\ p # <<>>
      BY <1>1, <2>1
    <3>2. Len(p) - 1 \in 0 .. Len(p)
      BY <3>1, PathParts
    <3>3. Above(p) \in DOMAIN ix0
      BY <1>1, <2>1, <3>2 DEF Above
    <3>4. t0[ix0[p]].parent = ix0[Above(p)] /\ t0[ix0[p]].name = p[Len(p)] /\ ix0[p] \in DOMAIN t0
      BY <1>1, <2>1
    <3>. QED
      BY <1>2, <2>1, <3>3, <3>4
  <2>2. CASE p \notin DOMAIN ix0
    <3>1. PICK x \in S : p = to[x]
      BY <1>2, <2>2
    <3>. QED
      BY <1>2, <3>1
  <2>. QED
    BY <2>1, <2>2
<1>7. DOMAIN t \subseteq 0 .. MaxNodes /\ \A n \in DOMAIN t : t[n] \in DciNodes
  BY <1>1, <1>2
<1>. QED
  BY <1>3, <1>4, <1>5, <1>6, <1>7 DEF TreeOf, Tree!Root

(* What copyNode makes of the tree.                                        *)
Twin(p, twin, n) == IF n = index[p] THEN Tree!New ELSE twin[n]
Copied(p, q, made, below, twin, t, paths, ix2) ==
    /\ Tree!Live(p) /\ Tree!CanMake(q)
    /\ made = Tree!MkNode(q, node[index[p]].type, node[index[p]].data)
    /\ below = Tree!Below(node, index[p]) \ {index[p]}
    /\ twin \in Tree!Injection(below, Tree!Unused \ {Tree!New})
    /\ t = [m \in DOMAIN made.node \cup Tree!Range(twin) |->
              IF m \in DOMAIN made.node THEN made.node[m]
              ELSE [node[CHOOSE x \in below : twin[x] = m] EXCEPT
                      !.parent = Twin(p, twin, node[CHOOSE x \in below : twin[x] = m].parent)]]
    /\ paths = {Tree!PathOf(t, m) : m \in Tree!Range(twin)}
    /\ ix2 = [y \in DOMAIN made.index \cup paths |->
                IF y \in paths THEN CHOOSE m \in Tree!Range(twin) : Tree!PathOf(t, m) = y
                ELSE made.index[y]]

LEMMA CopiedTree ==
    ASSUME TreeOf(node, index), NEW p, NEW q \in Tree!Paths, NEW made, NEW below, NEW twin,
           NEW t, NEW paths, NEW ix2, Copied(p, q, made, below, twin, t, paths, ix2)
    PROVE  TreeOf(t, ix2)
<1>1. /\ DOMAIN index \subseteq DciPaths
      /\ \A x \in DOMAIN index : index[x] \in DOMAIN node
      /\ \A x, y \in DOMAIN index : index[x] = index[y] => x = y
      /\ \A m \in DOMAIN node : node[m] \in DciNodes
      /\ DOMAIN node \subseteq 0 .. MaxNodes
      /\ \A x \in DOMAIN index : \A k \in 0 .. Len(x) : Up(x, k) \in DOMAIN index
      /\ \A x \in DOMAIN index \ {<<>>} :
            node[index[x]].parent = index[Above(x)] /\ node[index[x]].name = x[Len(x)]
  BY DEF TreeOf, Indexed
<1>2. /\ p \in DOMAIN index /\ p \in DciPaths /\ index[p] \in DOMAIN node
      /\ q \in DciPaths /\ q # <<>> /\ q \notin DOMAIN index /\ Tree!CanMake(q)
      /\ Tree!Unused # {}
  BY <1>1, TreePaths DEF Copied, Tree!Live, Tree!Has, Tree!CanMake
<1>3. /\ TreeOf(made.node, made.index)
      /\ made.index = Tree!Grown(index, q, Tree!New)
      /\ DOMAIN made.node = DOMAIN node \cup {Tree!New}
  <2>1. /\ node[index[p]].type \in {"dir", "file", "link"}
        /\ node[index[p]].data \in Contents \cup LinkTargets \cup {None}
    BY <1>1, <1>2 DEF DciNodes
  <2>2. PICK type \in {"dir", "file", "link"}, data \in Contents \cup LinkTargets \cup {None} :
          type = node[index[p]].type /\ data = node[index[p]].data
    BY <2>1, Zenon
  <2>3. made = Tree!MkNode(q, type, data)
    BY <2>2, Zenon DEF Copied
  <2>. QED
    BY <1>2, <2>3, MadeTree
<1>4. /\ DOMAIN made.index = DOMAIN index \cup {q} /\ made.index[q] = Tree!New
      /\ \A x \in DOMAIN index : made.index[x] = index[x]
      /\ Tree!New \in 0 .. MaxNodes /\ Tree!New \notin DOMAIN node
  <2>1. DOMAIN made.index = DOMAIN index \cup {q} /\ made.index[q] = Tree!New
    BY <1>3 DEF Tree!Grown
  <2>2. ASSUME NEW x \in DOMAIN index PROVE made.index[x] = index[x]
    BY <1>2, <1>3 DEF Tree!Grown
  <2>. QED
    BY <1>2, <2>1, <2>2, FreeNode
<1>5. PICK S : S = {x \in DOMAIN index : Under(p, x) /\ x # p}
  OBVIOUS
<1>6. PICK to : to = [x \in S |-> To(p, q, x)]
  OBVIOUS
<1>7. PICK tw : tw = [x \in S |-> twin[index[x]]]
  OBVIOUS
<1>8. below = {index[x] : x \in S}
  <2>1. Tree!Below(node, index[p]) = {index[x] : x \in {y \in DOMAIN index : Under(p, y)}}
    BY <1>2, TreeConstants, BelowIs
  <2>2. ASSUME NEW m \in below PROVE \E x \in S : m = index[x]
    <3>1. PICK x \in DOMAIN index : Under(p, x) /\ m = index[x]
      BY <2>1, Zenon DEF Copied
    <3>2. m # index[p]
      BY Zenon DEF Copied
    <3>. QED
      BY <1>5, <3>1, <3>2, Zenon
  <2>3. ASSUME NEW x \in S PROVE index[x] \in below
    <3>1. x \in DOMAIN index /\ Under(p, x) /\ x # p
      BY <1>5
    <3>2. index[x] # index[p]
      BY <1>1, <1>2, <3>1
    <3>. QED
      BY <2>1, <3>1, <3>2, Zenon DEF Copied
  <2>. QED
    BY <2>2, <2>3
<1>9. /\ \A x \in S : x \in DOMAIN index /\ x \in DciPaths /\ Under(p, x) /\ x # p /\ index[x] \in below
  BY <1>1, <1>5, <1>8, Zenon
<1>10. /\ twin \in [below -> Tree!Unused \ {Tree!New}]
       /\ \A m, n \in below : twin[m] = twin[n] => m = n
  BY Zenon DEF Copied, Tree!Injection, Tree!IsInjective
<1>11. /\ \A x \in S : tw[x] \in (0 .. MaxNodes) \ DOMAIN made.node
       /\ \A x, y \in S : tw[x] = tw[y] => x = y
  <2>1. ASSUME NEW x \in S PROVE tw[x] \in (0 .. MaxNodes) \ DOMAIN made.node
    <3>1. twin[index[x]] \in Tree!Unused \ {Tree!New}
      BY <1>9, <1>10
    <3>. QED
      BY <1>3, <1>7, <3>1 DEF Tree!Unused, Tree!Ids
  <2>2. ASSUME NEW x \in S, NEW y \in S, tw[x] = tw[y] PROVE x = y
    BY <1>1, <1>7, <1>9, <1>10, <2>2
  <2>. QED
    BY <2>1, <2>2
<1>12. Tree!Range(twin) = {tw[x] : x \in S}
  <2>1. DOMAIN twin = below
    BY <1>10
  <2>2. Tree!Range(twin) = {twin[n] : n \in below}
    BY <2>1 DEF Tree!Range
  <2>. QED
    BY <1>7, <1>8, <2>2
<1>13. PICK ix : ix = [y \in DOMAIN made.index \cup {to[x] : x \in S} |->
                         IF y \in DOMAIN made.index THEN made.index[y]
                         ELSE tw[CHOOSE x \in S : to[x] = y]]
  OBVIOUS
<1>14. ASSUME NEW x \in S
       PROVE  /\ to[x] = To(p, q, x) /\ to[x] \in DciPaths /\ to[x] # <<>>
              /\ to[x] \notin DOMAIN made.index
              /\ Above(to[x]) = To(p, q, Above(x)) /\ Under(p, Above(x)) /\ x # <<>>
              /\ to[x][Len(to[x])] = x[Len(x)]
  <2>1. /\ to[x] = To(p, q, x) /\ to[x] \in DciPaths /\ to[x] # <<>>
        /\ Len(to[x]) > Len(q) /\ \A k \in 0 .. Len(q) : Up(to[x], k) = Up(q, k)
        /\ Above(to[x]) = To(p, q, Above(x)) /\ Under(p, Above(x)) /\ x # <<>>
        /\ to[x][Len(to[x])] = x[Len(x)]
    BY <1>2, <1>6, <1>9, ToPath, ToBelow
  <2>2. Len(q) \in 0 .. Len(q) /\ Len(q) \in 0 .. Len(to[x]) /\ Up(q, Len(q)) = q /\ to[x] # q
    <3>1. Len(q) \in Nat /\ Len(to[x]) \in Nat /\ Up(q, Len(q)) = q
      BY <1>2, <2>1, PathParts
    <3>. QED
      BY <2>1, <3>1
  <2>3. Up(to[x], Len(q)) = q
    BY <2>1, <2>2
  <2>4. to[x] \notin DOMAIN index
    BY <1>1, <1>2, <2>2, <2>3
  <2>. QED
    BY <1>4, <2>1, <2>2, <2>4
<1>15. \A x, y \in S : to[x] = to[y] => x = y
  BY <1>2, <1>9, <1>14, ToOne
<1>16. /\ DOMAIN ix = DOMAIN made.index \cup {to[x] : x \in S}
       /\ \A y \in DOMAIN made.index : ix[y] = made.index[y]
       /\ \A x \in S : ix[to[x]] = tw[x]
  <2>1. ASSUME NEW x \in S PROVE ix[to[x]] = tw[x]
    <3>1. (CHOOSE z \in S : to[z] = to[x]) = x
      BY <1>15
    <3>. QED
      BY <1>13, <1>14, <3>1
  <2>. QED
    BY <1>13, <2>1
<1>17. ASSUME NEW x \in DOMAIN index, Under(p, x)
       PROVE  To(p, q, x) \in DOMAIN ix /\ ix[To(p, q, x)] = Twin(p, twin, index[x])
  <2>1. CASE x = p
    <3>1. To(p, q, x) = q
      BY <1>2, <2>1, ToItself
    <3>. QED
      BY <1>4, <1>16, <2>1, <3>1 DEF Twin
  <2>2. CASE x # p
    <3>1. x \in S /\ index[x] # index[p]
      BY <1>1, <1>2, <1>5, <1>17, <2>2
    <3>. QED
      BY <1>7, <1>14, <1>16, <3>1 DEF Twin
  <2>. QED
    BY <2>1, <2>2
<1>18. ASSUME NEW x \in S, NEW k \in 0 .. Len(to[x]) PROVE Up(to[x], k) \in DOMAIN ix
  <2>1. PICK lp, lq, lx : lp = Len(p) /\ lq = Len(q) /\ lx = Len(x)
    OBVIOUS
  <2>2. /\ lp \in Nat /\ lq \in Nat /\ lx \in Nat /\ lp <= lx
        /\ Len(to[x]) = lq + (lx - lp) /\ (\A j \in 0 .. lq : Up(to[x], j) = Up(q, j))
        /\ \A j \in lp .. lx : /\ j \in 0 .. lx /\ Under(p, Up(x, j))
                               /\ Up(to[x], (j - lp) + lq) = To(p, q, Up(x, j))
    <3>1. x \in DciPaths /\ Under(p, x) /\ p \in DciPaths /\ q \in DciPaths /\ to[x] = To(p, q, x)
      BY <1>2, <1>9, <1>14
    <3>2. lp \in Nat /\ lq \in Nat /\ lx \in Nat /\ lp <= lx
      BY <2>1, <3>1, PathParts DEF Under
    <3>3. Len(to[x]) = lq + (lx - lp) /\ (\A j \in 0 .. lq : Up(to[x], j) = Up(q, j))
      BY <2>1, <3>1, ToPath
    <3>4. \A j \in lp .. lx : /\ j \in 0 .. lx /\ Under(p, Up(x, j))
                               /\ Up(to[x], (j - lp) + lq) = To(p, q, Up(x, j))
      BY <2>1, <3>1, ToPath
    <3>. QED
      BY <3>2, <3>3, <3>4
  <2>3. CASE k <= lq
    <3>1. k \in 0 .. lq
      BY <2>2, <2>3
    <3>2. Up(q, k) \in DOMAIN made.index
      BY <1>3, <1>4, <2>1, <3>1 DEF TreeOf
    <3>. QED
      BY <1>16, <2>2, <3>1, <3>2
  <2>4. CASE ~(k <= lq)
    <3>1. PICK j : j = (k - lq) + lp
      OBVIOUS
    <3>2. j \in lp .. lx /\ (j - lp) + lq = k
      BY <2>2, <2>4, <3>1
    <3>3. Up(to[x], k) = To(p, q, Up(x, j)) /\ Under(p, Up(x, j)) /\ j \in 0 .. lx
      BY <2>2, <3>2
    <3>4. Up(x, j) \in DOMAIN index
      BY <1>1, <1>9, <2>1, <3>3, Zenon
    <3>. QED
      BY <1>17, <3>3, <3>4
  <2>. QED
    BY <2>3, <2>4
<1>19. /\ DOMAIN t = DOMAIN made.node \cup {tw[x] : x \in S}
       /\ \A n \in DOMAIN made.node : t[n] = made.node[n]
  BY <1>12, Zenon DEF Copied
<1>20. ASSUME NEW x \in S
       PROVE  /\ t[tw[x]] \in DciNodes
              /\ t[tw[x]].parent = ix[Above(to[x])] /\ t[tw[x]].name = to[x][Len(to[x])]
  <2>1. (CHOOSE n \in below : twin[n] = tw[x]) = index[x]
    <3>1. index[x] \in below /\ twin[index[x]] = tw[x]
      BY <1>7, <1>9
    <3>. QED
      BY <1>10, <3>1
  <2>2. t[tw[x]] = [node[index[x]] EXCEPT !.parent = Twin(p, twin, node[index[x]].parent)]
    <3>1. tw[x] \in Tree!Range(twin) /\ tw[x] \notin DOMAIN made.node
      BY <1>11, <1>12
    <3>2. t[tw[x]] = [node[CHOOSE n \in below : twin[n] = tw[x]] EXCEPT
                        !.parent = Twin(p, twin, node[CHOOSE n \in below : twin[n] = tw[x]].parent)]
      BY <3>1, Zenon DEF Copied
    <3>. QED
      BY <2>1, <3>2
  <2>3. /\ x \in DOMAIN index \ {<<>>} /\ index[x] \in DOMAIN node /\ node[index[x]] \in DciNodes
        /\ node[index[x]].parent = index[Above(x)] /\ node[index[x]].name = x[Len(x)]
    <3>1. x \in DOMAIN index \ {<<>>}
      BY <1>9, <1>14
    <3>. QED
      BY <1>1, <3>1
  <2>4. Above(x) \in DOMAIN index
    <3>1. Len(x) - 1 \in 0 .. Len(x)
      BY <1>9, <1>14, PathParts
    <3>. QED
      BY <1>1, <1>9, <3>1 DEF Above
  <2>5. PICK par : par = Twin(p, twin, index[Above(x)])
    OBVIOUS
  <2>6. par = ix[Above(to[x])] /\ Above(to[x]) \in DOMAIN ix
    BY <1>14, <1>17, <2>4, <2>5
  <2>7. par \in 0 .. MaxNodes
    <3>1. CASE Above(x) = p
      BY <1>4, <2>5, <3>1 DEF Twin
    <3>2. CASE Above(x) # p
      <4>1. Above(x) \in S /\ index[Above(x)] # index[p]
        BY <1>1, <1>2, <1>5, <1>14, <2>4, <3>2
      <4>. QED
        BY <1>7, <1>11, <2>5, <4>1 DEF Twin
    <3>. QED
      BY <3>1, <3>2
  <2>8. PICK r : r = [node[index[x]] EXCEPT !.parent = par]
    OBVIOUS
  <2>9. r \in DciNodes /\ r.parent = par /\ r.name = node[index[x]].name
    BY <2>3, <2>7, <2>8 DEF DciNodes
  <2>10. t[tw[x]] = r
    BY <2>2, <2>3, <2>5, <2>8
  <2>. QED
    BY <1>14, <2>3, <2>6, <2>9, <2>10
<1>21. Grafted(made.node, made.index, S, to, tw, t, ix)
  BY <1>11, <1>14, <1>16, <1>18, <1>19, <1>20 DEF Grafted
<1>22. TreeOf(t, ix)
  <2>1. PICK t0, ix0 : t0 = made.node /\ ix0 = made.index
    OBVIOUS
  <2>. QED
    BY <1>3, <1>21, <2>1, GraftedTree
<1>23. \A x \in S : Tree!PathOf(t, tw[x]) = to[x]
  <2>1. ASSUME NEW x \in S PROVE Tree!PathOf(t, tw[x]) = to[x]
    <3>1. to[x] \in DOMAIN ix /\ ix[to[x]] = tw[x]
      BY <1>16
    <3>2. Tree!PathOf(t, ix[to[x]]) = to[x]
      BY <1>22, <3>1, TreeConstants, WayIs
    <3>. QED
      BY <3>1, <3>2
  <2>. QED
    BY <2>1
<1>24. paths = {to[x] : x \in S}
  <2>1. paths = {Tree!PathOf(t, m) : m \in Tree!Range(twin)}
    BY Zenon DEF Copied
  <2>2. ASSUME NEW y \in paths PROVE \E x \in S : y = to[x]
    <3>1. PICK m \in Tree!Range(twin) : y = Tree!PathOf(t, m)
      BY <2>1
    <3>2. PICK x \in S : m = tw[x]
      BY <1>12
    <3>. QED
      BY <1>23, <3>1, <3>2
  <2>3. ASSUME NEW x \in S PROVE to[x] \in paths
    <3>1. tw[x] \in Tree!Range(twin) /\ Tree!PathOf(t, tw[x]) = to[x]
      BY <1>12, <1>23
    <3>. QED
      BY <2>1, <3>1
  <2>. QED
    BY <2>2, <2>3, Zenon
<1>25. /\ DOMAIN ix2 = DOMAIN ix /\ ix2 = [y \in DOMAIN ix |-> ix2[y]]
  <2>1. DOMAIN ix = DOMAIN made.index \cup paths
    BY <1>16, <1>24
  <2>2. PICK F, D : D = DOMAIN ix /\ F = [y \in D |->
                      IF y \in paths THEN CHOOSE m \in Tree!Range(twin) : Tree!PathOf(t, m) = y
                      ELSE made.index[y]]
    BY Zenon
  <2>3. ix2 = F
    BY <2>1, <2>2, Zenon DEF Copied
  <2>4. DOMAIN F = D /\ F = [y \in D |-> F[y]]
    BY <2>2
  <2>. QED
    BY <2>2, <2>3, <2>4
<1>26. ASSUME NEW y \in DOMAIN ix PROVE ix2[y] = ix[y]
  <2>1. CASE y \in paths
    <3>1. PICK x \in S : y = to[x]
      BY <1>24, <2>1
    <3>2. (CHOOSE m \in Tree!Range(twin) : Tree!PathOf(t, m) = y) = tw[x]
      <4>1. tw[x] \in Tree!Range(twin) /\ Tree!PathOf(t, tw[x]) = y
        BY <1>12, <1>23, <3>1
      <4>2. ASSUME NEW m \in Tree!Range(twin), Tree!PathOf(t, m) = y PROVE m = tw[x]
        <5>1. PICK z \in S : m = tw[z]
          BY <1>12, Zenon
        <5>. QED
          BY <1>15, <1>23, <3>1, <4>2, <5>1
      <4>. QED
        BY <4>1, <4>2
    <3>3. ix2[y] = CHOOSE m \in Tree!Range(twin) : Tree!PathOf(t, m) = y
      BY <2>1, Zenon DEF Copied
    <3>. QED
      BY <1>16, <3>1, <3>2, <3>3
  <2>2. CASE y \notin paths
    <3>1. y \in DOMAIN made.index
      BY <1>16, <1>24, <2>2, Zenon
    <3>2. ix2[y] = made.index[y]
      BY <2>2, <3>1, Zenon DEF Copied
    <3>. QED
      BY <1>16, <3>1, <3>2
  <2>. QED
    BY <2>1, <2>2
<1>27. ix2 = ix
  <2>1. ix = [y \in DOMAIN ix |-> ix[y]]
    BY <1>13
  <2>2. PICK D : D = DOMAIN ix
    OBVIOUS
  <2>3. /\ ix = [y \in D |-> ix[y]] /\ ix2 = [y \in D |-> ix2[y]] /\ \A y \in D : ix2[y] = ix[y]
    BY <1>25, <1>26, <2>1, <2>2
  <2>. QED
    BY <2>3
<1>. QED
  BY <1>22, <1>27

LEMMA CopyStep ==
    ASSUME TreeInv, NEW p \in Tree!Paths, NEW q \in Tree!Paths, Tree!Copy(p, q)
    PROVE  TreeInv'
<1>. DEFINE made  == Tree!MkNode(q, node[index[p]].type, node[index[p]].data)
            below == Tree!Below(node, index[p]) \ {index[p]}
            twins == Tree!Injection(below, Tree!Unused \ {Tree!New})
            twin  == CHOOSE f \in twins : TRUE
            t     == [m \in DOMAIN made.node \cup Tree!Range(twin) |->
                        IF m \in DOMAIN made.node THEN made.node[m]
                        ELSE [node[CHOOSE x \in below : twin[x] = m] EXCEPT
                                !.parent = Twin(p, twin, node[CHOOSE x \in below : twin[x] = m].parent)]]
            paths == {Tree!PathOf(t, m) : m \in Tree!Range(twin)}
            ix2   == [y \in DOMAIN made.index \cup paths |->
                        IF y \in paths THEN CHOOSE m \in Tree!Range(twin) : Tree!PathOf(t, m) = y
                        ELSE made.index[y]]
<1>1. /\ Tree!Live(p) /\ Tree!CanMake(q) /\ twins # {}
      /\ Tree!Install([node |-> t, index |-> ix2])
  BY Zenon DEF Tree!Copy, Twin
<1>2. twin \in twins
  BY <1>1, Zenon
<1>3. PICK cm : cm = made
  OBVIOUS
<1>4. PICK cb : cb = below
  OBVIOUS
<1>5. PICK cw : cw = twin
  OBVIOUS
<1>6. PICK ct : ct = t
  <2>. HIDE DEF t
  <2>. QED
    OBVIOUS
<1>7. PICK cp : cp = paths
  <2>. HIDE DEF paths
  <2>. QED
    OBVIOUS
<1>8. PICK cx : cx = ix2
  <2>. HIDE DEF ix2
  <2>. QED
    OBVIOUS
<1>9. /\ cw \in Tree!Injection(cb, Tree!Unused \ {Tree!New})
  BY <1>2, <1>4, <1>5
<1>10. ct = [m \in DOMAIN cm.node \cup Tree!Range(cw) |->
              IF m \in DOMAIN cm.node THEN cm.node[m]
              ELSE [node[CHOOSE x \in cb : cw[x] = m] EXCEPT
                      !.parent = Twin(p, cw, node[CHOOSE x \in cb : cw[x] = m].parent)]]
  <2>. HIDE DEF made, below, twin
  <2>. QED
    BY <1>3, <1>4, <1>5, <1>6
<1>11. cp = {Tree!PathOf(ct, m) : m \in Tree!Range(cw)}
  <2>. HIDE DEF t, twin
  <2>. QED
    BY <1>5, <1>6, <1>7
<1>12. cx = [y \in DOMAIN cm.index \cup cp |->
               IF y \in cp THEN CHOOSE m \in Tree!Range(cw) : Tree!PathOf(ct, m) = y
               ELSE cm.index[y]]
  <2>. HIDE DEF made, twin, t, paths
  <2>. QED
    BY <1>3, <1>5, <1>6, <1>7, <1>8
<1>13. Copied(p, q, cm, cb, cw, ct, cp, cx)
  BY <1>1, <1>3, <1>4, <1>9, <1>10, <1>11, <1>12, Zenon DEF Copied
<1>14. wild = 0 /\ fatal = "" => TreeOf(ct, cx)
  BY <1>13, CopiedTree DEF TreeInv
<1>15. Tree!Install([node |-> ct, index |-> cx])
  <2>. HIDE DEF t, ix2
  <2>. QED
    BY <1>1, <1>6, <1>8
<1>16. PICK s : s = [node |-> ct, index |-> cx]
  OBVIOUS
<1>17. s.node = ct /\ s.index = cx /\ Tree!Install(s)
  BY <1>15, <1>16
<1>. QED
  BY <1>14, <1>17, InstallStep, Zenon

(* Every step.                                                             *)
LEMMA TreeStep ==
    TreeInv /\ [Tree!Next]_treeVars => TreeInv'
<1>. SUFFICES ASSUME TreeInv, [Tree!Next]_treeVars PROVE TreeInv'
  OBVIOUS
<1>1. CASE UNCHANGED treeVars
  BY <1>1 DEF treeVars, TreeInv
<1>2. ASSUME NEW p \in Tree!Paths, Tree!Touch(p) PROVE TreeInv'
  BY <1>2, TreeStops DEF Tree!Touch
<1>3. ASSUME NEW p \in Tree!Paths, NEW data \in Contents, Tree!WriteNew(p, data) PROVE TreeInv'
  BY <1>3, MakeStep
<1>4. ASSUME NEW p \in Tree!Paths, NEW source \in LinkTargets, Tree!Link(source, p) PROVE TreeInv'
  BY <1>4, MakeStep
<1>5. ASSUME NEW p \in Tree!Paths, Tree!Mkdir(p) PROVE TreeInv'
  BY <1>5, MakeStep
<1>. QED
  BY <1>1, <1>2, <1>3, <1>4, <1>5, WriteOverStep, RemoveStep, CopyStep, RenameStep
     DEF Tree!Next

LEMMA TreeStarts == Tree!Init => TreeInv
<1>. SUFFICES ASSUME Tree!Init PROVE TreeInv
  OBVIOUS
<1>1. PICK r : r = Tree!Node("", None, "dir", None)
  OBVIOUS
<1>2. r \in DciNodes /\ r.parent = None
  BY <1>1 DEF DciNodes, Tree!Node
<1>3. /\ DOMAIN node = {0} /\ node[0] = r /\ DOMAIN index = {<<>>} /\ index[<<>>] = 0
      /\ fatal = "" /\ wild = 0
  BY <1>1 DEF Tree!Init, Tree!Root
<1>4. 0 \in 0 .. MaxNodes /\ <<>> \in DciPaths
  BY TreeConstants DEF DciPaths
<1>5. Indexed(node, index)
  BY <1>3, <1>4 DEF Indexed
<1>6. \A k \in 0 .. Len(<<>>) : Up(<<>>, k) = <<>>
  <2>1. Len(<<>>) = 0 /\ \A k \in 0 .. 0 : k = 0
    OBVIOUS
  <2>2. Up(<<>>, Len(<<>>)) = <<>>
    BY <1>4, PathParts
  <2>. QED
    BY <2>1, <2>2
<1>. QED
  BY <1>2, <1>3, <1>4, <1>5, <1>6 DEF TreeInv, TreeOf, Tree!Root

LEMMA TreeSays == TreeInv => IndexIsTree
<1>. SUFFICES ASSUME TreeInv PROVE IndexIsTree
  OBVIOUS
<1>1. SUFFICES ASSUME wild = 0, fatal = ""
               PROVE  /\ \A n \in DOMAIN node : /\ Tree!Live(Tree!PathOf(node, n))
                                                /\ index[Tree!PathOf(node, n)] = n
                      /\ Cardinality(DOMAIN index) = Cardinality(DOMAIN node)
  <2>1. Tree!Cardinality(DOMAIN index) = Cardinality(DOMAIN index)
        /\ Tree!Cardinality(DOMAIN node) = Cardinality(DOMAIN node)
    BY DEF Tree!Cardinality, Cardinality
  <2>. QED
    BY <2>1 DEF IndexIsTree, Of, Tree!IndexIsTree
<1>2. TreeOf(node, index)
  BY <1>1 DEF TreeInv
<1>3. /\ \A x \in DOMAIN index : index[x] \in DOMAIN node
      /\ \A n \in DOMAIN node : \E x \in DOMAIN index : index[x] = n
      /\ \A x, y \in DOMAIN index : index[x] = index[y] => x = y
      /\ DOMAIN node \subseteq 0 .. MaxNodes
  BY <1>2 DEF TreeOf, Indexed
<1>4. ASSUME NEW n \in DOMAIN node
      PROVE  Tree!Live(Tree!PathOf(node, n)) /\ index[Tree!PathOf(node, n)] = n
  <2>1. PICK x \in DOMAIN index : index[x] = n
    BY <1>3
  <2>2. Tree!PathOf(node, n) = x
    BY <1>2, <2>1, TreeConstants, WayIs
  <2>. QED
    BY <2>1, <2>2 DEF Tree!Live, Tree!Has
<1>5. Cardinality(DOMAIN index) = Cardinality(DOMAIN node)
  <2>1. IsFiniteSet(DOMAIN node)
    <3>1. IsFiniteSet(0 .. MaxNodes)
      BY TreeConstants, FS_Interval
    <3>. QED
      BY <1>3, <3>1, FS_Subset
  <2>2. PICK f : f = [n \in DOMAIN node |-> Tree!PathOf(node, n)]
    OBVIOUS
  <2>3. \A x \in DOMAIN index : Tree!PathOf(node, index[x]) = x
    BY <1>2, TreeConstants, WayIs
  <2>4. f \in Bijection(DOMAIN node, DOMAIN index)
    <3>1. \A n \in DOMAIN node : f[n] \in DOMAIN index /\ index[f[n]] = n
      BY <1>4, <2>2 DEF Tree!Live, Tree!Has
    <3>2. \A x \in DOMAIN index : index[x] \in DOMAIN node /\ f[index[x]] = x
      BY <1>3, <2>2, <2>3
    <3>3. f \in [DOMAIN node -> DOMAIN index]
      BY <2>2, <3>1
    <3>4. \A m, n \in DOMAIN node : f[m] = f[n] => m = n
      BY <3>1
    <3>5. \A x \in DOMAIN index : \E n \in DOMAIN node : f[n] = x
      BY <3>2
    <3>. QED
      BY <3>3, <3>4, <3>5 DEF Bijection, Injection, Surjection, IsInjective
  <2>5. ExistsBijection(DOMAIN node, DOMAIN index)
    BY <2>4 DEF ExistsBijection
  <2>. QED
    BY <2>1, <2>5, FS_Bijection
<1>. QED
  BY <1>4, <1>5

(* The index is the tree (pathToNode, ddcifile.cpp): for any names, any    *)
(* depth and any number of nodes, every node is found at the path its      *)
(* parents give it and nowhere else, as long as no call was one of those   *)
(* that do not look after the whole subtree.                               *)
THEOREM IndexFollowsTree == Tree!Spec => []IndexIsTree
<1>1. TreeInv /\ [Tree!Next]_treeVars => TreeInv'
  BY TreeStep
<1>2. [Tree!Next]_(Tree!vars) <=> [Tree!Next]_treeVars
  BY DEF Tree!vars, treeVars
<1>. QED
  BY <1>1, <1>2, TreeStarts, TreeSays, PTL DEF Tree!Spec
=============================================================================
