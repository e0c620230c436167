---------------------------- MODULE QueueTheorems ----------------------------
(***************************************************************************)
(* Queues, as the proofs about events and messages use them: what is in a  *)
(* queue, which element of a kind comes first or last, and which two       *)
(* follow each other, when one is appended or taken from the front.        *)
(***************************************************************************)
EXTENDS SequenceTheorems, TLAPS

(* Queues.  What matters of a queue is what is in it, and which element of *)
(* a kind K comes last.                                                    *)
LastAmong(s, K, x) ==
    /\ x \in K
    /\ \E i \in DOMAIN s : s[i] = x /\ \A j \in DOMAIN s : j > i => s[j] \notin K

LEMMA LastIsThere == \A s, K, x : LastAmong(s, K, x) => x \in Range(s)
BY DEF LastAmong, Range

(* What is appended is the last of its kind.                               *)
LEMMA AppendedIsLast ==
    ASSUME NEW T, NEW s \in Seq(T), NEW e \in T
    PROVE  /\ Append(s, e) \in Seq(T)
           /\ Range(Append(s, e)) = Range(s) \cup {e}
           /\ \A K, x : LastAmong(Append(s, e), K, x)
                            <=> IF e \in K THEN x = e ELSE LastAmong(s, K, x)
<1>. DEFINE n == Len(s)
            t == Append(s, e)
<1>1. /\ n \in Nat /\ DOMAIN s = 1..n
      /\ t \in Seq(T) /\ DOMAIN t = 1..(n + 1)
      /\ \A i \in 1..n : t[i] = s[i]
      /\ t[n + 1] = e
  BY AppendProperties
<1>2. Range(t) = Range(s) \cup {e}
  BY <1>1 DEF Range
<1>3. ASSUME NEW K, NEW x
      PROVE  LastAmong(t, K, x) <=> IF e \in K THEN x = e ELSE LastAmong(s, K, x)
  <2>. HIDE DEF n, t
  <2>1. CASE e \in K
    BY <1>1, <2>1 DEF LastAmong
  <2>2. CASE e \notin K
    BY <1>1, <2>2 DEF LastAmong
  <2>. QED
    BY <2>1, <2>2
<1>. QED
  BY <1>1, <1>2, <1>3

(* What is taken from the front was the last of its kind if none of them   *)
(* is left.                                                                *)
LEMMA TakenIsFirst ==
    ASSUME NEW T, NEW s \in Seq(T), s # <<>>
    PROVE  /\ Tail(s) \in Seq(T) /\ Head(s) \in T
           /\ Range(s) = Range(Tail(s)) \cup {Head(s)}
           /\ \A K, x : LastAmong(Tail(s), K, x) => LastAmong(s, K, x)
           /\ \A K : Range(Tail(s)) \cap K = {} /\ Head(s) \in K
                         => LastAmong(s, K, Head(s))
<1>. DEFINE n == Len(s)
            t == Tail(s)
<1>1. /\ n \in Nat \ {0} /\ DOMAIN s = 1..n
      /\ t \in Seq(T) /\ DOMAIN t = 1..(n - 1) /\ Head(s) \in T
      /\ \A i \in 1..(n - 1) : t[i] = s[i + 1]
      /\ s[1] = Head(s)
  BY HeadTailProperties, EmptySeq
<1>. HIDE DEF n, t
<1>2. /\ \A i \in 1..n : i = 1 \/ (i - 1 \in 1..(n - 1) /\ s[i] = t[i - 1])
      /\ \A i \in 1..(n - 1) : i + 1 \in 1..n /\ i + 1 # 1
  BY <1>1
<1>3. Range(s) = Range(t) \cup {Head(s)}
  <2>1. \A i \in DOMAIN s : s[i] = Head(s) \/ s[i] \in Range(t)
    BY <1>1, <1>2 DEF Range
  <2>2. \A i \in DOMAIN t : t[i] \in Range(s)
    BY <1>1, <1>2 DEF Range
  <2>3. Head(s) \in Range(s)
    BY <1>1 DEF Range
  <2>. QED
    BY <2>1, <2>2, <2>3 DEF Range
<1>4. ASSUME NEW K, NEW x, LastAmong(t, K, x) PROVE LastAmong(s, K, x)
  <2>1. PICK i \in 1..(n - 1) :
           t[i] = x /\ \A j \in 1..(n - 1) : j > i => t[j] \notin K
    BY <1>1, <1>4 DEF LastAmong
  <2>2. \A j \in 1..n : j > i + 1 => s[j] \notin K
    BY <1>1, <1>2, <2>1
  <2>. QED
    BY <1>1, <1>2, <1>4, <2>1, <2>2 DEF LastAmong
<1>5. ASSUME NEW K, Range(t) \cap K = {}, Head(s) \in K PROVE LastAmong(s, K, Head(s))
  <2>1. ASSUME NEW j \in 1..n, j > 1 PROVE s[j] \in Range(t)
    <3>1. j - 1 \in DOMAIN t /\ s[j] = t[j - 1]
      BY <1>1, <1>2, <2>1
    <3>. QED
      BY <3>1 DEF Range
  <2>2. 1 \in DOMAIN s /\ s[1] = Head(s)
    BY <1>1
  <2>. QED
    BY <1>1, <1>5, <2>1, <2>2 DEF LastAmong
<1>. QED
  BY <1>1, <1>3, <1>4, <1>5 DEF t

(* The element of a kind K that comes first, and two that follow each      *)
(* other.                                                                  *)
FirstAmong(s, K, x) ==
    /\ x \in K
    /\ \E i \in DOMAIN s : s[i] = x /\ \A j \in DOMAIN s : j < i => s[j] \notin K
FollowsIn(s, K, x, y) ==
    /\ x \in K /\ y \in K
    /\ \E i, k \in DOMAIN s :
          /\ i < k /\ s[i] = x /\ s[k] = y
          /\ \A j \in DOMAIN s : i < j /\ j < k => s[j] \notin K

LEMMA FirstIsThere ==
    /\ \A s, K, x : FirstAmong(s, K, x) => x \in Range(s)
    /\ \A s, K, x, y : FollowsIn(s, K, x, y) => x \in Range(s) /\ y \in Range(s)
BY DEF FirstAmong, FollowsIn, Range

(* At most one element is of kind K.                                       *)
OneOf(s, K) == \A i, j \in DOMAIN s : s[i] \in K /\ s[j] \in K => i = j

LEMMA OneOfQueue ==
    ASSUME NEW T, NEW s \in Seq(T), NEW K
    PROVE  /\ \A e \in T : OneOf(s, K) /\ (e \in K => Range(s) \cap K = {})
                               => OneOf(Append(s, e), K)
           /\ s # <<>> /\ OneOf(s, K) =>
                 OneOf(Tail(s), K) /\ (Head(s) \in K => Range(Tail(s)) \cap K = {})
<1>1. ASSUME NEW e \in T, OneOf(s, K), e \in K => Range(s) \cap K = {}
      PROVE  OneOf(Append(s, e), K)
  <2>1. /\ Len(s) \in Nat /\ DOMAIN s = 1..Len(s)
        /\ DOMAIN Append(s, e) = 1..(Len(s) + 1)
        /\ \A i \in 1..Len(s) : Append(s, e)[i] = s[i]
        /\ Append(s, e)[Len(s) + 1] = e
    BY AppendProperties
  <2>2. e \in K => \A i \in DOMAIN s : s[i] \notin K
    BY <1>1 DEF Range
  <2>. QED
    BY <1>1, <2>1, <2>2 DEF OneOf
<1>2. ASSUME s # <<>>, OneOf(s, K)
      PROVE  OneOf(Tail(s), K) /\ (Head(s) \in K => Range(Tail(s)) \cap K = {})
  <2>1. /\ Len(s) \in Nat \ {0} /\ DOMAIN s = 1..Len(s)
        /\ DOMAIN Tail(s) = 1..(Len(s) - 1)
        /\ \A i \in 1..(Len(s) - 1) : Tail(s)[i] = s[i + 1]
        /\ s[1] = Head(s)
    BY <1>2, HeadTailProperties, EmptySeq
  <2>2. \A i \in DOMAIN Tail(s) : i + 1 \in DOMAIN s /\ i + 1 # 1 /\ Tail(s)[i] = s[i + 1]
    BY <2>1
  <2>3. OneOf(Tail(s), K)
    BY <1>2, <2>1, <2>2 DEF OneOf
  <2>4. Head(s) \in K => \A i \in DOMAIN Tail(s) : Tail(s)[i] \notin K
    BY <1>2, <2>1, <2>2 DEF OneOf
  <2>. QED
    BY <2>3, <2>4 DEF Range
<1>. QED
  BY <1>1, <1>2

(* What is appended follows what was the last of its kind.                 *)
LEMMA AppendedFollows ==
    ASSUME NEW T, NEW s \in Seq(T), NEW e \in T, NEW K
    PROVE  /\ \A x : FirstAmong(Append(s, e), K, x) =>
                 FirstAmong(s, K, x) \/ (Range(s) \cap K = {} /\ x = e)
           /\ \A x, y : FollowsIn(Append(s, e), K, x, y) =>
                 FollowsIn(s, K, x, y) \/ (y = e /\ LastAmong(s, K, x))
<1>. DEFINE n == Len(s)
            t == Append(s, e)
<1>1. /\ n \in Nat /\ DOMAIN s = 1..n
      /\ DOMAIN t = 1..(n + 1)
      /\ \A i \in 1..n : t[i] = s[i]
      /\ t[n + 1] = e
  BY AppendProperties
<1>. HIDE DEF n, t
<1>2. ASSUME NEW x, FirstAmong(t, K, x)
      PROVE  FirstAmong(s, K, x) \/ (Range(s) \cap K = {} /\ x = e)
  <2>1. PICK i \in 1..(n + 1) : t[i] = x /\ \A j \in 1..(n + 1) : j < i => t[j] \notin K
    BY <1>1, <1>2 DEF FirstAmong
  <2>2. CASE i = n + 1
    BY <1>1, <2>1, <2>2 DEF Range
  <2>3. CASE i \in 1..n
    BY <1>1, <1>2, <2>1, <2>3 DEF FirstAmong
  <2>. QED
    BY <1>1, <2>2, <2>3
<1>3. ASSUME NEW x, NEW y, FollowsIn(t, K, x, y)
      PROVE  FollowsIn(s, K, x, y) \/ (y = e /\ LastAmong(s, K, x))
  <2>1. PICK i \in 1..(n + 1), k \in 1..(n + 1) :
           /\ i < k /\ t[i] = x /\ t[k] = y
           /\ \A j \in 1..(n + 1) : i < j /\ j < k => t[j] \notin K
    BY <1>1, <1>3 DEF FollowsIn
  <2>2. i \in 1..n
    BY <1>1, <2>1
  <2>3. CASE k = n + 1
    BY <1>1, <1>3, <2>1, <2>2, <2>3 DEF LastAmong, FollowsIn
  <2>4. CASE k \in 1..n
    BY <1>1, <1>3, <2>1, <2>2, <2>4 DEF FollowsIn
  <2>. QED
    BY <1>1, <2>3, <2>4
<1>. QED
  BY <1>2, <1>3 DEF t

(* What is taken from the front comes before what is then the first.       *)
LEMMA TakenComesBefore ==
    ASSUME NEW T, NEW s \in Seq(T), s # <<>>, NEW K
    PROVE  /\ Head(s) \in K => FirstAmong(s, K, Head(s))
           /\ \A x : FirstAmong(Tail(s), K, x) =>
                 IF Head(s) \in K THEN FollowsIn(s, K, Head(s), x) ELSE FirstAmong(s, K, x)
           /\ \A x, y : FollowsIn(Tail(s), K, x, y) => FollowsIn(s, K, x, y)
<1>. DEFINE n == Len(s)
            t == Tail(s)
<1>1. /\ n \in Nat \ {0} /\ DOMAIN s = 1..n
      /\ DOMAIN t = 1..(n - 1)
      /\ \A i \in 1..(n - 1) : t[i] = s[i + 1]
      /\ s[1] = Head(s)
  BY HeadTailProperties, EmptySeq
<1>. HIDE DEF n, t
<1>2. /\ \A i \in 1..n : i = 1 \/ (i - 1 \in 1..(n - 1) /\ s[i] = t[i - 1])
      /\ \A i \in 1..(n - 1) : i + 1 \in 1..n /\ i + 1 # 1
  BY <1>1
<1>3. Head(s) \in K => FirstAmong(s, K, Head(s))
  BY <1>1 DEF FirstAmong
<1>4. ASSUME NEW x, FirstAmong(t, K, x)
      PROVE  IF Head(s) \in K THEN FollowsIn(s, K, Head(s), x) ELSE FirstAmong(s, K, x)
  <2>1. PICK i \in 1..(n - 1) : t[i] = x /\ \A j \in 1..(n - 1) : j < i => t[j] \notin K
    BY <1>1, <1>4 DEF FirstAmong
  <2>2. /\ i + 1 \in 1..n /\ 1 < i + 1 /\ s[i + 1] = x /\ x \in K
        /\ \A j \in 1..n : 1 < j /\ j < i + 1 => s[j] \notin K
    BY <1>1, <1>2, <1>4, <2>1 DEF FirstAmong
  <2>3. CASE Head(s) \in K
    BY <1>1, <2>2, <2>3 DEF FollowsIn
  <2>4. CASE Head(s) \notin K
    <3>1. \A j \in 1..n : j < i + 1 => s[j] \notin K
      BY <1>1, <2>2, <2>4
    <3>. QED
      BY <1>1, <2>2, <2>4, <3>1 DEF FirstAmong
  <2>. QED
    BY <2>3, <2>4
<1>5. ASSUME NEW x, NEW y, FollowsIn(t, K, x, y) PROVE FollowsIn(s, K, x, y)
  <2>1. PICK i \in 1..(n - 1), k \in 1..(n - 1) :
           /\ i < k /\ t[i] = x /\ t[k] = y
           /\ \A j \in 1..(n - 1) : i < j /\ j < k => t[j] \notin K
    BY <1>1, <1>5 DEF FollowsIn
  <2>2. \A j \in 1..n : i + 1 < j /\ j < k + 1 => s[j] \notin K
    BY <1>1, <1>2, <2>1
  <2>3. /\ i + 1 \in DOMAIN s /\ k + 1 \in DOMAIN s /\ i + 1 < k + 1
        /\ s[i + 1] = x /\ s[k + 1] = y
    BY <1>1, <1>2, <2>1
  <2>4. x \in K /\ y \in K
    BY <1>5 DEF FollowsIn
  <2>5. \A j \in DOMAIN s : i + 1 < j /\ j < k + 1 => s[j] \notin K
    BY <1>1, <2>2
  <2>. QED
    BY <2>3, <2>4, <2>5 DEF FollowsIn
<1>. QED
  BY <1>3, <1>4, <1>5 DEF t

(* A queue starts empty.                                                   *)
LEMMA EmptyQueue ==
    /\ \A T : <<>> \in Seq(T)
    /\ Range(<<>>) = {}
    /\ \A K, x, y : /\ ~LastAmong(<<>>, K, x) /\ ~FirstAmong(<<>>, K, x)
                    /\ ~FollowsIn(<<>>, K, x, y) /\ OneOf(<<>>, K)
BY DEF Range, LastAmong, FirstAmong, FollowsIn, OneOf
=============================================================================
