------------------------- MODULE UserDocuments_proofs -------------------------
(***************************************************************************)
(* What the writes of UserDocuments preserve. The provers have no          *)
(* induction of their own: Overlay, a recursive function over a queue, is  *)
(* reasoned about through the least number of a set of numbers.            *)
(***************************************************************************)
EXTENDS UserDocuments, SequenceTheorems, WellFoundedInduction, TLAPS

----------------------------------------------------------------------------
(* Induction over a queue.                                                 *)

\* A set of natural numbers that is not empty has a least element.
LEMMA LeastNat ==
  ASSUME NEW T, T \subseteq Nat, T # {}
  PROVE  \E x \in T : \A y \in T : x <= y
<1>1. IsWellFoundedOn(OpToRel(<, Nat), Nat)
  BY NatLessThanWellFounded
<1>2. PICK x \in T : \A y \in T : ~(<<y, x>> \in OpToRel(<, Nat))
  BY <1>1, WFMin
<1>3. ASSUME NEW y \in T PROVE x <= y
  <2>1. ~(<<y, x>> \in {ss \in Nat \X Nat : ss[1] < ss[2]})
    BY <1>2 DEF OpToRel
  <2>2. ~(y < x)
    BY <2>1
  <2> QED BY <2>2
<1> QED BY <1>3

\* A set that has 0 and with every number below n its successor has 0..n.
LEMMA UpTo ==
  ASSUME NEW n \in Nat, NEW G, 0 \in G,
         \A m \in 0..n : m < n /\ m \in G => m + 1 \in G
  PROVE  0..n \subseteq G
<1> DEFINE T == {m \in 0..n : m \notin G}
<1> SUFFICES ASSUME T # {} PROVE FALSE
  OBVIOUS
<1>0. T \subseteq Nat
  OBVIOUS
<1>1. PICK x \in T : \A y \in T : x <= y
  <2> HIDE DEF T
  <2> QED BY <1>0, LeastNat
<1>2. x # 0 /\ x - 1 \in 0..n /\ x - 1 < n
  OBVIOUS
<1>3. x - 1 \in G
  BY <1>1, <1>2
<1>4. (x - 1) + 1 \in G
  BY <1>2, <1>3
<1> QED BY <1>4

\* There are the collections after each write of a queue, all of them in S.
Runs(writes, collection, S) ==
  \E f \in [0..Len(writes) -> S] :
    /\ f[0] = collection
    /\ \A i \in 1..Len(writes) : f[i] = Apply(writes[i], f[i-1])
    /\ Overlay(writes, collection) = f[Len(writes)]

\* S may be any set that the writes stay in.
LEMMA OverlayRuns ==
  ASSUME NEW W, NEW S, NEW writes \in Seq(W), NEW collection \in S,
         \A w \in W, x \in S : Apply(w, x) \in S
  PROVE  Runs(writes, collection, S)
<1> DEFINE n == Len(writes)
           Step(f) == [i \in 0..n |-> IF i = 0 THEN collection ELSE Apply(writes[i], f[i-1])]
           after == CHOOSE f : f = Step(f)
           G == {m \in 0..n : \E f \in [0..m -> S] :
                   f[0] = collection /\ \A i \in 1..m : f[i] = Apply(writes[i], f[i-1])}
<1>0. n \in Nat /\ \A i \in 1..n : writes[i] \in W
  BY LenProperties, ElementOfSeq
<1> HIDE DEF n
<1>1. 0 \in G
  <2> DEFINE f == [i \in 0..0 |-> collection]
  <2>1. f \in [0..0 -> S] /\ f[0] = collection
    OBVIOUS
  <2>2. \A i \in 1..0 : f[i] = Apply(writes[i], f[i-1])
    OBVIOUS
  <2>3. \E h \in [0..0 -> S] :
          h[0] = collection /\ \A i \in 1..0 : h[i] = Apply(writes[i], h[i-1])
    BY <2>1, <2>2
  <2> QED BY <1>0, <2>3
<1>2. ASSUME NEW m \in 0..n, m < n, m \in G PROVE m + 1 \in G
  <2>1. PICK f \in [0..m -> S] :
          f[0] = collection /\ \A i \in 1..m : f[i] = Apply(writes[i], f[i-1])
    BY <1>2
  <2>2. m + 1 \in 1..n /\ m \in 0..m
    BY <1>0, <1>2
  <2>3. Apply(writes[m+1], f[m]) \in S
    BY <1>0, <2>1, <2>2
  <2> DEFINE h == [i \in 0..(m+1) |-> IF i = m + 1 THEN Apply(writes[m+1], f[m]) ELSE f[i]]
  <2>4. h \in [0..(m+1) -> S]
    BY <2>1, <2>3
  <2>5. h[0] = collection
    BY <2>1, <2>2
  <2>6. ASSUME NEW i \in 1..(m+1) PROVE h[i] = Apply(writes[i], h[i-1])
    <3>1. CASE i = m + 1
      BY <3>1, <2>2
    <3>2. CASE i # m + 1
      BY <3>2, <2>1, <2>2
    <3> QED BY <3>1, <3>2
  <2> HIDE DEF h
  <2>7. \E g \in [0..(m+1) -> S] :
          g[0] = collection /\ \A i \in 1..(m+1) : g[i] = Apply(writes[i], g[i-1])
    BY <2>4, <2>5, <2>6
  <2> QED BY <2>2, <2>7
<1>3. n \in G
  <2> HIDE DEF G
  <2>1. 0..n \subseteq G
    BY <1>0, <1>1, <1>2, UpTo
  <2> QED BY <1>0, <2>1
<1>4. PICK f \in [0..n -> S] :
        f[0] = collection /\ \A i \in 1..n : f[i] = Apply(writes[i], f[i-1])
  BY <1>3
<1>5. f = Step(f)
  <2>1. ASSUME NEW i \in 0..n PROVE f[i] = Step(f)[i]
    <3>1. CASE i = 0
      BY <3>1, <1>4
    <3>2. CASE i # 0
      BY <3>2, <1>4, <1>0
    <3> QED BY <3>1, <3>2
  <2> QED BY <2>1
<1>6. after = Step(after)
  BY <1>5
<1> HIDE DEF after
<1> DEFINE H == {m \in 0..n : after[m] \in S}
<1>7. after[0] = collection /\ \A i \in 1..n : after[i] = Apply(writes[i], after[i-1])
  BY <1>0, <1>6
<1>8. 0 \in H
  BY <1>0, <1>7
<1>9. ASSUME NEW m \in 0..n, m < n, m \in H PROVE m + 1 \in H
  <2>1. m + 1 \in 1..n /\ (m + 1) - 1 = m
    BY <1>0, <1>9
  <2>2. after[m+1] = Apply(writes[m+1], after[m])
    BY <1>7, <2>1
  <2> QED BY <1>0, <2>1, <2>2, <1>9
<1>10. \A m \in 0..n : after[m] \in S
  <2>1. 0..n \subseteq H
    <3> HIDE DEF H
    <3> QED BY <1>0, <1>8, <1>9, UpTo
  <2> QED BY <2>1
<1>11. after \in [0..n -> S]
  BY <1>6, <1>10
<1>12. Overlay(writes, collection) = after[n]
  BY DEF Overlay, after, n
<1> QED BY <1>7, <1>11, <1>12 DEF n, Runs

\* A set of collections that every write of a queue stays in is not left by the queue.
LEMMA OverlayStaysIn ==
  ASSUME NEW W, NEW S, NEW writes \in Seq(W), NEW collection \in S,
         \A w \in W, x \in S : Apply(w, x) \in S
  PROVE  Overlay(writes, collection) \in S
<1>1. Runs(writes, collection, S)
  BY OverlayRuns
<1>2. Len(writes) \in 0..Len(writes)
  BY LenProperties
<1> QED BY <1>1, <1>2 DEF Runs

----------------------------------------------------------------------------
(* Arrays.                                                                 *)

\* What is left of a sequence without its k-th element.
LEMMA RemoveAtProperties ==
  ASSUME NEW S, NEW s \in Seq(S), NEW k \in 1..Len(s)
  PROVE  /\ RemoveAt(s, k) \in Seq(S)
         /\ Len(RemoveAt(s, k)) = Len(s) - 1
         /\ \A i \in 1..(Len(s) - 1) : RemoveAt(s, k)[i] = IF i < k THEN s[i] ELSE s[i+1]
<1> DEFINE a == SubSeq(s, 1, k-1)
           b == SubSeq(s, k+1, Len(s))
<1>0. Len(s) \in Nat /\ k \in Nat /\ \A i \in 1..Len(s) : s[i] \in S
  BY LenProperties, ElementOfSeq
<1>1. /\ a \in Seq(S)
      /\ Len(a) = k - 1
      /\ \A i \in 1..(k-1) : a[i] = s[i]
  <2>1. k - 1 \in Int /\ \A i \in 1..(k-1) : s[i] \in S
    BY <1>0
  <2>2. /\ a \in Seq(S)
        /\ Len(a) = IF 1 <= k-1 THEN (k-1)-1+1 ELSE 0
        /\ \A i \in 1..((k-1)-1+1) : a[i] = s[1+i-1]
    BY <2>1, SubSeqProperties
  <2> QED BY <1>0, <2>2
<1>2. /\ b \in Seq(S)
      /\ Len(b) = Len(s) - k
      /\ \A i \in 1..(Len(s)-k) : b[i] = s[k+i]
  <2>1. k + 1 \in Int /\ Len(s) \in Int /\ \A i \in (k+1)..Len(s) : s[i] \in S
    BY <1>0
  <2>2. /\ b \in Seq(S)
        /\ Len(b) = IF k+1 <= Len(s) THEN Len(s)-(k+1)+1 ELSE 0
        /\ \A i \in 1..(Len(s)-(k+1)+1) : b[i] = s[(k+1)+i-1]
    BY <2>1, SubSeqProperties
  <2> QED BY <1>0, <2>2
<1> HIDE DEF a, b
<1>3. /\ a \o b \in Seq(S)
      /\ Len(a \o b) = Len(a) + Len(b)
      /\ \A i \in 1..(Len(a) + Len(b)) : (a \o b)[i] = IF i <= Len(a) THEN a[i] ELSE b[i - Len(a)]
  BY <1>1, <1>2, ConcatProperties
<1>4. ASSUME NEW i \in 1..(Len(s) - 1)
      PROVE  (a \o b)[i] = IF i < k THEN s[i] ELSE s[i+1]
  <2>1. CASE i < k
    BY <1>0, <1>1, <1>2, <1>3, <2>1
  <2>2. CASE ~(i < k)
    <3>1. i - (k-1) \in 1..(Len(s)-k) /\ k + (i - (k-1)) = i + 1
      BY <1>0, <2>2
    <3>2. (a \o b)[i] = b[i - (k-1)]
      BY <1>0, <1>1, <1>2, <1>3, <2>2
    <3> QED BY <1>2, <2>2, <3>1, <3>2
  <2> QED BY <2>1, <2>2
<1>5. RemoveAt(s, k) = a \o b
  BY DEF RemoveAt, a, b
<1>6. Len(a \o b) = Len(s) - 1
  BY <1>0, <1>1, <1>2, <1>3
<1> QED BY <1>3, <1>4, <1>5, <1>6

\* RemoveFirst takes out one occurrence of an element, if there is one.
LEMMA RemoveFirstIsRemoveAt ==
  ASSUME NEW S, NEW s \in Seq(S), NEW e
  PROVE  /\ (\A i \in 1..Len(s) : s[i] # e) => RemoveFirst(s, e) = s
         /\ (\E i \in 1..Len(s) : s[i] = e) =>
              \E k \in 1..Len(s) : s[k] = e /\ RemoveFirst(s, e) = RemoveAt(s, k)
<1> DEFINE I == {i \in 1..Len(s) : s[i] = e}
<1>0. Len(s) \in Nat /\ I \subseteq Nat
  BY LenProperties
<1>1. CASE I = {}
  <2>1. ~\E i \in 1..Len(s) : s[i] = e
    BY <1>1
  <2> QED BY <2>1 DEF RemoveFirst
<1>2. CASE I # {}
  <2>1. \E x \in I : \A y \in I : x <= y
    <3> HIDE DEF I
    <3> QED BY <1>0, <1>2, LeastNat
  <2>2. Min(I) \in I
    BY <2>1 DEF Min
  <2>3. \E i \in 1..Len(s) : s[i] = e
    BY <1>2
  <2>4. SelectInSeq(s, LAMBDA v : v = e) = Min(I)
    BY <1>2 DEF SelectInSeq
  <2>5. RemoveFirst(s, e) = RemoveAt(s, Min(I))
    BY <2>3, <2>4 DEF RemoveFirst
  <2>6. Min(I) \in 1..Len(s) /\ s[Min(I)] = e
    BY <2>2
  <2> QED BY <2>3, <2>5, <2>6
<1> QED BY <1>1, <1>2

\* The transforms of a write keep the type of an array, add nothing but the argument
\* of arrayUnion, and repeat no element.
LEMMA TransformedProperties ==
  ASSUME NEW S, NEW array \in Seq(S), NEW union \in SUBSET S, NEW remove \in SUBSET S
  PROVE  /\ Transformed(array, union, remove) \in Seq(S)
         /\ ToSet(Transformed(array, union, remove)) \subseteq ToSet(array) \cup union
         /\ IsInjective(array) => IsInjective(Transformed(array, union, remove))
<1> DEFINE missing == union \ ToSet(array)
           present == remove \cap ToSet(array)
           u == CHOOSE x \in missing : TRUE
           r == CHOOSE x \in present : TRUE
<1> SUFFICES ASSUME NEW t, t = Transformed(array, union, remove)
             PROVE  /\ t \in Seq(S)
                    /\ ToSet(t) \subseteq ToSet(array) \cup union
                    /\ IsInjective(array) => IsInjective(t)
  OBVIOUS
<1>0. Len(array) \in Nat /\ DOMAIN array = 1..Len(array) /\ \A i \in 1..Len(array) : array[i] \in S
  BY LenProperties, ElementOfSeq
<1>1. ToSet(array) = {array[i] : i \in 1..Len(array)}
  BY <1>0 DEF ToSet
<1>2. CASE missing # {}
  <2>1. t = Append(array, u)
    BY <1>2 DEF Transformed
  <2>2. u \in union /\ u \in S /\ \A i \in 1..Len(array) : array[i] # u
    BY <1>1, <1>2
  <2> HIDE DEF u
  <2>3. /\ t \in Seq(S)
        /\ Len(t) = Len(array) + 1
        /\ \A i \in 1..Len(array) : t[i] = array[i]
        /\ t[Len(array)+1] = u
    BY <2>1, <2>2, AppendProperties
  <2>4. DOMAIN t = 1..(Len(array) + 1)
    BY <2>3, LenProperties
  <2>5. ToSet(t) \subseteq ToSet(array) \cup union
    BY <1>0, <1>1, <2>2, <2>3, <2>4 DEF ToSet
  <2>6. IsInjective(array) => IsInjective(t)
    BY <1>0, <2>2, <2>3, <2>4 DEF IsInjective
  <2> QED BY <2>3, <2>5, <2>6
<1>3. CASE missing = {} /\ present # {}
  <2>1. t = RemoveFirst(array, r)
    BY <1>3 DEF Transformed
  <2> HIDE DEF r
  <2>2. CASE t = array
    BY <2>2
  <2>3. CASE \E k \in 1..Len(array) : t = RemoveAt(array, k)
    <3>1. PICK k \in 1..Len(array) : t = RemoveAt(array, k)
      BY <2>3
    <3>2. /\ t \in Seq(S)
          /\ Len(t) = Len(array) - 1
          /\ \A i \in 1..(Len(array) - 1) : t[i] = IF i < k THEN array[i] ELSE array[i+1]
      BY <3>1, RemoveAtProperties
    <3>3. DOMAIN t = 1..(Len(array) - 1)
      BY <3>2, LenProperties
    <3>4. ToSet(t) \subseteq ToSet(array)
      BY <1>0, <1>1, <3>2, <3>3 DEF ToSet
    <3>5. IsInjective(array) => IsInjective(t)
      <4> DEFINE Old(i) == IF i < k THEN i ELSE i + 1
      <4>1. \A i \in DOMAIN t : Old(i) \in DOMAIN array /\ t[i] = array[Old(i)]
        BY <1>0, <3>2, <3>3
      <4>2. \A i, j \in DOMAIN t : Old(i) = Old(j) => i = j
        BY <1>0, <3>3
      <4> HIDE DEF Old
      <4> QED BY <4>1, <4>2 DEF IsInjective
    <3> QED BY <3>2, <3>4, <3>5
  <2> QED BY <2>1, <2>2, <2>3, RemoveFirstIsRemoveAt
<1>4. CASE missing = {} /\ present = {}
  BY <1>4 DEF Transformed
<1> QED BY <1>2, <1>3, <1>4

\* arrayRemove of an element takes one occurrence away.
LEMMA RemovedAt ==
  ASSUME NEW S, NEW array \in Seq(S), NEW x \in ToSet(array)
  PROVE  \E k \in 1..Len(array) : array[k] = x /\ Transformed(array, {}, {x}) = RemoveAt(array, k)
<1>1. Transformed(array, {}, {x}) = RemoveFirst(array, x)
  <2>1. {x} \cap ToSet(array) = {x} /\ {} \ ToSet(array) = {} /\ (CHOOSE u \in {x} : TRUE) = x
    OBVIOUS
  <2> QED BY <2>1 DEF Transformed
<1>2. \E i \in 1..Len(array) : array[i] = x
  BY LenProperties DEF ToSet
<1> QED BY <1>1, <1>2, RemoveFirstIsRemoveAt

\* The transforms of one element, on the members of an array.
LEMMA TransformedMembers ==
  ASSUME NEW S, NEW array \in Seq(S), NEW x \in S
  PROVE  /\ Transformed(array, {}, {}) = array
         /\ ToSet(Transformed(array, {x}, {})) = ToSet(array) \cup {x}
         /\ x \in ToSet(array) => Transformed(array, {}, {x}) # array
<1> DEFINE n == Len(array)
<1>0. n \in Nat /\ DOMAIN array = 1..n /\ \A i \in 1..n : array[i] \in S
  BY LenProperties, ElementOfSeq
<1>1. ToSet(array) = {array[i] : i \in 1..n}
  BY <1>0 DEF ToSet
<1> HIDE DEF n
<1>2. Transformed(array, {}, {}) = array
  BY DEF Transformed
<1>3. ToSet(Transformed(array, {x}, {})) = ToSet(array) \cup {x}
  <2>1. CASE x \in ToSet(array)
    <3>1. {x} \ ToSet(array) = {}
      BY <2>1
    <3>2. Transformed(array, {x}, {}) = array
      BY <3>1 DEF Transformed
    <3> QED BY <2>1, <3>2
  <2>2. CASE x \notin ToSet(array)
    <3>1. {x} \ ToSet(array) = {x} /\ (CHOOSE u \in {x} : TRUE) = x
      BY <2>2
    <3>2. Transformed(array, {x}, {}) = Append(array, x)
      BY <3>1 DEF Transformed
    <3>3. /\ DOMAIN Append(array, x) = 1..(n + 1)
          /\ \A i \in 1..n : Append(array, x)[i] = array[i]
          /\ Append(array, x)[n + 1] = x
      BY <1>0, AppendProperties, LenProperties DEF n
    <3>4. ToSet(Append(array, x)) = {Append(array, x)[i] : i \in 1..(n + 1)}
      BY <3>3 DEF ToSet
    <3>5. {Append(array, x)[i] : i \in 1..(n + 1)} = {array[i] : i \in 1..n} \cup {x}
      BY <1>0, <3>3
    <3> QED BY <1>1, <3>2, <3>4, <3>5
  <2> QED BY <2>1, <2>2
<1>4. ASSUME x \in ToSet(array) PROVE Transformed(array, {}, {x}) # array
  <2>1. PICK k \in 1..n : Transformed(array, {}, {x}) = RemoveAt(array, k)
    BY <1>4, RemovedAt DEF n
  <2>2. Len(RemoveAt(array, k)) = n - 1
    BY RemoveAtProperties DEF n
  <2> QED BY <1>0, <2>1, <2>2 DEF n
<1> QED BY <1>2, <1>3, <1>4

\* arrayRemove, on an array without repetitions.
LEMMA RemovedMember ==
  ASSUME NEW S, NEW array \in Seq(S), NEW x \in S, IsInjective(array)
  PROVE  ToSet(Transformed(array, {}, {x})) = ToSet(array) \ {x}
<1> DEFINE n == Len(array)
<1>0. n \in Nat /\ DOMAIN array = 1..n /\ \A i \in 1..n : array[i] \in S
  BY LenProperties, ElementOfSeq
<1>1. ToSet(array) = {array[i] : i \in 1..n}
  BY <1>0 DEF ToSet
<1> HIDE DEF n
<1>2. CASE x \in ToSet(array)
  <2>1. PICK k \in 1..n : array[k] = x /\ Transformed(array, {}, {x}) = RemoveAt(array, k)
    BY <1>2, RemovedAt DEF n
  <2> DEFINE t == RemoveAt(array, k)
  <2>2. /\ t \in Seq(S) /\ Len(t) = n - 1
        /\ \A i \in 1..(n - 1) : t[i] = IF i < k THEN array[i] ELSE array[i+1]
    BY RemoveAtProperties DEF n
  <2>3. DOMAIN t = 1..(n - 1)
    BY <2>2, LenProperties
  <2> HIDE DEF t
  <2>4. \A i, j \in 1..n : array[i] = array[j] => i = j
    BY <1>0 DEF IsInjective
  <2>5. ASSUME NEW i \in 1..(n - 1) PROVE t[i] \in ToSet(array) \ {x}
    <3>1. CASE i < k
      BY <1>0, <1>1, <2>1, <2>2, <2>4, <3>1
    <3>2. CASE ~(i < k)
      <4>1. i + 1 \in 1..n /\ i + 1 # k /\ t[i] = array[i+1]
        BY <1>0, <2>2, <3>2
      <4> QED BY <1>1, <2>1, <2>4, <4>1
    <3> QED BY <3>1, <3>2
  <2>6. ASSUME NEW j \in 1..n, array[j] # x PROVE \E i \in 1..(n - 1) : t[i] = array[j]
    <3>1. CASE j < k
      <4>1. j \in 1..(n - 1) /\ t[j] = array[j]
        BY <1>0, <2>2, <3>1
      <4> QED BY <4>1
    <3>2. CASE ~(j < k)
      <4>1. j # k
        BY <2>1, <2>6
      <4>2. j - 1 \in 1..(n - 1) /\ ~(j - 1 < k) /\ (j - 1) + 1 = j
        BY <1>0, <3>2, <4>1
      <4>3. t[j - 1] = array[j]
        BY <2>2, <4>2
      <4> QED BY <4>2, <4>3
    <3> QED BY <3>1, <3>2
  <2>7. ToSet(t) = {t[i] : i \in 1..(n - 1)}
    BY <2>3 DEF ToSet
  <2> QED BY <1>1, <2>1, <2>5, <2>6, <2>7 DEF t
<1>3. CASE x \notin ToSet(array)
  <2>1. {x} \cap ToSet(array) = {}
    BY <1>3
  <2>2. Transformed(array, {}, {x}) = array
    BY <2>1 DEF Transformed
  <2> QED BY <1>3, <2>2
<1> QED BY <1>2, <1>3

----------------------------------------------------------------------------
(* Documents and collections.                                              *)

\* A field keeps its type under an assignment.
LEMMA AssignedType ==
  ASSUME NEW S, NEW given \in SUBSET S, NEW old \in S
  PROVE  Assigned(given, old) \in S
BY DEF Assigned

\* A patched document is a document.
LEMMA PatchedType ==
  ASSUME NEW doc \in Doc, NEW w \in Write
  PROVE  Patched(doc, w) \in Doc
<1>1. Assigned(w.diningHall, doc.diningHall) \in Halls \cup {NoHall}
  BY AssignedType DEF Doc, Write
<1>2. Assigned(w.currentlyRequesting, doc.currentlyRequesting) \in BOOLEAN
  BY AssignedType DEF Doc, Write
<1>3. Transformed(doc.pairings, w.arrayUnion, w.arrayRemove) \in Seq(Users)
  BY TransformedProperties DEF Doc, Write
<1> QED BY <1>1, <1>2, <1>3 DEF Patched, Doc

\* A write keeps a complete collection complete, and a partial one typed.
LEMMA ApplyType ==
  ASSUME NEW w \in Write
  PROVE  /\ \A x \in [Users -> Doc] : Apply(w, x) \in [Users -> Doc]
         /\ \A x \in [Users -> MaybeDoc] : Apply(w, x) \in [Users -> MaybeDoc]
<1>0. w.uid \in Users
  BY DEF Write
<1>1. ASSUME NEW x \in [Users -> Doc] PROVE Apply(w, x) \in [Users -> Doc]
  <2>1. Patched(x[w.uid], w) \in Doc
    BY <1>0, PatchedType
  <2> QED BY <1>0, <2>1 DEF Apply
<1>2. ASSUME NEW x \in [Users -> MaybeDoc] PROVE Apply(w, x) \in [Users -> MaybeDoc]
  <2>1. x[w.uid] # Nil => Patched(x[w.uid], w) \in MaybeDoc
    BY <1>0, PatchedType DEF MaybeDoc
  <2> QED BY <1>0, <2>1 DEF Apply
<1> QED BY <1>1, <1>2

\* So do the writes of a queue.
LEMMA OverlayType ==
  ASSUME NEW writes \in Seq(Write), NEW x \in [Users -> Doc]
  PROVE  Overlay(writes, x) \in [Users -> Doc]
BY ApplyType, OverlayStaysIn

=============================================================================
