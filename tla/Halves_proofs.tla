---------------------------- MODULE Halves_proofs -----------------------------
(***************************************************************************)
(* The two halves of a pairing agree. They are in two documents, written   *)
(* one after the other, and the documents are written by other phones as   *)
(* well. The proof is that the halves of a giver's pairings are only ever  *)
(* written by the giver's phone (GiversInv), so that with the phone's      *)
(* writes settled they are what the phone wrote last (Ends); and that what *)
(* a tap writes last it writes to both (HalvesInv).                        *)
(***************************************************************************)
EXTENDS Partners_proofs

----------------------------------------------------------------------------
(* What the theorem assumes of the users.                                  *)

\* Only givers use the cancel buttons, and each of them has one phone.
GiversCancel == Cancelling \cap Freshmen = {}
OnePhoneEach == \A d \in Devices : ~IsFreshman(d) => OnlyPhone(d)

----------------------------------------------------------------------------
(* Nobody else writes a giver's pairings.                                  *)

\* Collections in which givers are not listed, and paired with freshmen alone.
Apart ==
  {x \in [Users -> MaybeDoc] : \A u \in Users \ Freshmen : x[u] # Nil =>
     ~x[u].currentlyRequesting /\ ToSet(x[u].pairings) \subseteq Freshmen}

\* The halves of the pairings that the user of a phone may have: <<u, v>> for v among the
\* pairings of u.
HalvesOf(d) == {<<Owner[d], f>> : f \in Freshmen} \cup {<<f, Owner[d]>> : f \in Freshmen}

\* A write that adds or removes at most one pairing.
Single(w) ==
  \/ w.arrayUnion = {} /\ w.arrayRemove = {}
  \/ \E v \in Users : \/ w.arrayUnion = {v} /\ w.arrayRemove = {}
                      \/ w.arrayUnion = {} /\ w.arrayRemove = {v}

Sets(w, u, v) == w.uid = u /\ v \in w.arrayUnion
Clears(w, u, v) == w.uid = u /\ v \in w.arrayRemove

\* Writes of a phone that list no giver, take no request back, and touch no pairing but those
\* of its own giver.
ApartWrite(d) ==
  {w \in Write :
     /\ Single(w)
     /\ w.uid \in Freshmen => NoHall \notin w.diningHall
     /\ w.uid \notin Freshmen => TRUE \notin w.currentlyRequesting
     /\ \A v \in w.arrayUnion \cup w.arrayRemove :
          ~IsFreshman(d) /\ <<w.uid, v>> \in HalvesOf(d)}

\* Pairings of the session of a phone that keep it so.
ApartPairings(d) == {ps \in Seq(Users) : ~IsFreshman(d) => ToSet(ps) \subseteq Freshmen}

GiversInv ==
  Carried(Apart, [d \in Devices |-> Apart], [d \in Devices |-> ApartWrite(d)],
          [d \in Devices |-> ApartPairings(d)], Freshmen)

----------------------------------------------------------------------------
(* What a queue of writes comes to.                                        *)

\* Whether u has the pairing with v after the first n of the writes, by the last one that
\* touches it.
Ends(ws, n, had, u, v) ==
  \/ had /\ \A j \in 1..n : ~Clears(ws[j], u, v)
  \/ \E i \in 1..n : Sets(ws[i], u, v) /\ \A j \in 1..n : i < j => ~Clears(ws[j], u, v)

Has(x, u, v) == v \in ToSet(x[u].pairings)

\* Whether u has the pairing with v once the server has every write of a phone.
Bound(d, u, v) ==
  Ends(queue[d] \o calls[d], Len(queue[d] \o calls[d]), Has(docs, u, v), u, v)

\* Both halves or none, until a process is killed.
HalvesInv ==
  kills = 0 => \A d \in Devices : ~IsFreshman(d) =>
    \A f \in Freshmen : Bound(d, Owner[d], f) <=> Bound(d, f, Owner[d])

\* One write more.
LEMMA EndsStep ==
  ASSUME NEW ws, NEW n \in Nat, NEW had, NEW u, NEW v, ~(Sets(ws[n+1], u, v) /\ Clears(ws[n+1], u, v))
  PROVE  Ends(ws, n + 1, had, u, v) <=>
           Sets(ws[n+1], u, v) \/ (Ends(ws, n, had, u, v) /\ ~Clears(ws[n+1], u, v))
<1>1. /\ n + 1 \in 1..(n + 1) /\ \A i \in 1..n : i \in 1..(n + 1) /\ i < n + 1
      /\ \A i \in 1..(n + 1) : i = n + 1 \/ i \in 1..n
      /\ ~\E j \in 1..(n + 1) : n + 1 < j
  OBVIOUS
<1> DEFINE w == ws[n+1]
           Free(m) == \A j \in 1..m : ~Clears(ws[j], u, v)
           LastSets(m) == \E i \in 1..m : Sets(ws[i], u, v) /\ \A j \in 1..m : i < j => ~Clears(ws[j], u, v)
<1>2. Free(n + 1) <=> Free(n) /\ ~Clears(w, u, v)
  BY <1>1
<1>3. LastSets(n + 1) <=> Sets(w, u, v) \/ (LastSets(n) /\ ~Clears(w, u, v))
  <2>1. ASSUME LastSets(n + 1), ~Sets(w, u, v) PROVE LastSets(n) /\ ~Clears(w, u, v)
    <3>1. PICK i \in 1..(n + 1) : Sets(ws[i], u, v) /\ \A j \in 1..(n + 1) : i < j => ~Clears(ws[j], u, v)
      BY <2>1
    <3>2. i \in 1..n
      BY <1>1, <2>1, <3>1
    <3> QED BY <1>1, <3>1, <3>2
  <2>2. ASSUME Sets(w, u, v) PROVE LastSets(n + 1)
    BY <1>1, <2>2
  <2>3. ASSUME LastSets(n), ~Clears(w, u, v) PROVE LastSets(n + 1)
    <3>1. PICK i \in 1..n : Sets(ws[i], u, v) /\ \A j \in 1..n : i < j => ~Clears(ws[j], u, v)
      BY <2>3
    <3>2. \A j \in 1..(n + 1) : i < j => ~Clears(ws[j], u, v)
      BY <1>1, <2>3, <3>1
    <3> QED BY <1>1, <3>1, <3>2
  <2> QED BY <2>1, <2>2, <2>3
<1>4. /\ Ends(ws, n, had, u, v) <=> (had /\ Free(n)) \/ LastSets(n)
      /\ Ends(ws, n + 1, had, u, v) <=> (had /\ Free(n + 1)) \/ LastSets(n + 1)
  BY DEF Ends
<1> HIDE DEF Free, LastSets, w
<1> QED BY <1>2, <1>3, <1>4 DEF w
  
\* A write behind the others.
LEMMA EndsAppended ==
  ASSUME NEW W, NEW ws \in Seq(W), NEW w \in W, NEW had, NEW u, NEW v, ~(Sets(w, u, v) /\ Clears(w, u, v))
  PROVE  Ends(Append(ws, w), Len(Append(ws, w)), had, u, v) <=>
           Sets(w, u, v) \/ (Ends(ws, Len(ws), had, u, v) /\ ~Clears(w, u, v))
<1> DEFINE longer == Append(ws, w)
           n == Len(ws)
<1>1. /\ n \in Nat /\ Len(longer) = n + 1 /\ longer[n + 1] = w
      /\ \A i \in 1..n : longer[i] = ws[i]
  BY AppendProperties, LenProperties
<1> HIDE DEF longer, n
<1>2. Ends(longer, n + 1, had, u, v) <=>
        Sets(w, u, v) \/ (Ends(longer, n, had, u, v) /\ ~Clears(w, u, v))
  BY <1>1, EndsStep
<1>3. Ends(longer, n, had, u, v) <=> Ends(ws, n, had, u, v)
  BY <1>1 DEF Ends
<1> QED BY <1>1, <1>2, <1>3 DEF longer, n

\* The first write, moved from the queue to the collection.
LEMMA EndsServed ==
  ASSUME NEW W, NEW ws \in Seq(W), ws # <<>>, NEW had \in BOOLEAN, NEW now \in BOOLEAN, NEW u, NEW v,
         now <=> Sets(Head(ws), u, v) \/ (had /\ ~Clears(Head(ws), u, v)),
         ~(Sets(Head(ws), u, v) /\ Clears(Head(ws), u, v))
  PROVE  Ends(Tail(ws), Len(Tail(ws)), now, u, v) <=> Ends(ws, Len(ws), had, u, v)
<1> DEFINE rest == Tail(ws)
           w == Head(ws)
<1>1. PICK n \in Nat : Len(ws) = n + 1
  BY LenProperties, EmptySeq
<1>2. Len(rest) = n /\ w = ws[1] /\ \A i \in 1..n : rest[i] = ws[i+1]
  BY <1>1, HeadTailProperties
<1> HIDE DEF rest, w
<1>3. /\ 1 \in 1..(n + 1) /\ \A i \in 1..n : i + 1 \in 1..(n + 1) /\ 1 < i + 1
      /\ \A i \in 1..(n + 1) : i = 1 \/ \E k \in 1..n : i = k + 1
      /\ \A i, j \in 1..n : i < j <=> i + 1 < j + 1
  <2>1. \A i \in 1..(n + 1) : i # 1 => i - 1 \in 1..n /\ i = (i - 1) + 1
    OBVIOUS
  <2> QED BY <2>1
<1>4. (\A j \in 1..(n + 1) : ~Clears(ws[j], u, v)) <=>
        ~Clears(w, u, v) /\ \A j \in 1..n : ~Clears(rest[j], u, v)
  BY <1>2, <1>3
<1> DEFINE LastAt(i) == Sets(ws[i], u, v) /\ \A j \in 1..(n + 1) : i < j => ~Clears(ws[j], u, v)
           LastIn(i) == Sets(rest[i], u, v) /\ \A j \in 1..n : i < j => ~Clears(rest[j], u, v)
<1>5. LastAt(1) <=> Sets(w, u, v) /\ \A j \in 1..n : ~Clears(rest[j], u, v)
  <2>1. (\A j \in 1..(n + 1) : 1 < j => ~Clears(ws[j], u, v)) <=>
          \A j \in 1..n : ~Clears(ws[j + 1], u, v)
    <3>1. ~(1 < 1)
      OBVIOUS
    <3> QED BY <1>3, <3>1
  <2> QED BY <1>2, <2>1
<1>6. ASSUME NEW i \in 1..n PROVE LastAt(i + 1) <=> LastIn(i)
  <2>1. (\A j \in 1..(n + 1) : i + 1 < j => ~Clears(ws[j], u, v)) <=>
          \A j \in 1..n : i + 1 < j + 1 => ~Clears(ws[j + 1], u, v)
    <3>1. ~(i + 1 < 1)
      OBVIOUS
    <3> QED BY <1>3, <3>1
  <2>2. \A j \in 1..n : i < j <=> i + 1 < j + 1
    BY <1>3
  <2> QED BY <1>2, <2>1, <2>2
<1>7. /\ Ends(ws, n + 1, had, u, v) <=>
           (had /\ \A j \in 1..(n + 1) : ~Clears(ws[j], u, v)) \/ \E i \in 1..(n + 1) : LastAt(i)
      /\ Ends(rest, n, now, u, v) <=>
           (now /\ \A j \in 1..n : ~Clears(rest[j], u, v)) \/ \E i \in 1..n : LastIn(i)
  BY DEF Ends
<1> HIDE DEF LastAt, LastIn
<1>8. (\E i \in 1..(n + 1) : LastAt(i)) <=> LastAt(1) \/ \E i \in 1..n : LastIn(i)
  BY <1>3, <1>6
<1>9. Ends(rest, n, now, u, v) <=> Ends(ws, n + 1, had, u, v)
  BY <1>4, <1>5, <1>7, <1>8 DEF w
<1> QED BY <1>1, <1>2, <1>9 DEF rest

\* A write of the queue that the server applies ahead of the others comes to the same.
LEMMA EndsResent ==
  ASSUME NEW ws, NEW n \in Nat, NEW k \in 1..n, NEW had \in BOOLEAN, NEW now \in BOOLEAN, NEW u, NEW v,
         now <=> Sets(ws[k], u, v) \/ (had /\ ~Clears(ws[k], u, v))
  PROVE  Ends(ws, n, now, u, v) <=> Ends(ws, n, had, u, v)
<1>1. CASE \E j \in 1..n : Clears(ws[j], u, v)
  BY <1>1 DEF Ends
<1>2. CASE \A j \in 1..n : ~Clears(ws[j], u, v)
  BY <1>2 DEF Ends
<1> QED BY <1>1, <1>2

\* What one write does to the pairings of a collection.
LEMMA AppliedPairings ==
  ASSUME NEW w \in Write, Single(w), NEW x \in [Users -> UniqueDoc], NEW u \in Users, NEW v \in Users
  PROVE  /\ Has(Apply(w, x), u, v) <=> Sets(w, u, v) \/ (Has(x, u, v) /\ ~Clears(w, u, v))
         /\ ~(Sets(w, u, v) /\ Clears(w, u, v))
<1>0. w.uid \in Users /\ \A doc \in UniqueDoc : doc \in Doc /\ doc # Nil
  BY NilIsNoDocument DEF Write, UniqueDoc
<1>1. ~(Sets(w, u, v) /\ Clears(w, u, v))
  BY DEF Single, Sets, Clears
<1>2. CASE u # w.uid
  BY <1>0, <1>2 DEF Apply, Has, Sets, Clears
<1>3. CASE u = w.uid
  <2> DEFINE array == x[u].pairings
             after == Transformed(array, w.arrayUnion, w.arrayRemove)
  <2>1. Apply(w, x)[u].pairings = after
    BY <1>0, <1>3 DEF Apply, Patched
  <2>2. array \in Seq(Users) /\ IsInjective(array)
    BY DEF UniqueDoc, Doc
  <2> HIDE DEF array
  <2>3. ToSet(after) = (ToSet(array) \cup w.arrayUnion) \ w.arrayRemove
    <3>1. CASE w.arrayUnion = {} /\ w.arrayRemove = {}
      <4>1. after = array
        BY <2>2, <3>1, TransformedMembers
      <4> QED BY <3>1, <4>1
    <3>2. ASSUME NEW a \in Users, w.arrayUnion = {a} /\ w.arrayRemove = {}
          PROVE  ToSet(after) = (ToSet(array) \cup w.arrayUnion) \ w.arrayRemove
      <4>1. after = Transformed(array, {a}, {})
        BY <3>2
      <4>2. ToSet(Transformed(array, {a}, {})) = ToSet(array) \cup {a}
        BY <2>2, TransformedMembers
      <4> QED BY <3>2, <4>1, <4>2
    <3>3. ASSUME NEW a \in Users, w.arrayUnion = {} /\ w.arrayRemove = {a}
          PROVE  ToSet(after) = (ToSet(array) \cup w.arrayUnion) \ w.arrayRemove
      <4>1. after = Transformed(array, {}, {a})
        BY <3>3
      <4>2. ToSet(Transformed(array, {}, {a})) = ToSet(array) \ {a}
        BY <2>2, RemovedMember
      <4> QED BY <3>3, <4>1, <4>2
    <3> QED BY <3>1, <3>2, <3>3 DEF Single
  <2> HIDE DEF after
  <2>4. Has(Apply(w, x), u, v) <=> v \in (ToSet(array) \cup w.arrayUnion) \ w.arrayRemove
    BY <2>1, <2>3 DEF Has
  <2>5. Has(x, u, v) <=> v \in ToSet(array)
    BY DEF Has, array
  <2> QED BY <1>1, <1>3, <2>4, <2>5 DEF Sets, Clears
<1> QED BY <1>1, <1>2, <1>3

\* What the writes of a queue do to them.
LEMMA OverlayPairings ==
  ASSUME NEW ws \in Seq({w \in Write : Single(w)}), NEW x \in [Users -> UniqueDoc],
         NEW u \in Users, NEW v \in Users
  PROVE  Has(Overlay(ws, x), u, v) <=> Ends(ws, Len(ws), Has(x, u, v), u, v)
<1> DEFINE W == {w \in Write : Single(w)}
           n == Len(ws)
           had == Has(x, u, v)
<1>1. Runs(ws, x, [Users -> UniqueDoc])
  <2>1. \A w \in W, y \in [Users -> UniqueDoc] : Apply(w, y) \in [Users -> UniqueDoc]
    BY UniqueKept
  <2> QED BY <2>1, OverlayRuns
<1>2. PICK f \in [0..n -> [Users -> UniqueDoc]] :
        /\ f[0] = x
        /\ \A i \in 1..n : f[i] = Apply(ws[i], f[i-1])
        /\ Overlay(ws, x) = f[n]
  BY <1>1 DEF Runs
<1>3. n \in Nat /\ \A i \in 1..n : ws[i] \in W
  BY LenProperties, ElementOfSeq
<1> DEFINE G == {m \in 0..n : Has(f[m], u, v) <=> Ends(ws, m, had, u, v)}
<1> HIDE DEF n, had
<1>4. 0 \in G
  <2>1. Ends(ws, 0, had, u, v) <=> had
    BY DEF Ends
  <2> QED BY <1>2, <1>3, <2>1 DEF had
<1>5. ASSUME NEW m \in 0..n, m < n, m \in G PROVE m + 1 \in G
  <2>1. m + 1 \in 1..n /\ (m + 1) - 1 = m /\ m + 1 \in 0..n /\ m \in Nat
    BY <1>3, <1>5
  <2> DEFINE w == ws[m+1]
  <2>2. w \in Write /\ Single(w) /\ f[m] \in [Users -> UniqueDoc] /\ f[m+1] = Apply(w, f[m])
    BY <1>2, <1>3, <2>1
  <2> HIDE DEF w
  <2>3. /\ Has(f[m+1], u, v) <=> Sets(w, u, v) \/ (Has(f[m], u, v) /\ ~Clears(w, u, v))
        /\ ~(Sets(w, u, v) /\ Clears(w, u, v))
    BY <2>2, AppliedPairings
  <2>4. Ends(ws, m + 1, had, u, v) <=> Sets(w, u, v) \/ (Ends(ws, m, had, u, v) /\ ~Clears(w, u, v))
    BY <2>1, <2>3, EndsStep DEF w
  <2> QED BY <1>5, <2>1, <2>3, <2>4
<1>6. n \in G
  <2> HIDE DEF G
  <2>1. 0..n \subseteq G
    BY <1>3, <1>4, <1>5, UpTo
  <2> QED BY <1>3, <2>1
<1> QED BY <1>2, <1>6 DEF n, had

----------------------------------------------------------------------------
(* Collections in which givers are apart.                                  *)

\* A write of a phone keeps givers apart, and touches the pairings of its giver alone.
LEMMA ApartKept ==
  ASSUME NEW d \in Devices, Owner[d] \in Users, NEW w \in ApartWrite(d), NEW x \in Apart
  PROVE  Apply(w, x) \in Apart
<1>0. /\ w \in Write /\ w.uid \in Users /\ x \in [Users -> MaybeDoc]
      /\ w.arrayUnion \in SUBSET Users /\ w.arrayRemove \in SUBSET Users
      /\ w.currentlyRequesting \in SUBSET BOOLEAN
  BY DEF ApartWrite, Write, Apart
<1>1. Apply(w, x) \in [Users -> MaybeDoc]
  BY <1>0, ApplyType
<1>2. ASSUME NEW u \in Users \ Freshmen, Apply(w, x)[u] # Nil
      PROVE  /\ ~Apply(w, x)[u].currentlyRequesting
             /\ ToSet(Apply(w, x)[u].pairings) \subseteq Freshmen
  <2>1. CASE u # w.uid \/ x[w.uid] = Nil
    <3>1. Apply(w, x)[u] = x[u]
      BY <1>0, <2>1 DEF Apply
    <3> QED BY <1>2, <3>1 DEF Apart
  <2>2. CASE u = w.uid /\ x[w.uid] # Nil
    <3> DEFINE doc == x[u]
    <3>1. Apply(w, x)[u] = Patched(doc, w)
      BY <1>0, <2>2 DEF Apply
    <3>2. /\ doc \in Doc /\ ~doc.currentlyRequesting /\ ToSet(doc.pairings) \subseteq Freshmen
      BY <1>0, <2>2 DEF Apart, MaybeDoc
    <3> HIDE DEF doc
    <3>3. w.arrayUnion \subseteq Freshmen /\ TRUE \notin w.currentlyRequesting
      <4>1. /\ \A v \in w.arrayUnion : <<w.uid, v>> \in HalvesOf(d)
            /\ TRUE \notin w.currentlyRequesting
        BY <2>2 DEF ApartWrite
      <4>2. \A v \in w.arrayUnion : <<w.uid, v>> \in HalvesOf(d) => v \in Freshmen
        BY <2>2 DEF HalvesOf
      <4> QED BY <4>1, <4>2
    <3>4. ~Assigned(w.currentlyRequesting, doc.currentlyRequesting)
      BY <1>0, <3>2, <3>3 DEF Assigned
    <3>5. doc.pairings \in Seq(Users)
      BY <3>2 DEF Doc
    <3>6. ToSet(Transformed(doc.pairings, w.arrayUnion, w.arrayRemove))
            \subseteq ToSet(doc.pairings) \cup w.arrayUnion
      BY <1>0, <3>5, TransformedProperties
    <3>7. ToSet(Patched(doc, w).pairings) \subseteq Freshmen
      BY <3>2, <3>3, <3>6 DEF Patched
    <3>8. ~Patched(doc, w).currentlyRequesting
      BY <3>4 DEF Patched
    <3> QED BY <3>1, <3>7, <3>8
  <2> QED BY <2>1, <2>2
<1> QED BY <1>1, <1>2 DEF Apart

\* Such writes and collections carry nothing else.
LEMMA ApartClosed ==
  Closed([d \in Devices |-> Apart], [d \in Devices |-> ApartWrite(d)],
         [d \in Devices |-> ApartPairings(d)])
<1>1. Apart \subseteq [Users -> MaybeDoc] /\ NoDocs \in Apart
  BY DEF Apart, NoDocs, MaybeDoc
<1>2. ASSUME NEW x \in Apart, NEW y \in Apart, NEW u \in Users
      PROVE  [x EXCEPT ![u] = y[u]] \in Apart
  BY DEF Apart
<1>3. ASSUME NEW d \in Devices, NEW w \in ApartWrite(d), NEW x \in Apart PROVE Apply(w, x) \in Apart
  BY ApartKept, PhonesAssumption
<1>4. ASSUME NEW d \in Devices, NEW x \in Apart, x[Owner[d]] # Nil
      PROVE  x[Owner[d]].pairings \in ApartPairings(d)
  <2>1. Owner[d] \in Users /\ x[Owner[d]] \in Doc
    BY <1>4, PhonesAssumption DEF Apart, MaybeDoc
  <2>2. x[Owner[d]].pairings \in Seq(Users)
    BY <2>1 DEF Doc
  <2> QED BY <1>4, <2>1, <2>2 DEF Apart, ApartPairings, IsFreshman
<1> QED BY <1>1, <1>2, <1>3, <1>4 DEF Closed

\* The operations of FirebaseSession touch the pairings of the giver who uses them.
LEMMA ApartWrites ==
  ASSUME NEW d \in Devices, Owner[d] \in Users
  PROVE  /\ \A hall \in Halls : IsFreshman(d) =>
              <<SetRequest(Owner[d], hall, TRUE)>> \in Seq(ApartWrite(d))
         /\ ~IsFreshman(d) => \A row \in Row : row.uid \in Freshmen =>
              /\ PairWith(Owner[d], row.uid, row.diningHall) \in ApartWrite(d)
              /\ AddPairing(row.uid, Owner[d]) \in ApartWrite(d)
              /\ SetRequesting(row.uid, FALSE) \in ApartWrite(d)
         /\ ~IsFreshman(d) => \A other \in Freshmen :
              /\ DropPairing(Owner[d], other) \in ApartWrite(d)
              /\ DropPairing(other, Owner[d]) \in ApartWrite(d)
              /\ SetRequesting(other, TRUE) \in ApartWrite(d)
<1> DEFINE me == Owner[d]
<1>0. Freshmen \subseteq Users
  BY PhonesAssumption
<1>1. ASSUME NEW hall \in Halls, IsFreshman(d)
      PROVE  <<SetRequest(me, hall, TRUE)>> \in Seq(ApartWrite(d))
  <2>1. SetRequest(me, hall, TRUE) \in ApartWrite(d)
    BY <1>1, HallsAssumption DEF SetRequest, ApartWrite, Write, Single, IsFreshman
  <2> QED BY <2>1, TuplesAreSequences
<1>2. \A u \in Freshmen, listed \in BOOLEAN : SetRequesting(u, listed) \in ApartWrite(d)
  BY <1>0 DEF SetRequesting, ApartWrite, Write, Single
<1>3. ASSUME NEW other \in Freshmen, ~IsFreshman(d)
      PROVE  DropPairing(me, other) \in ApartWrite(d) /\ DropPairing(other, me) \in ApartWrite(d)
  <2>1. <<me, other>> \in HalvesOf(d) /\ <<other, me>> \in HalvesOf(d)
    BY DEF HalvesOf
  <2>2. Single(DropPairing(me, other)) /\ Single(DropPairing(other, me))
    BY <1>0 DEF DropPairing, Single
  <2> QED BY <1>0, <1>3, <2>1, <2>2 DEF DropPairing, ApartWrite, Write
<1>4. ASSUME NEW row \in Row, row.uid \in Freshmen, ~IsFreshman(d)
      PROVE  /\ PairWith(me, row.uid, row.diningHall) \in ApartWrite(d)
             /\ AddPairing(row.uid, me) \in ApartWrite(d)
  <2>1. <<me, row.uid>> \in HalvesOf(d) /\ <<row.uid, me>> \in HalvesOf(d)
    BY <1>4 DEF HalvesOf
  <2>2. row.diningHall \in Halls \cup {NoHall}
    BY DEF Row
  <2>3. Single(PairWith(me, row.uid, row.diningHall)) /\ Single(AddPairing(row.uid, me))
    BY <1>0, <1>4 DEF PairWith, AddPairing, Single
  <2>4. PairWith(me, row.uid, row.diningHall) \in Write /\ AddPairing(row.uid, me) \in Write
    BY <1>0, <1>4, <2>2 DEF PairWith, AddPairing, Write
  <2>5. PairWith(me, row.uid, row.diningHall) \in ApartWrite(d)
    BY <1>4, <2>1, <2>3, <2>4 DEF PairWith, ApartWrite, IsFreshman
  <2>6. AddPairing(row.uid, me) \in ApartWrite(d)
    BY <1>4, <2>1, <2>3, <2>4 DEF AddPairing, ApartWrite
  <2> QED BY <2>5, <2>6
<1>5. /\ ~IsFreshman(d) => \A row \in Row : row.uid \in Freshmen =>
           /\ PairWith(Owner[d], row.uid, row.diningHall) \in ApartWrite(d)
           /\ AddPairing(row.uid, Owner[d]) \in ApartWrite(d)
           /\ SetRequesting(row.uid, FALSE) \in ApartWrite(d)
      /\ ~IsFreshman(d) => \A other \in Freshmen :
           /\ DropPairing(Owner[d], other) \in ApartWrite(d)
           /\ DropPairing(other, Owner[d]) \in ApartWrite(d)
           /\ SetRequesting(other, TRUE) \in ApartWrite(d)
  BY <1>2, <1>3, <1>4
<1> QED BY <1>1, <1>5

\* Nothing puts a giver in the list, or pairs a giver with a giver.
LEMMA NextGivers ==
  ASSUME GiversCancel
  PROVE  TypeInv /\ RolesInv /\ GiversInv /\ [Next]_vars => GiversInv'
<1> SUFFICES ASSUME TypeInv, RolesInv, GiversInv, [Next]_vars PROVE GiversInv'
  OBVIOUS
<1> DEFINE S == [d \in Devices |-> Apart]
           W == [d \in Devices |-> ApartWrite(d)]
           P == [d \in Devices |-> ApartPairings(d)]
           Kept(d) == /\ calls'[d] \in Seq(ApartWrite(d))
                      /\ session'[d] # Nil => session'[d].pairings \in ApartPairings(d)
                      /\ \A row \in pairUp'[d] : row.uid \in Freshmen
<1>t. /\ calls \in [Devices -> Seq(Write)] /\ session \in [Devices -> Session \cup {Nil}]
      /\ pairUp \in [Devices -> SUBSET Row]
  BY DEF TypeInv, TypeOK
<1>0. ASSUME NEW d \in Devices
      PROVE  /\ Owner[d] \in Users /\ calls[d] \in Seq(ApartWrite(d)) /\ users[d] \in Apart
             /\ session[d] # Nil => session[d].pairings \in ApartPairings(d)
             /\ \A row \in pairUp[d] : row.uid \in Freshmen
  BY PhonesAssumption DEF GiversInv, Carried
<1>c. Closed(S, W, P) /\ Carried(Apart, S, W, P, Freshmen)
  BY ApartClosed DEF GiversInv
<1> HIDE DEF S, W, P
\* A tap that edits the session and sends writes.
<1>s. ASSUME NEW d \in Devices, NEW writes \in Seq(ApartWrite(d)), Dispatch(d, writes), NEW s,
             s.pairings \in ApartPairings(d), session' = [session EXCEPT ![d] = s],
             pairUp' = pairUp \/ pairUp' = [pairUp EXCEPT ![d] = {}]
      PROVE  Kept(d)
  <2>1. calls[d] \o writes \in Seq(ApartWrite(d))
    BY <1>0, <1>s, ConcatProperties
  <2>2. calls'[d] = calls[d] \o writes /\ session'[d] = s
    BY <1>s, <1>t DEF Dispatch
  <2>3. \A row \in pairUp'[d] : row.uid \in Freshmen
    BY <1>0, <1>s, <1>t
  <2> QED BY <1>s, <2>1, <2>2, <2>3
<1>1. ASSUME NEW d \in Devices, NEW hall \in Halls, MakeRequest(d, hall) PROVE Kept(d)
  <2> DEFINE s == [session[d] EXCEPT !.diningHall = hall]
  <2>1. /\ session[d] # Nil /\ IsFreshman(d) /\ Dispatch(d, <<SetRequest(Owner[d], hall, TRUE)>>)
        /\ session' = [session EXCEPT ![d] = s] /\ UNCHANGED pairUp
    BY <1>1 DEF MakeRequest, OnFreshmanView, LoggedIn, screen
  <2>2. <<SetRequest(Owner[d], hall, TRUE)>> \in Seq(ApartWrite(d))
    BY <1>0, <2>1, ApartWrites
  <2>3. s.pairings \in ApartPairings(d)
    BY <1>0, <2>1, SessionEditType DEF Session
  <2> HIDE DEF s, Kept
  <2> QED BY <1>s, <2>1, <2>2, <2>3
<1>2. ASSUME NEW d \in Devices PROVE ~CancelRequest(d)
  BY DEF CancelRequest, OnFreshmanView, IsFreshman, GiversCancel
<1>3. ASSUME NEW d \in Devices, NEW uid \in Users, OpenPairUp(d, uid) PROVE Kept(d)
  <2>1. /\ UNCHANGED <<calls, session>>
        /\ users[d][uid] # Nil /\ users[d][uid].currentlyRequesting
        /\ pairUp' = [pairUp EXCEPT ![d] = {[uid |-> uid, diningHall |-> users[d][uid].diningHall]}]
    BY <1>3 DEF OpenPairUp
  <2>2. uid \in Freshmen
    BY <1>0, <2>1 DEF Apart
  <2>3. \A row \in pairUp'[d] : row.uid \in Freshmen
    BY <1>t, <2>1, <2>2
  <2> QED BY <1>0, <2>1, <2>3
<1>4. ASSUME NEW d \in Devices, Pair(d) PROVE Kept(d)
  <2>1. PICK row \in pairUp[d] :
          /\ session[d] # Nil /\ ~Paired(d)
          /\ Dispatch(d, CreatePairing(Owner[d], row))
          /\ session' = [session EXCEPT ![d].pairings = Append(@, row.uid)]
          /\ pairUp' = [pairUp EXCEPT ![d] = {}]
    BY <1>4 DEF Pair, LoggedIn
  <2> DEFINE ps == Append(session[d].pairings, row.uid)
             s == [session[d] EXCEPT !.pairings = ps]
             writes == CreatePairing(Owner[d], row)
  <2>2. /\ row \in Row /\ row.uid \in Freshmen /\ row.uid \in Users /\ ~IsFreshman(d)
        /\ session[d] \in Session /\ session[d].pairings = <<>>
    BY <1>0, <1>t, <2>1, PhonesAssumption DEF Paired, RolesInv
  <2>3. ps \in Seq(Users) /\ ToSet(ps) \subseteq Freshmen
    <3>1. ps = <<row.uid>>
      BY <2>2
    <3>2. ToSet(<<row.uid>>) = {row.uid}
      BY DEF ToSet
    <3>3. <<row.uid>> \in Seq(Users)
      BY <2>2, TuplesAreSequences
    <3> QED BY <2>2, <3>1, <3>2, <3>3
  <2>4. writes \in Seq(ApartWrite(d))
    BY <1>0, <2>2, ApartWrites, TuplesAreSequences DEF CreatePairing
  <2>5. session' = [session EXCEPT ![d] = s]
    BY <2>1
  <2> HIDE DEF ps
  <2>6. s.pairings \in ApartPairings(d)
    BY <2>2, <2>3 DEF Session, ApartPairings
  <2> HIDE DEF s, Kept
  <2>7. Dispatch(d, writes)
    BY <2>1
  <2> HIDE DEF writes
  <2> QED BY <1>s, <2>1, <2>4, <2>5, <2>6, <2>7
<1>5. ASSUME NEW d \in Devices, ShowPairing(d) \/ GoBack(d) PROVE Kept(d)
  <2>1. UNCHANGED <<calls, session>> /\ (pairUp' = pairUp \/ pairUp' = [pairUp EXCEPT ![d] = {}])
    BY <1>5 DEF ShowPairing, GoBack
  <2>2. \A row \in pairUp'[d] : row.uid \in Freshmen
    BY <1>0, <1>t, <2>1
  <2> QED BY <1>0, <2>1, <2>2
<1>6. ASSUME NEW d \in Devices, Cancel(d) PROVE Kept(d)
  <2> DEFINE partner == Head(session[d].pairings)
             ps == Tail(session[d].pairings)
             s == [session[d] EXCEPT !.pairings = ps]
             writes == RemovePairing(Owner[d], partner)
  <2>1. /\ session[d] # Nil /\ session[d].pairings # <<>> /\ Dispatch(d, writes)
        /\ session' = [session EXCEPT ![d] = s] /\ UNCHANGED pairUp /\ ~IsFreshman(d)
    BY <1>6 DEF Cancel, Paired, IsFreshman, GiversCancel
  <2>2. /\ session[d] \in Session /\ session[d].pairings \in Seq(Users)
        /\ ToSet(session[d].pairings) \subseteq Freshmen
    BY <1>0, <2>1, SessionEditType DEF ApartPairings
  <2>3. partner \in Freshmen /\ ps \in Seq(Users) /\ ToSet(ps) \subseteq Freshmen
    BY <2>1, <2>2, EditedMembers, HeadTailProperties
  <2> HIDE DEF partner, ps
  <2>4. writes \in Seq(ApartWrite(d))
    BY <1>0, <2>1, <2>3, ApartWrites, TuplesAreSequences DEF RemovePairing
  <2>5. s.pairings \in ApartPairings(d)
    BY <2>2, <2>3 DEF Session, ApartPairings
  <2> HIDE DEF s, writes, Kept
  <2> QED BY <1>s, <2>1, <2>4, <2>5
<1>7. ASSUME NEW d \in Devices, Tap(d) PROVE Kept(d)
  BY <1>1, <1>2, <1>3, <1>4, <1>5, <1>6, <1>7 DEF Tap
<1>8. \A d \in Devices : Tap(d) =>
        /\ calls'[d] \in Seq(W[d])
        /\ session'[d] # Nil => session'[d].pairings \in P[d]
        /\ \A row \in pairUp'[d] : row.uid \in Freshmen
  BY <1>7 DEF W, P
<1>9. docs' \in Apart
  <2>1. docs \in Apart /\ \A d \in Devices : queue[d] \in Seq(W[d])
    BY <1>c DEF Carried
  <2>2. \A d \in Devices : \A w \in W[d], x \in Apart : Apply(w, x) \in Apart
    BY <1>0, ApartKept DEF W
  <2> QED BY <2>1, <2>2, ServerKept
<1>10. \A d \in Devices : Apart \subseteq S[d]
  BY DEF S
<1>11. Carried(Apart, S, W, P, Freshmen)'
  BY <1>c, <1>8, <1>9, <1>10, NextCarried
<1> QED BY <1>11 DEF GiversInv, Apart, ApartWrite, ApartPairings, HalvesOf, Single, IsFreshman,
                    Carried, S, W, P

----------------------------------------------------------------------------
(* What a giver's phone does to the halves.                                *)

\* A write that moves from one queue to the next.
LEMMA QueuesMoved ==
  ASSUME NEW S, NEW q \in Seq(S), NEW c \in Seq(S)
  PROVE  /\ c # <<>> => Append(q, Head(c)) \o Tail(c) = q \o c
         /\ q # <<>> => q \o c # <<>> /\ Head(q \o c) = Head(q) /\ Tail(q \o c) = Tail(q) \o c
<1>1. ASSUME c # <<>> PROVE Append(q, Head(c)) \o Tail(c) = q \o c
  <2> DEFINE a == Append(q, Head(c))
             b == Tail(c)
  <2>1. Head(c) \in S /\ Head(c) = c[1] /\ Len(c) \in Nat \ {0} /\ Len(q) \in Nat
    BY <1>1, EmptySeq, HeadTailProperties, LenProperties
  <2>2. /\ a \in Seq(S) /\ Len(a) = Len(q) + 1 /\ a[Len(q) + 1] = c[1]
        /\ \A i \in 1..Len(q) : a[i] = q[i]
    BY <2>1, AppendProperties
  <2>3. b \in Seq(S) /\ Len(b) = Len(c) - 1 /\ \A i \in 1..(Len(c) - 1) : b[i] = c[i + 1]
    BY <1>1, HeadTailProperties
  <2> HIDE DEF a, b
  <2>4. /\ a \o b \in Seq(S) /\ Len(a \o b) = Len(q) + Len(c)
        /\ \A i \in 1..(Len(q) + Len(c)) :
             (a \o b)[i] = IF i <= Len(q) + 1 THEN a[i] ELSE b[i - (Len(q) + 1)]
    <3>1. /\ a \o b \in Seq(S) /\ Len(a \o b) = Len(a) + Len(b)
          /\ \A i \in 1..(Len(a) + Len(b)) : (a \o b)[i] = IF i <= Len(a) THEN a[i] ELSE b[i - Len(a)]
      BY <2>2, <2>3, ConcatProperties
    <3>2. Len(a) = Len(q) + 1 /\ Len(a) + Len(b) = Len(q) + Len(c)
      BY <2>1, <2>2, <2>3
    <3> QED BY <3>1, <3>2
  <2>5. /\ q \o c \in Seq(S) /\ Len(q \o c) = Len(q) + Len(c)
        /\ \A i \in 1..(Len(q) + Len(c)) : (q \o c)[i] = IF i <= Len(q) THEN q[i] ELSE c[i - Len(q)]
    BY ConcatProperties
  <2>6. ASSUME NEW i \in 1..(Len(q) + Len(c)) PROVE (a \o b)[i] = (q \o c)[i]
    <3>1. CASE i <= Len(q)
      BY <2>1, <2>2, <2>4, <2>5, <3>1
    <3>2. CASE i = Len(q) + 1
      BY <2>1, <2>2, <2>4, <2>5, <3>2
    <3>3. CASE i > Len(q) + 1
      <4>1. /\ i - (Len(q) + 1) \in 1..(Len(c) - 1) /\ (i - (Len(q) + 1)) + 1 = i - Len(q)
            /\ ~(i <= Len(q) + 1) /\ ~(i <= Len(q))
        BY <2>1, <3>3
      <4> QED BY <2>3, <2>4, <2>5, <4>1
    <3>4. i <= Len(q) \/ i = Len(q) + 1 \/ i > Len(q) + 1
      BY <2>1
    <3> QED BY <3>1, <3>2, <3>3, <3>4
  <2> QED BY <2>4, <2>5, <2>6, SeqEqual DEF a, b
<1>2. ASSUME q # <<>>
      PROVE  q \o c # <<>> /\ Head(q \o c) = Head(q) /\ Tail(q \o c) = Tail(q) \o c
  <2> DEFINE s == q \o c
             r == Tail(q)
  <2>1. Len(q) \in Nat \ {0} /\ Len(c) \in Nat
    BY <1>2, EmptySeq, LenProperties
  <2>2. /\ s \in Seq(S) /\ Len(s) = Len(q) + Len(c)
        /\ \A i \in 1..(Len(q) + Len(c)) : s[i] = IF i <= Len(q) THEN q[i] ELSE c[i - Len(q)]
    BY ConcatProperties
  <2>3. /\ r \in Seq(S) /\ Len(r) = Len(q) - 1 /\ \A i \in 1..(Len(q) - 1) : r[i] = q[i + 1]
        /\ Head(q) = q[1]
    BY <1>2, HeadTailProperties
  <2> HIDE DEF s, r
  <2>4. s # <<>> /\ Head(s) = s[1]
    BY <2>1, <2>2, EmptySeq
  <2>5. /\ Tail(s) \in Seq(S) /\ Len(Tail(s)) = (Len(q) + Len(c)) - 1
        /\ \A i \in 1..((Len(q) + Len(c)) - 1) : Tail(s)[i] = s[i + 1]
    BY <2>2, <2>4, HeadTailProperties
  <2>6. /\ r \o c \in Seq(S) /\ Len(r \o c) = (Len(q) - 1) + Len(c)
        /\ \A i \in 1..((Len(q) - 1) + Len(c)) :
             (r \o c)[i] = IF i <= Len(q) - 1 THEN r[i] ELSE c[i - (Len(q) - 1)]
    <3>1. /\ r \o c \in Seq(S) /\ Len(r \o c) = Len(r) + Len(c)
          /\ \A i \in 1..(Len(r) + Len(c)) : (r \o c)[i] = IF i <= Len(r) THEN r[i] ELSE c[i - Len(r)]
      BY <2>3, ConcatProperties
    <3> QED BY <2>3, <3>1
  <2>7. ASSUME NEW i \in 1..((Len(q) + Len(c)) - 1) PROVE Tail(s)[i] = (r \o c)[i]
    <3>0. i \in 1..((Len(q) - 1) + Len(c)) /\ i + 1 \in 1..(Len(q) + Len(c))
      BY <2>1
    <3>1. CASE i <= Len(q) - 1
      BY <2>1, <2>2, <2>3, <2>5, <2>6, <3>0, <3>1
    <3>2. CASE ~(i <= Len(q) - 1)
      <4>1. ~(i + 1 <= Len(q)) /\ (i + 1) - Len(q) = i - (Len(q) - 1)
        BY <2>1, <3>2
      <4> QED BY <2>2, <2>5, <2>6, <3>0, <3>2, <4>1
    <3> QED BY <3>1, <3>2
  <2>8. Len(Tail(s)) = Len(r \o c)
    BY <2>1, <2>5, <2>6
  <2>9. Tail(s) = r \o c
    BY <2>5, <2>6, <2>7, <2>8, SeqEqual
  <2>10. Head(s) = Head(q)
    BY <2>1, <2>2, <2>3, <2>4
  <2> QED BY <2>4, <2>9, <2>10 DEF s, r
<1> QED BY <1>1, <1>2

\* The writes of another phone leave the pairings of a giver alone.
LEMMA ForeignWrite ==
  ASSUME OnePhoneEach, NEW d \in Devices, ~IsFreshman(d), NEW e \in Devices \ {d},
         NEW w \in ApartWrite(e), NEW u, NEW v, <<u, v>> \in HalvesOf(d)
  PROVE  ~Sets(w, u, v) /\ ~Clears(w, u, v)
<1> SUFFICES ASSUME w.uid = u, v \in w.arrayUnion \cup w.arrayRemove PROVE FALSE
  BY DEF Sets, Clears
<1>1. ~IsFreshman(e) /\ <<u, v>> \in HalvesOf(e)
  BY DEF ApartWrite
<1>2. Owner[e] # Owner[d]
  BY DEF OnePhoneEach, OnlyPhone
<1>3. Owner[d] \notin Freshmen /\ Owner[e] \notin Freshmen
  BY <1>1 DEF IsFreshman
<1> QED BY <1>1, <1>2, <1>3 DEF HalvesOf

\* The queues of a giver's phone hold the same writes after every step but a commit and the
\* taps that pair.
LEMMA QueuesKept ==
  ASSUME TypeInv, [Next]_vars, NEW d \in Devices, ~IsFreshman(d),
         ~Die(d), ~Commit(d), ~Pair(d), ~Cancel(d)
  PROVE  queue'[d] \o calls'[d] = queue[d] \o calls[d]
<1>t. /\ queue \in [Devices -> Seq(Write)] /\ calls \in [Devices -> Seq(Write)]
  BY DEF TypeInv, TypeOK
<1>1. CASE UNCHANGED <<queue, calls>>
  BY <1>1
<1>2. ASSUME Persist(d) PROVE queue'[d] \o calls'[d] = queue[d] \o calls[d]
  <2>1. /\ calls[d] # <<>> /\ calls'[d] = Tail(calls[d])
        /\ queue'[d] = Append(queue[d], Head(calls[d]))
    BY <1>2, <1>t DEF Persist
  <2>2. queue[d] \in Seq(Write) /\ calls[d] \in Seq(Write)
    BY <1>t
  <2>3. Append(queue[d], Head(calls[d])) \o Tail(calls[d]) = queue[d] \o calls[d]
    BY <2>1, <2>2, QueuesMoved
  <2> QED BY <2>1, <2>3
<1>3. ASSUME NEW e \in Devices \ {d}, Step(e) PROVE queue'[d] \o calls'[d] = queue[d] \o calls[d]
  <2>1. queue'[d] = queue[d] /\ calls'[d] = calls[d]
    BY <1>3, OthersUntouched
  <2> QED BY <2>1
<1>4. ASSUME Step(d), ~Persist(d) PROVE UNCHANGED <<queue, calls>>
  <2>1. CASE Launch(d) \/ CommitUnheard(d) \/ Reconnect(d) \/ Watch(d)
    BY <2>1 DEF Launch, CommitUnheard, Reconnect, Watch, disk, memory
  <2>2. CASE Fetch(d) \/ Deliver(d)
    BY <2>2 DEF Fetch, FetchDocument, FetchOffline, Deliver, DeliverUsers, DeliverSession, disk
  <2>3. CASE Tap(d)
    <3>1. (\E uid \in Users : OpenPairUp(d, uid)) \/ ShowPairing(d) \/ GoBack(d)
      BY <2>3 DEF Tap, MakeRequest, CancelRequest, OnFreshmanView
    <3> QED BY <3>1 DEF OpenPairUp, ShowPairing, GoBack, disk
  <2> QED BY <1>4, <2>1, <2>2, <2>3 DEF Step
<1>5. CASE UNCHANGED vars
  BY <1>5 DEF vars, disk, memory
<1>6. Next => \E e \in Devices : Step(e)
  BY DEF Next, Step
<1> QED BY <1>1, <1>2, <1>3, <1>4, <1>5, <1>6

\* The server applies a write of the phone, or of another one, or something else happens: the
\* halves come to the same.
LEMMA BoundKept ==
  ASSUME OnePhoneEach, TypeInv, UniqueInv, GiversInv, [Next]_vars, NEW d \in Devices, ~IsFreshman(d),
         ~Die(d), ~Pair(d), ~Cancel(d), NEW u \in Users, NEW v \in Users, <<u, v>> \in HalvesOf(d)
  PROVE  Bound(d, u, v)' <=> Bound(d, u, v)
<1> DEFINE ws == queue[d] \o calls[d]
           had == Has(docs, u, v)
<1>0. ASSUME NEW e \in Devices
      PROVE  queue[e] \in Seq(ApartWrite(e)) /\ calls[e] \in Seq(ApartWrite(e))
  BY DEF GiversInv, Carried
<1>t. queue \in [Devices -> Seq(Write)] /\ calls \in [Devices -> Seq(Write)]
  BY DEF TypeInv, TypeOK
<1>1. ws \in Seq(ApartWrite(d))
  BY <1>0, ConcatProperties
<1>a. SUFFICES Ends(queue'[d] \o calls'[d], Len(queue'[d] \o calls'[d]), Has(docs', u, v), u, v)
                 <=> Ends(ws, Len(ws), had, u, v)
  BY DEF Bound, Ends, Has, Sets, Clears
\* What a write of any phone does on the server.
<1>2. ASSUME NEW e \in Devices, NEW w \in ApartWrite(e), docs' = Apply(w, docs)
      PROVE  /\ Has(docs', u, v) <=> Sets(w, u, v) \/ (had /\ ~Clears(w, u, v))
             /\ ~(Sets(w, u, v) /\ Clears(w, u, v))
  <2>1. w \in Write /\ Single(w) /\ docs \in [Users -> UniqueDoc]
    BY DEF ApartWrite, UniqueInv
  <2> QED BY <1>2, <2>1, AppliedPairings
<1>3. had \in BOOLEAN /\ Has(docs', u, v) \in BOOLEAN
  BY DEF Has
<1> HIDE DEF had
<1>4. ASSUME Commit(d)
      PROVE  Ends(queue'[d] \o calls'[d], Len(queue'[d] \o calls'[d]), Has(docs', u, v), u, v)
               <=> Ends(ws, Len(ws), had, u, v)
  <2>1. /\ queue[d] # <<>> /\ docs' = Apply(Head(queue[d]), docs)
        /\ queue'[d] = Tail(queue[d]) /\ calls'[d] = calls[d]
    BY <1>4, <1>t DEF Commit, memory
  <2>2. ws # <<>> /\ Head(ws) = Head(queue[d]) /\ Tail(ws) = queue'[d] \o calls'[d]
    <3>1. queue[d] \in Seq(ApartWrite(d)) /\ calls[d] \in Seq(ApartWrite(d))
      BY <1>0
    <3>2. ws # <<>> /\ Head(ws) = Head(queue[d]) /\ Tail(ws) = Tail(queue[d]) \o calls[d]
      BY <2>1, <3>1, QueuesMoved
    <3> HIDE DEF ws
    <3> QED BY <2>1, <3>2
  <2>3. Head(ws) \in ApartWrite(d)
    BY <1>1, <2>2, HeadTailProperties
  <2> HIDE DEF ws
  <2>4. /\ Has(docs', u, v) <=> Sets(Head(ws), u, v) \/ (had /\ ~Clears(Head(ws), u, v))
        /\ ~(Sets(Head(ws), u, v) /\ Clears(Head(ws), u, v))
    BY <1>2, <2>1, <2>2, <2>3
  <2>5. Ends(Tail(ws), Len(Tail(ws)), Has(docs', u, v), u, v) <=> Ends(ws, Len(ws), had, u, v)
    BY <1>1, <1>3, <2>2, <2>4, EndsServed
  <2> QED BY <2>2, <2>5
<1>5. ASSUME ~Commit(d)
      PROVE  Ends(ws, Len(ws), Has(docs', u, v), u, v) <=> Ends(ws, Len(ws), had, u, v)
  <2>1. ASSUME CommitUnheard(d)
        PROVE  Ends(ws, Len(ws), Has(docs', u, v), u, v) <=> Ends(ws, Len(ws), had, u, v)
    <3>1. PICK k \in 1..Len(queue[d]) : docs' = Apply(queue[d][k], docs)
      BY <2>1, AppliedWrites
    <3>2. k \in 1..Len(ws) /\ ws[k] = queue[d][k] /\ ws[k] \in ApartWrite(d) /\ Len(ws) \in Nat
      <4>1. /\ Len(ws) = Len(queue[d]) + Len(calls[d])
            /\ \A i \in 1..(Len(queue[d]) + Len(calls[d])) :
                 ws[i] = IF i <= Len(queue[d]) THEN queue[d][i] ELSE calls[d][i - Len(queue[d])]
        BY <1>0, ConcatProperties
      <4>2. Len(queue[d]) \in Nat /\ Len(calls[d]) \in Nat
        BY <1>0, LenProperties
      <4> HIDE DEF ws
      <4> DEFINE n == Len(queue[d])
                 m == Len(calls[d])
      <4>3. k <= n /\ k \in 1..(n + m) /\ n + m \in Nat
        <5>1. n \in Nat /\ m \in Nat /\ k \in 1..n
          BY <4>2
        <5> HIDE DEF n, m
        <5> QED BY <5>1
      <4>4. k \in 1..Len(ws) /\ ws[k] = queue[d][k]
        BY <4>1, <4>3
      <4> QED BY <1>0, <4>3, <4>4, ElementOfSeq
    <3> HIDE DEF ws
    <3>3. Has(docs', u, v) <=> Sets(ws[k], u, v) \/ (had /\ ~Clears(ws[k], u, v))
      BY <1>2, <3>1, <3>2
    <3> QED BY <1>3, <3>2, <3>3, EndsResent
  <2>2. ASSUME NEW e \in Devices \ {d}, Commit(e) \/ CommitUnheard(e) PROVE Has(docs', u, v) <=> had
    <3>1. PICK k \in 1..Len(queue[e]) : docs' = Apply(queue[e][k], docs)
      BY <2>2, AppliedWrites
    <3> DEFINE w == queue[e][k]
    <3>2. w \in ApartWrite(e)
      BY <1>0, ElementOfSeq
    <3> HIDE DEF w
    <3>3. ~Sets(w, u, v) /\ ~Clears(w, u, v)
      BY <3>2, ForeignWrite
    <3>4. docs' = Apply(w, docs)
      BY <3>1 DEF w
    <3>5. Has(docs', u, v) <=> Sets(w, u, v) \/ (had /\ ~Clears(w, u, v))
      BY <1>2, <3>2, <3>4
    <3> QED BY <3>3, <3>5
  <2>3. ASSUME UNCHANGED docs PROVE Has(docs', u, v) <=> had
    BY <2>3 DEF had, Has
  <2>4. (Has(docs', u, v) <=> had) => (Has(docs', u, v) = had)
    BY <1>3
  <2> QED BY <1>5, <2>1, <2>2, <2>3, <2>4, ServerSteps
<1>6. ~Commit(d) => queue'[d] \o calls'[d] = ws
  BY QueuesKept
<1> HIDE DEF ws
<1> QED BY <1>4, <1>5, <1>6

\* Three writes more.
LEMMA BoundTapped ==
  ASSUME GiversInv, NEW d \in Devices, NEW w1 \in ApartWrite(d), NEW w2 \in ApartWrite(d),
         NEW w3 \in ApartWrite(d), calls'[d] = calls[d] \o <<w1, w2, w3>>, queue'[d] = queue[d],
         docs' = docs, NEW u, NEW v,
         \A w \in {w1, w2, w3} : ~(Sets(w, u, v) /\ Clears(w, u, v))
  PROVE  Bound(d, u, v)' <=>
           \/ Sets(w3, u, v)
           \/ /\ ~Clears(w3, u, v)
              /\ \/ Sets(w2, u, v)
                 \/ ~Clears(w2, u, v) /\ (Sets(w1, u, v) \/ (Bound(d, u, v) /\ ~Clears(w1, u, v)))
<1> DEFINE W == ApartWrite(d)
           ws == queue[d] \o calls[d]
           had == Has(docs, u, v)
           s1 == Append(ws, w1)
           s2 == Append(s1, w2)
           s3 == Append(s2, w3)
<1>0. queue[d] \in Seq(W) /\ calls[d] \in Seq(W) /\ <<w1, w2, w3>> \in Seq(W)
  BY TuplesAreSequences DEF GiversInv, Carried
<1> HIDE DEF W
<1>1. ws \in Seq(W)
  BY <1>0, ConcatProperties
<1>2. queue'[d] \o calls'[d] = ws \o <<w1, w2, w3>>
  <2>1. \A q, c, t \in Seq(W) : (q \o c) \o t = q \o (c \o t)
    BY ConcatAssociative
  <2>2. (queue[d] \o calls[d]) \o <<w1, w2, w3>> = queue[d] \o (calls[d] \o <<w1, w2, w3>>)
    BY <1>0, <2>1
  <2> QED BY <2>2
<1> HIDE DEF ws
<1>3. w1 \in W /\ w2 \in W /\ w3 \in W
  BY DEF W
<1>4. s1 \in Seq(W) /\ s2 \in Seq(W)
  BY <1>1, <1>3, AppendProperties
<1>5. ws \o <<w1, w2, w3>> = s3
  BY <1>1, <1>3
<1>6. Ends(s1, Len(s1), had, u, v) <=>
        Sets(w1, u, v) \/ (Ends(ws, Len(ws), had, u, v) /\ ~Clears(w1, u, v))
  BY <1>1, <1>3, EndsAppended
<1> HIDE DEF s1
<1>7. Ends(s2, Len(s2), had, u, v) <=>
        Sets(w2, u, v) \/ (Ends(s1, Len(s1), had, u, v) /\ ~Clears(w2, u, v))
  BY <1>3, <1>4, EndsAppended
<1> HIDE DEF s2
<1>8. Ends(s3, Len(s3), had, u, v) <=>
        Sets(w3, u, v) \/ (Ends(s2, Len(s2), had, u, v) /\ ~Clears(w3, u, v))
  BY <1>3, <1>4, EndsAppended
<1> HIDE DEF s3
<1>9. Bound(d, u, v) <=> Ends(ws, Len(ws), had, u, v)
  BY DEF Bound, ws, had
<1>10. Bound(d, u, v)' <=> Ends(s3, Len(s3), had, u, v)
  <2>1. Bound(d, u, v)' <=>
          Ends(queue'[d] \o calls'[d], Len(queue'[d] \o calls'[d]), Has(docs', u, v), u, v)
    BY DEF Bound, Ends, Has, Sets, Clears
  <2>2. Has(docs', u, v) = had
    BY DEF had
  <2> QED BY <1>2, <1>5, <2>1, <2>2
<1> QED BY <1>6, <1>7, <1>8, <1>9, <1>10

\* Unless a process is killed, no giver's phone ends.
LEMMA GiversLive ==
  ASSUME OnePhoneEach, TypeInv, PartnerIsKnown, [Next]_vars, kills' = 0
  PROVE  kills = 0 /\ \A d \in Devices : ~IsFreshman(d) => ~Die(d)
<1>t. kills \in Nat
  BY BoundsAssumption DEF TypeInv, TypeOK
<1>1. \A e \in Devices : Die(e) => (kills' = kills /\ Trapping(e)) \/ kills' = kills + 1
  BY DEF Die
<1>2. ASSUME NEW e \in Devices, Step(e), ~Die(e) PROVE kills' = kills
  <2>1. CASE Launch(e) \/ Persist(e) \/ Commit(e) \/ CommitUnheard(e) \/ Reconnect(e) \/ Watch(e)
    BY <2>1 DEF Launch, Persist, Commit, CommitUnheard, Reconnect, Watch, budget
  <2>2. CASE Fetch(e) \/ Deliver(e)
    BY <2>2 DEF Fetch, FetchDocument, FetchOffline, Deliver, DeliverUsers, DeliverSession, budget
  <2>3. CASE (\E hall \in Halls : MakeRequest(e, hall)) \/ CancelRequest(e) \/ Pair(e) \/ Cancel(e)
    BY <2>3 DEF MakeRequest, CancelRequest, Pair, Cancel
  <2>4. CASE (\E uid \in Users : OpenPairUp(e, uid)) \/ ShowPairing(e) \/ GoBack(e)
    BY <2>4 DEF OpenPairUp, ShowPairing, GoBack, budget
  <2> QED BY <1>2, <2>1, <2>2, <2>3, <2>4 DEF Step, Tap
<1>3. UNCHANGED vars => kills' = kills
  BY DEF vars, budget
<1>4. Next => \E e \in Devices : Step(e)
  BY DEF Next, Step
<1>5. kills' = kills \/ kills' = kills + 1
  BY <1>1, <1>2, <1>3, <1>4
<1>6. kills = 0 /\ \A e \in Devices : Die(e) => Trapping(e)
  BY <1>t, <1>1, <1>5
<1>7. ASSUME NEW d \in Devices, ~IsFreshman(d) PROVE ~Die(d)
  <2>1. OnlyPhone(d)
    BY <1>7 DEF OnePhoneEach
  <2>2. Paired(d) => PartnerFound(d)
    BY <2>1 DEF PartnerIsKnown, OnlyPhone
  <2> QED BY <1>6, <1>7, <2>2 DEF Trapping
<1> QED BY <1>6, <1>7

\* A giver's own name is no freshman's.
LEMMA GiverApart ==
  ASSUME NEW d \in Devices, ~IsFreshman(d), NEW f \in Freshmen
  PROVE  /\ Owner[d] \in Users /\ f \in Users /\ Owner[d] # f /\ Owner[d] \notin Freshmen
         /\ <<Owner[d], f>> \in HalvesOf(d) /\ <<f, Owner[d]>> \in HalvesOf(d)
BY PhonesAssumption DEF HalvesOf, IsFreshman

\* The tap of a giver on "Pair!" makes both halves of one pairing.
LEMMA PairBinds ==
  ASSUME TypeInv, GiversInv, NEW d \in Devices, ~IsFreshman(d), Pair(d)
  PROVE  \E row \in pairUp[d] :
           /\ row.uid \in Freshmen
           /\ \A f \in Freshmen :
                /\ Bound(d, Owner[d], f)' <=> f = row.uid \/ Bound(d, Owner[d], f)
                /\ Bound(d, f, Owner[d])' <=> f = row.uid \/ Bound(d, f, Owner[d])
<1> DEFINE me == Owner[d]
<1>t. /\ calls \in [Devices -> Seq(Write)] /\ pairUp \in [Devices -> SUBSET Row]
  BY DEF TypeInv, TypeOK
<1>1. PICK row \in pairUp[d] : Dispatch(d, CreatePairing(me, row)) /\ UNCHANGED <<docs, queue>>
  BY DEF Pair, disk
<1>2. row \in Row /\ row.uid \in Freshmen /\ Owner[d] \in Users
  BY <1>t, PhonesAssumption DEF GiversInv, Carried
<1> DEFINE w1 == PairWith(me, row.uid, row.diningHall)
           w2 == AddPairing(row.uid, me)
           w3 == SetRequesting(row.uid, FALSE)
<1>3. w1 \in ApartWrite(d) /\ w2 \in ApartWrite(d) /\ w3 \in ApartWrite(d)
  BY <1>2, ApartWrites
<1>4. ASSUME NEW f \in Freshmen
      PROVE  /\ ~Sets(w2, me, f) /\ ~Sets(w1, f, me)
             /\ Sets(w1, me, f) <=> f = row.uid
             /\ Sets(w2, f, me) <=> f = row.uid
  BY <1>2, GiverApart DEF Sets, PairWith, AddPairing
<1>5. \A u, v : /\ ~Clears(w1, u, v) /\ ~Clears(w2, u, v) /\ ~Clears(w3, u, v) /\ ~Sets(w3, u, v)
  BY DEF Sets, Clears, PairWith, AddPairing, SetRequesting
<1>6. /\ calls'[d] = calls[d] \o <<w1, w2, w3>> /\ queue'[d] = queue[d] /\ docs' = docs
  BY <1>t, <1>1 DEF Dispatch, CreatePairing
<1> HIDE DEF w1, w2, w3
<1>7. ASSUME NEW f \in Freshmen
      PROVE  /\ Bound(d, me, f)' <=> f = row.uid \/ Bound(d, me, f)
             /\ Bound(d, f, me)' <=> f = row.uid \/ Bound(d, f, me)
  <2>1. ASSUME NEW u, NEW v
        PROVE  Bound(d, u, v)' <=> Sets(w2, u, v) \/ Sets(w1, u, v) \/ Bound(d, u, v)
    <3>1. \A w \in {w1, w2, w3} : ~(Sets(w, u, v) /\ Clears(w, u, v))
      BY <1>5
    <3>2. Bound(d, u, v)' <=>
            \/ Sets(w3, u, v)
            \/ /\ ~Clears(w3, u, v)
               /\ \/ Sets(w2, u, v)
                  \/ ~Clears(w2, u, v) /\ (Sets(w1, u, v) \/ (Bound(d, u, v) /\ ~Clears(w1, u, v)))
      BY <1>3, <1>6, <3>1, BoundTapped
    <3> QED BY <1>5, <3>2
  <2>2. Bound(d, me, f)' <=> Sets(w2, me, f) \/ Sets(w1, me, f) \/ Bound(d, me, f)
    BY <2>1
  <2>3. Bound(d, f, me)' <=> Sets(w2, f, me) \/ Sets(w1, f, me) \/ Bound(d, f, me)
    BY <2>1
  <2> QED BY <1>4, <2>2, <2>3
<1> QED BY <1>2, <1>7

\* The tap of a giver on "Cancel" takes both halves of one pairing away.
LEMMA CancelUnbinds ==
  ASSUME TypeInv, GiversInv, NEW d \in Devices, ~IsFreshman(d), Cancel(d)
  PROVE  \E partner \in Freshmen : \A f \in Freshmen :
           /\ Bound(d, Owner[d], f)' <=> f # partner /\ Bound(d, Owner[d], f)
           /\ Bound(d, f, Owner[d])' <=> f # partner /\ Bound(d, f, Owner[d])
<1> DEFINE me == Owner[d]
           partner == Head(session[d].pairings)
           w1 == DropPairing(me, partner)
           w2 == DropPairing(partner, me)
           w3 == SetRequesting(partner, TRUE)
<1>t. calls \in [Devices -> Seq(Write)] /\ Owner[d] \in Users
  BY PhonesAssumption DEF TypeInv, TypeOK
<1>1. /\ session[d] # Nil /\ session[d].pairings # <<>>
      /\ Dispatch(d, <<w1, w2, w3>>) /\ UNCHANGED <<docs, queue>>
  BY DEF Cancel, Paired, RemovePairing, disk
<1>2. partner \in Freshmen
  <2>1. session[d].pairings \in Seq(Users) /\ ToSet(session[d].pairings) \subseteq Freshmen
    BY <1>1 DEF GiversInv, Carried, ApartPairings
  <2> QED BY <1>1, <2>1, EditedMembers
<1> HIDE DEF partner
<1>3. w1 \in ApartWrite(d) /\ w2 \in ApartWrite(d) /\ w3 \in ApartWrite(d)
  BY <1>t, <1>2, ApartWrites
<1>4. ASSUME NEW f \in Freshmen
      PROVE  /\ ~Clears(w2, me, f) /\ ~Clears(w1, f, me)
             /\ Clears(w1, me, f) <=> f = partner
             /\ Clears(w2, f, me) <=> f = partner
  BY <1>2, GiverApart DEF Clears, DropPairing
<1>5. \A u, v : /\ ~Sets(w1, u, v) /\ ~Sets(w2, u, v) /\ ~Sets(w3, u, v) /\ ~Clears(w3, u, v)
  BY DEF Sets, Clears, DropPairing, SetRequesting
<1>6. /\ calls'[d] = calls[d] \o <<w1, w2, w3>> /\ queue'[d] = queue[d] /\ docs' = docs
  BY <1>t, <1>1 DEF Dispatch
<1> HIDE DEF w1, w2, w3
<1>7. ASSUME NEW f \in Freshmen
      PROVE  /\ Bound(d, me, f)' <=> f # partner /\ Bound(d, me, f)
             /\ Bound(d, f, me)' <=> f # partner /\ Bound(d, f, me)
  <2>1. ASSUME NEW u, NEW v
        PROVE  Bound(d, u, v)' <=> ~Clears(w2, u, v) /\ ~Clears(w1, u, v) /\ Bound(d, u, v)
    <3>1. \A w \in {w1, w2, w3} : ~(Sets(w, u, v) /\ Clears(w, u, v))
      BY <1>5
    <3>2. Bound(d, u, v)' <=>
            \/ Sets(w3, u, v)
            \/ /\ ~Clears(w3, u, v)
               /\ \/ Sets(w2, u, v)
                  \/ ~Clears(w2, u, v) /\ (Sets(w1, u, v) \/ (Bound(d, u, v) /\ ~Clears(w1, u, v)))
      BY <1>3, <1>6, <3>1, BoundTapped
    <3> QED BY <1>5, <3>2
  <2>2. Bound(d, me, f)' <=> ~Clears(w2, me, f) /\ ~Clears(w1, me, f) /\ Bound(d, me, f)
    BY <2>1
  <2>3. Bound(d, f, me)' <=> ~Clears(w2, f, me) /\ ~Clears(w1, f, me) /\ Bound(d, f, me)
    BY <2>1
  <2> QED BY <1>4, <2>2, <2>3
<1> QED BY <1>2, <1>7

\* The halves stay together on every step.
LEMMA NextHalves ==
  ASSUME OnePhoneEach
  PROVE  TypeInv /\ UniqueInv /\ GiversInv /\ PartnerIsKnown /\ HalvesInv /\ [Next]_vars
           => HalvesInv'
<1> SUFFICES ASSUME TypeInv, UniqueInv, GiversInv, PartnerIsKnown, HalvesInv, [Next]_vars,
                    kills' = 0, NEW d \in Devices, ~IsFreshman(d), NEW f \in Freshmen
             PROVE  Bound(d, Owner[d], f)' <=> Bound(d, f, Owner[d])'
  BY DEF HalvesInv, IsFreshman
<1>0. kills = 0 /\ ~Die(d)
  BY GiversLive
<1>i. Bound(d, Owner[d], f) <=> Bound(d, f, Owner[d])
  BY <1>0 DEF HalvesInv
<1>1. CASE ~Pair(d) /\ ~Cancel(d)
  <2>0. /\ Owner[d] \in Users /\ f \in Users
        /\ <<Owner[d], f>> \in HalvesOf(d) /\ <<f, Owner[d]>> \in HalvesOf(d)
    BY GiverApart
  <2>1. Bound(d, Owner[d], f)' <=> Bound(d, Owner[d], f)
    BY <1>0, <1>1, <2>0, BoundKept
  <2>2. Bound(d, f, Owner[d])' <=> Bound(d, f, Owner[d])
    BY <1>0, <1>1, <2>0, BoundKept
  <2> QED BY <1>i, <2>1, <2>2
<1>2. CASE Pair(d)
  BY <1>i, <1>2, PairBinds
<1>3. CASE Cancel(d)
  BY <1>i, <1>3, CancelUnbinds
<1> QED BY <1>1, <1>2, <1>3

\* GiversInv is an invariant.
LEMMA GiversInvariance ==
  ASSUME GiversCancel
  PROVE  Spec => []GiversInv
<1>1. Init => GiversInv
  <2> SUFFICES ASSUME Init PROVE GiversInv
    OBVIOUS
  <2>1. NewDoc \in Doc /\ NewDoc # Nil /\ NewDoc.pairings = <<>> /\ ~NewDoc.currentlyRequesting
    BY NewDocument
  <2>2. docs = [u \in Users |-> NewDoc]
    BY DEF Init
  <2>3. docs \in Apart
    BY <2>1, <2>2 DEF Apart, MaybeDoc, ToSet
  <2>4. NoDocs \in Apart
    BY DEF Apart, NoDocs, MaybeDoc
  <2>5. ASSUME NEW d \in Devices
        PROVE  /\ queue[d] = <<>> /\ calls[d] = <<>> /\ events[d] = <<>> /\ pairUp[d] = {}
               /\ view[d] \in Apart /\ users[d] = view[d]
               /\ session[d] # Nil => session[d].pairings = <<>>
    BY <2>1, <2>3, <2>4 DEF Init, SessionOf
  <2>6. ASSUME NEW d \in Devices
        PROVE  /\ <<>> \in ApartPairings(d) /\ <<>> \in Seq(ApartWrite(d)) /\ <<>> \in Seq(Bringing(Apart))
    BY EmptySeq DEF ApartPairings, ToSet
  <2> QED BY <2>3, <2>5, <2>6 DEF GiversInv, Carried
<1> QED BY <1>1, NextGivers, RolesInvariance, TypeInvariance, PTL DEF Spec

\* The collection with the writes of a giver's phone settled has the pairings that the writes
\* come to, and no giver is paired with a giver in it.
LEMMA SettledPairings ==
  ASSUME UniqueInv, GiversInv, NEW d \in Devices
  PROVE  /\ \A u, v \in Users : Has(Settled(d), u, v) <=> Bound(d, u, v)
         /\ \A u \in Users \ Freshmen : ToSet(Settled(d)[u].pairings) \subseteq Freshmen
         /\ \A u \in Users : ToSet(Settled(d)[u].pairings) \subseteq Users
<1> DEFINE ws == queue[d] \o calls[d]
           W == {w \in Write : Single(w)}
<1>1. ws \in Seq(ApartWrite(d)) /\ docs \in [Users -> UniqueDoc] /\ docs \in Apart
  BY ConcatProperties DEF GiversInv, Carried, UniqueInv
<1>2. Settled(d) = Overlay(ws, docs)
  BY DEF Settled
<1>3. \A u, v \in Users : Bound(d, u, v) <=> Ends(ws, Len(ws), Has(docs, u, v), u, v)
  BY DEF Bound
<1> HIDE DEF ws
<1>4. ws \in Seq(W)
  <2>1. ApartWrite(d) \subseteq W
    BY DEF ApartWrite
  <2> HIDE DEF W
  <2> QED BY <1>1, <2>1, SeqMonotonic
<1>5. ASSUME NEW u \in Users, NEW v \in Users PROVE Has(Settled(d), u, v) <=> Bound(d, u, v)
  BY <1>1, <1>2, <1>3, <1>4, OverlayPairings
<1>6. Settled(d) \in Apart
  <2>1. \A w \in ApartWrite(d), x \in Apart : Apply(w, x) \in Apart
    BY ApartKept, PhonesAssumption
  <2> QED BY <1>1, <1>2, <2>1, OverlayStaysIn
<1>7. Settled(d) \in [Users -> UniqueDoc]
  <2>1. ws \in Seq(Write)
    BY <1>4, SeqMonotonic
  <2> QED BY <1>1, <1>2, <2>1, UniqueKept
<1>8. \A doc \in UniqueDoc : doc # Nil /\ ToSet(doc.pairings) \subseteq Users
  <2>1. \A ps \in Seq(Users) : ToSet(ps) \subseteq Users
    BY ElementOfSeq, LenProperties DEF ToSet
  <2> QED BY <2>1, NilIsNoDocument DEF UniqueDoc, Doc
<1>9. \A u \in Users \ Freshmen : ToSet(Settled(d)[u].pairings) \subseteq Freshmen
  BY <1>6, <1>7, <1>8 DEF Apart
<1> QED BY <1>5, <1>7, <1>8, <1>9

\* Nobody is paired at the start.
LEMMA NothingBound == Init => \A d \in Devices, u, v \in Users : ~Bound(d, u, v)
<1> SUFFICES ASSUME Init, NEW d \in Devices, NEW u \in Users, NEW v \in Users PROVE ~Bound(d, u, v)
  OBVIOUS
<1>1. queue[d] \o calls[d] = <<>>
  BY DEF Init
<1>2. ~Has(docs, u, v)
  BY DEF Init, NewDoc, Has, ToSet
<1> QED BY <1>1, <1>2 DEF Bound, Ends

\* HalvesInv is an invariant.
LEMMA HalvesInvariance ==
  ASSUME GiversCancel, OnePhoneEach
  PROVE  Spec => []HalvesInv
<1>1. Init => HalvesInv
  BY NothingBound, GiverApart DEF HalvesInv
<1> QED BY <1>1, NextHalves, GiversInvariance, UniqueInvariance, PartnersAreKnown,
           TypeInvariance, PTL DEF Spec

\* With the writes of a giver's phone settled, the giver has a user among the pairings exactly
\* if that user has the giver: for any number of phones, taps, lost connections and orders
\* of the writes and callbacks, as long as only givers cancel, each has one phone, and no
\* process was killed.
THEOREM HalvesAgree ==
  ASSUME GiversCancel, OnePhoneEach
  PROVE  Spec => [](kills = 0 => PairingsAgree)
<1>1. UniqueInv /\ GiversInv /\ HalvesInv => (kills = 0 => PairingsAgree)
  <2> SUFFICES ASSUME UniqueInv, GiversInv, HalvesInv, kills = 0,
                      NEW d \in Devices, ~IsFreshman(d), NEW u \in Users
               PROVE  Has(Settled(d), Owner[d], u) <=> Has(Settled(d), u, Owner[d])
    BY DEF PairingsAgree, Has
  <2>1. CASE u \in Freshmen
    <3>1. Bound(d, Owner[d], u) <=> Bound(d, u, Owner[d])
      BY <2>1 DEF HalvesInv
    <3> QED BY <2>1, <3>1, SettledPairings, GiverApart
  <2>2. CASE u \notin Freshmen
    <3>1. Owner[d] \in Users \ Freshmen
      BY PhonesAssumption DEF IsFreshman
    <3> QED BY <2>2, <3>1, SettledPairings DEF Has
  <2> QED BY <2>1, <2>2
<1> QED BY <1>1, HalvesInvariance, GiversInvariance, UniqueInvariance, PTL

=============================================================================
