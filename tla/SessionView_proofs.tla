-------------------------- MODULE SessionView_proofs --------------------------
(***************************************************************************)
(* What a screen shows is what the phone has. The users and the session of *)
(* FirebaseSession are filled by callbacks and edited by taps, in any      *)
(* order: the proof is that the callbacks that are waiting always catch up *)
(* with the local view (CatchesUp), and that an edit which is ahead of the *)
(* view has a write on its way that is going to change it (ScreenInv).     *)
(***************************************************************************)
EXTENDS MealExchange_proofs

----------------------------------------------------------------------------
(* The callbacks that are waiting.                                         *)

\* Once the callbacks es are served, the users that are listed are the local view: the
\* last snapshot is the view, or there is none and the view is listed already. The last
\* callback, of either kind, has the view's document of u.
CatchesUp(es, listed, viewed, u) ==
  /\ es # <<>> => es[Len(es)].docs[u] = viewed[u]
  /\ \/ /\ listed = viewed
        /\ \A i \in DOMAIN es : es[i].kind # "users"
     \/ \E i \in DOMAIN es :
          /\ es[i].kind = "users" /\ es[i].docs = viewed
          /\ \A j \in DOMAIN es : i < j => es[j].kind # "users"

\* One of the writes on their way changes the view.
Changing(writes, viewed) == \E i \in DOMAIN writes : Apply(writes[i], viewed) # viewed

\* A callback of getDocument is waiting.
Fetched(es) == \E i \in DOMAIN es : es[i].kind = "session"

\* A session has a document in the view. A process that ended shows nothing, and one that
\* runs catches up. With no callback waiting the session is the account's document, or a
\* write that will change the view is on its way.
ScreenInv ==
  \A d \in Devices :
    /\ session[d] # Nil \/ Fetched(events[d]) => view[d][Owner[d]] # Nil
    /\ ~running[d] => users[d] = NoDocs /\ session[d] = Nil
    /\ running[d] => CatchesUp(events[d], users[d], view[d], Owner[d])
    /\ events[d] = <<>> /\ session[d] # Nil =>
         \/ session[d] = SessionOf(view[d][Owner[d]])
         \/ Changing(calls[d], view[d])

\* A callback at the end of the others.
LEMMA AppendedEvent ==
  ASSUME NEW es \in Seq(Event), NEW e \in Event
  PROVE  /\ Append(es, e) \in Seq(Event) /\ Append(es, e) # <<>>
         /\ Len(es) \in Nat /\ DOMAIN es = 1..Len(es)
         /\ Len(Append(es, e)) = Len(es) + 1 /\ DOMAIN Append(es, e) = 1..(Len(es) + 1)
         /\ \A i \in 1..Len(es) : Append(es, e)[i] = es[i]
         /\ Append(es, e)[Len(es) + 1] = e
         /\ Fetched(Append(es, e)) <=> Fetched(es) \/ e.kind = "session"
<1>1. /\ Append(es, e) \in Seq(Event)
      /\ Len(es) \in Nat /\ DOMAIN es = 1..Len(es)
      /\ Len(Append(es, e)) = Len(es) + 1 /\ DOMAIN Append(es, e) = 1..(Len(es) + 1)
      /\ \A i \in 1..Len(es) : Append(es, e)[i] = es[i]
      /\ Append(es, e)[Len(es) + 1] = e
  BY AppendProperties, LenProperties
<1>2. Append(es, e) # <<>>
  BY <1>1, EmptySeq
<1>3. Fetched(Append(es, e)) <=> Fetched(es) \/ e.kind = "session"
  <2>1. Len(es) + 1 \in 1..(Len(es) + 1) /\ \A i \in 1..Len(es) : i \in 1..(Len(es) + 1)
    BY <1>1
  <2>2. \A i \in 1..(Len(es) + 1) : i = Len(es) + 1 \/ i \in 1..Len(es)
    BY <1>1
  <2> DEFINE longer == Append(es, e)
  <2>3. Fetched(longer) <=> \E i \in 1..(Len(es) + 1) : longer[i].kind = "session"
    BY <1>1 DEF Fetched
  <2>4. Fetched(es) <=> \E i \in 1..Len(es) : es[i].kind = "session"
    BY <1>1 DEF Fetched
  <2> QED BY <1>1, <2>1, <2>2, <2>3, <2>4
<1> QED BY <1>1, <1>2, <1>3

\* The callback that is served next, and the others.
LEMMA ServedEvent ==
  ASSUME NEW es \in Seq(Event), es # <<>>
  PROVE  /\ Head(es) = es[1] /\ Len(es) \in Nat /\ Len(es) > 0 /\ DOMAIN es = 1..Len(es)
         /\ Tail(es) \in Seq(Event) /\ Len(Tail(es)) = Len(es) - 1
         /\ DOMAIN Tail(es) = 1..(Len(es) - 1)
         /\ \A i \in 1..(Len(es) - 1) : Tail(es)[i] = es[i+1]
         /\ Fetched(Tail(es)) => Fetched(es)
         /\ Head(es).kind = "session" => Fetched(es)
<1>1. /\ Head(es) = es[1] /\ Len(es) \in Nat /\ Len(es) > 0 /\ DOMAIN es = 1..Len(es)
      /\ Tail(es) \in Seq(Event) /\ Len(Tail(es)) = Len(es) - 1
      /\ DOMAIN Tail(es) = 1..(Len(es) - 1)
      /\ \A i \in 1..(Len(es) - 1) : Tail(es)[i] = es[i+1]
  BY HeadTailProperties, LenProperties, EmptySeq
<1>2. Fetched(Tail(es)) => Fetched(es)
  <2> SUFFICES ASSUME NEW i \in DOMAIN Tail(es), Tail(es)[i].kind = "session"
               PROVE  \E j \in DOMAIN es : es[j].kind = "session"
    BY DEF Fetched
  <2>1. i \in 1..(Len(es) - 1) /\ i + 1 \in 1..Len(es) /\ Tail(es)[i] = es[i+1]
    BY <1>1
  <2> QED BY <1>1, <2>1
<1>3. Head(es).kind = "session" => Fetched(es)
  <2>1. 1 \in 1..Len(es)
    BY <1>1
  <2> QED BY <1>1, <2>1 DEF Fetched
<1> QED BY <1>1, <1>2, <1>3

\* A snapshot of the new view catches up whatever was waiting before it.
LEMMA SnapshotCatchesUp ==
  ASSUME NEW es \in Seq(Event), NEW listed, NEW x \in [Users -> MaybeDoc], NEW u
  PROVE  CatchesUp(Append(es, UsersEvent(x)), listed, x, u)
<1> DEFINE e == UsersEvent(x)
           longer == Append(es, e)
           n == Len(es) + 1
<1>1. e \in Event /\ e.kind = "users" /\ e.docs = x
  BY DEF UsersEvent, Event
<1> HIDE DEF e
<1>2. Len(longer) = n /\ DOMAIN longer = 1..n /\ longer[n] = e /\ n \in Nat /\ n \in 1..n
  BY <1>1, AppendedEvent
<1> HIDE DEF longer, n
<1>3. \A j \in 1..n : ~(n < j)
  BY <1>2
<1>4. CatchesUp(longer, listed, x, u)
  BY <1>1, <1>2, <1>3 DEF CatchesUp
<1> QED BY <1>4 DEF longer, e

\* The document of the view, behind the snapshots, does not disturb them.
LEMMA DocumentCatchesUp ==
  ASSUME NEW es \in Seq(Event), NEW listed, NEW viewed, NEW u, CatchesUp(es, listed, viewed, u),
         NEW e \in Event, e.kind = "session", e.docs[u] = viewed[u]
  PROVE  CatchesUp(Append(es, e), listed, viewed, u)
<1> DEFINE longer == Append(es, e)
           n == Len(es)
<1>1. /\ n \in Nat /\ DOMAIN es = 1..n
      /\ Len(longer) = n + 1 /\ DOMAIN longer = 1..(n + 1)
      /\ \A i \in 1..n : longer[i] = es[i]
      /\ longer[n + 1] = e
  BY AppendedEvent
<1> HIDE DEF longer, n
<1>2. \A j \in 1..(n + 1) : j \in 1..n \/ longer[j].kind = "session"
  BY <1>1
<1>3. "session" # "users"
  OBVIOUS
<1>4. CASE listed = viewed /\ \A i \in DOMAIN es : es[i].kind # "users"
  <2>1. \A i \in DOMAIN longer : longer[i].kind # "users"
    BY <1>1, <1>2, <1>3, <1>4
  <2> QED BY <1>1, <1>4, <2>1 DEF CatchesUp, longer
<1>5. CASE \E i \in DOMAIN es : /\ es[i].kind = "users" /\ es[i].docs = viewed
                                /\ \A j \in DOMAIN es : i < j => es[j].kind # "users"
  <2>1. PICK i \in 1..n : /\ es[i].kind = "users" /\ es[i].docs = viewed
                          /\ \A j \in 1..n : i < j => es[j].kind # "users"
    BY <1>1, <1>5
  <2>2. i \in 1..(n + 1) /\ longer[i] = es[i]
    BY <1>1
  <2>3. \A j \in 1..(n + 1) : i < j => longer[j].kind # "users"
    BY <1>1, <1>2, <1>3, <2>1
  <2> QED BY <1>1, <2>1, <2>2, <2>3 DEF CatchesUp, longer
<1> QED BY <1>4, <1>5 DEF CatchesUp

\* The callbacks are served from the front.
LEMMA ServingCatchesUp ==
  ASSUME NEW es \in Seq(Event), NEW listed, NEW viewed, NEW u, CatchesUp(es, listed, viewed, u),
         es # <<>>
  PROVE  /\ CatchesUp(Tail(es), IF Head(es).kind = "users" THEN Head(es).docs ELSE listed,
                      viewed, u)
         /\ Tail(es) = <<>> => Head(es).docs[u] = viewed[u]
<1> DEFINE rest == Tail(es)
           n == Len(es)
           now == IF Head(es).kind = "users" THEN Head(es).docs ELSE listed
<1>1. /\ Head(es) = es[1] /\ n \in Nat /\ n > 0 /\ DOMAIN es = 1..n
      /\ Len(rest) = n - 1 /\ DOMAIN rest = 1..(n - 1)
      /\ \A i \in 1..(n - 1) : rest[i] = es[i+1]
  BY ServedEvent
<1>2. rest = <<>> => n = 1
  <2>1. Len(<<>>) = 0
    OBVIOUS
  <2>2. rest = <<>> => n - 1 = 0
    BY <1>1, <2>1
  <2> QED BY <1>1, <2>2
<1>3. es[n].docs[u] = viewed[u]
  BY DEF CatchesUp
<1> HIDE DEF rest, n
<1>4. rest # <<>> => rest[Len(rest)].docs[u] = viewed[u]
  <2> SUFFICES ASSUME rest # <<>> PROVE rest[Len(rest)].docs[u] = viewed[u]
    OBVIOUS
  <2>1. n # 1
    <3>1. rest \in Seq(Event)
      BY ServedEvent DEF rest
    <3> QED BY <1>1, <3>1, EmptySeq
  <2>2. n - 1 \in 1..(n - 1) /\ (n - 1) + 1 = n
    BY <1>1, <2>1
  <2> QED BY <1>1, <1>3, <2>2
<1>5. CASE listed = viewed /\ \A i \in DOMAIN es : es[i].kind # "users"
  <2>1. Head(es).kind # "users" /\ now = listed
    BY <1>1, <1>5
  <2>2. \A i \in DOMAIN rest : rest[i].kind # "users"
    <3> SUFFICES ASSUME NEW i \in 1..(n - 1) PROVE rest[i].kind # "users"
      BY <1>1
    <3>1. i + 1 \in 1..n /\ rest[i] = es[i+1]
      BY <1>1
    <3> QED BY <1>1, <1>5, <3>1
  <2>3. CatchesUp(rest, now, viewed, u)
    BY <1>4, <1>5, <2>1, <2>2 DEF CatchesUp
  <2> QED BY <1>1, <1>2, <1>3, <2>3 DEF rest
<1>6. CASE \E i \in DOMAIN es : /\ es[i].kind = "users" /\ es[i].docs = viewed
                                /\ \A j \in DOMAIN es : i < j => es[j].kind # "users"
  <2>1. PICK i \in 1..n : /\ es[i].kind = "users" /\ es[i].docs = viewed
                          /\ \A j \in 1..n : i < j => es[j].kind # "users"
    BY <1>1, <1>6
  <2>2. CASE i = 1
    <3>1. now = viewed
      BY <1>1, <2>1, <2>2
    <3>2. \A j \in DOMAIN rest : rest[j].kind # "users"
      <4> SUFFICES ASSUME NEW j \in 1..(n - 1) PROVE rest[j].kind # "users"
        BY <1>1
      <4>1. j + 1 \in 1..n /\ i < j + 1 /\ rest[j] = es[j+1]
        BY <1>1, <2>2
      <4> QED BY <2>1, <4>1
    <3>3. CatchesUp(rest, now, viewed, u)
      BY <1>4, <3>1, <3>2 DEF CatchesUp
    <3> QED BY <1>1, <1>2, <1>3, <3>3 DEF rest
  <2>3. CASE i # 1
    <3>1. i - 1 \in 1..(n - 1) /\ rest[i - 1] = es[i]
      <4>1. i - 1 \in 1..(n - 1) /\ (i - 1) + 1 = i
        BY <1>1, <2>3
      <4> QED BY <1>1, <4>1
    <3>2. ASSUME NEW j \in 1..(n - 1), i - 1 < j PROVE rest[j].kind # "users"
      <4>1. j + 1 \in 1..n /\ i < j + 1 /\ rest[j] = es[j+1]
        BY <1>1, <3>2
      <4> QED BY <2>1, <4>1
    <3>3. CatchesUp(rest, now, viewed, u)
      <4> HIDE DEF now
      <4> QED BY <1>1, <1>4, <2>1, <3>1, <3>2 DEF CatchesUp
    <3> QED BY <1>1, <1>2, <1>3, <3>3 DEF rest
  <2> QED BY <2>2, <2>3
<1> QED BY <1>5, <1>6 DEF CatchesUp

----------------------------------------------------------------------------
(* Taps that are ahead of the view.                                        *)

\* A write that changes the account's document changes the view.
LEMMA ApplyDiffers ==
  ASSUME NEW x \in [Users -> MaybeDoc], NEW u \in Users, x[u] \in Doc, NEW w \in Write, w.uid = u,
         Patched(x[u], w) # x[u]
  PROVE  Apply(w, x) # x
<1>1. x[u] # Nil
  BY NilIsNoDocument
<1>2. Apply(w, x) = [x EXCEPT ![u] = Patched(x[u], w)]
  BY <1>1 DEF Apply
<1>3. Apply(w, x)[u] = Patched(x[u], w)
  BY <1>2
<1> QED BY <1>3

\* The first write of each tap changes a document that is what the session was: another
\* dining hall, a first pairing, or a pairing less.
LEMMA TapsChange ==
  ASSUME NEW x \in [Users -> MaybeDoc], NEW u \in Users, x[u] \in Doc
  PROVE  /\ \A hall \in Halls \cup {NoHall}, listed \in BOOLEAN :
              x[u].diningHall # hall => Apply(SetRequest(u, hall, listed), x) # x
         /\ \A other \in Users, hall \in Halls \cup {NoHall} :
              x[u].pairings = <<>> => Apply(PairWith(u, other, hall), x) # x
         /\ \A other \in Users :
              other \in ToSet(x[u].pairings) => Apply(DropPairing(u, other), x) # x
<1> DEFINE doc == x[u]
<1>0. /\ doc \in Doc /\ doc.pairings \in Seq(Users)
      /\ \A w : Patched(doc, w) = doc =>
           /\ Assigned(w.diningHall, doc.diningHall) = doc.diningHall
           /\ Transformed(doc.pairings, w.arrayUnion, w.arrayRemove) = doc.pairings
  BY DEF Doc, Patched
<1> HIDE DEF doc
<1>m. ASSUME NEW other \in Users PROVE Transformed(<<>>, {other}, {}) # <<>>
  <2>1. {other} \ ToSet(<<>>) = {other} /\ (CHOOSE v \in {other} : TRUE) = other
    BY DEF ToSet
  <2>2. Transformed(<<>>, {other}, {}) = Append(<<>>, other)
    BY <2>1 DEF Transformed
  <2>3. Append(<<>>, other) # <<>>
    BY AppendProperties
  <2> QED BY <2>2, <2>3
<1>1. ASSUME NEW hall \in Halls \cup {NoHall}, NEW listed \in BOOLEAN, doc.diningHall # hall
      PROVE  Apply(SetRequest(u, hall, listed), x) # x
  <2> DEFINE w == SetRequest(u, hall, listed)
  <2>1. w \in Write /\ w.uid = u /\ w.diningHall = {hall}
    BY DEF SetRequest, Write
  <2> HIDE DEF w
  <2>2. Assigned(w.diningHall, doc.diningHall) = hall
    BY <2>1 DEF Assigned
  <2>3. Patched(doc, w) # doc
    BY <1>0, <1>1, <2>2
  <2>4. Apply(w, x) # x
    BY <2>1, <2>3, ApplyDiffers DEF doc
  <2> QED BY <2>4 DEF w
<1>2. ASSUME NEW other \in Users, NEW hall \in Halls \cup {NoHall}, doc.pairings = <<>>
      PROVE  Apply(PairWith(u, other, hall), x) # x
  <2> DEFINE w == PairWith(u, other, hall)
  <2>1. w \in Write /\ w.uid = u /\ w.arrayUnion = {other} /\ w.arrayRemove = {}
    BY DEF PairWith, Write
  <2> HIDE DEF w
  <2>2. Patched(doc, w) # doc
    BY <1>0, <1>2, <1>m, <2>1
  <2>3. Apply(w, x) # x
    BY <2>1, <2>2, ApplyDiffers DEF doc
  <2> QED BY <2>3 DEF w
<1>3. ASSUME NEW other \in Users, other \in ToSet(doc.pairings)
      PROVE  Apply(DropPairing(u, other), x) # x
  <2> DEFINE w == DropPairing(u, other)
  <2>1. w \in Write /\ w.uid = u /\ w.arrayUnion = {} /\ w.arrayRemove = {other}
    BY DEF DropPairing, Write
  <2> HIDE DEF w
  <2>2. Transformed(doc.pairings, {}, {other}) # doc.pairings
    BY <1>0, <1>3, TransformedMembers
  <2>3. Patched(doc, w) # doc
    BY <1>0, <2>1, <2>2
  <2>4. Apply(w, x) # x
    BY <2>1, <2>3, ApplyDiffers DEF doc
  <2> QED BY <2>4 DEF w
<1> QED BY <1>1, <1>2, <1>3 DEF doc

\* Writes that are added to others: what was going to change the view still will.
LEMMA ChangingGrows ==
  ASSUME NEW old \in Seq(Write), NEW writes \in Seq(Write), NEW viewed
  PROVE  Changing(old, viewed) \/ Changing(writes, viewed) => Changing(old \o writes, viewed)
<1> DEFINE all == old \o writes
           n == Len(old)
           m == Len(writes)
<1>1. /\ n \in Nat /\ m \in Nat /\ DOMAIN old = 1..n /\ DOMAIN writes = 1..m
      /\ all \in Seq(Write) /\ Len(all) = n + m
      /\ \A i \in 1..(n + m) : all[i] = IF i <= n THEN old[i] ELSE writes[i - n]
  BY ConcatProperties, LenProperties
<1>2. DOMAIN all = 1..(n + m)
  BY <1>1, LenProperties
<1> HIDE DEF all, n, m
<1>3. ASSUME NEW i \in 1..n PROVE i \in 1..(n + m) /\ all[i] = old[i]
  BY <1>1
<1>4. ASSUME NEW i \in 1..m PROVE n + i \in 1..(n + m) /\ all[n + i] = writes[i]
  <2>1. n + i \in 1..(n + m) /\ ~(n + i <= n) /\ (n + i) - n = i
    BY <1>1
  <2> QED BY <1>1, <2>1
<1>5. Changing(old, viewed) => Changing(all, viewed)
  BY <1>1, <1>2, <1>3 DEF Changing
<1>6. Changing(writes, viewed) => Changing(all, viewed)
  BY <1>1, <1>2, <1>4 DEF Changing
<1> QED BY <1>5, <1>6 DEF all

\* The worker takes a write. If it leaves the view alone, another one will change it.
LEMMA ChangingServed ==
  ASSUME NEW writes \in Seq(Write), NEW viewed, writes # <<>>, Apply(Head(writes), viewed) = viewed,
         Changing(writes, viewed)
  PROVE  Changing(Tail(writes), viewed)
<1> DEFINE n == Len(writes)
<1>1. /\ Head(writes) = writes[1] /\ n \in Nat /\ DOMAIN writes = 1..n
      /\ Tail(writes) \in Seq(Write) /\ Len(Tail(writes)) = n - 1
      /\ \A i \in 1..(n - 1) : Tail(writes)[i] = writes[i+1]
  BY HeadTailProperties, LenProperties, EmptySeq
<1>2. DOMAIN Tail(writes) = 1..(n - 1)
  BY <1>1, LenProperties
<1> HIDE DEF n
<1>3. PICK i \in 1..n : Apply(writes[i], viewed) # viewed
  BY <1>1 DEF Changing
<1>4. i # 1
  BY <1>1, <1>3
<1>5. i - 1 \in 1..(n - 1) /\ (i - 1) + 1 = i
  BY <1>1, <1>4
<1>6. Tail(writes)[i - 1] = writes[i]
  BY <1>1, <1>5
<1> QED BY <1>2, <1>3, <1>5, <1>6 DEF Changing

\* cancelMealRequest first takes the request back.
LEMMA CancelStarts ==
  ASSUME NEW me \in Users, NEW ps \in Seq(Users)
  PROVE  /\ CancelMealRequest(me, ps) \in Seq(Write)
         /\ Len(CancelMealRequest(me, ps)) > 0
         /\ CancelMealRequest(me, ps)[1] = SetRequest(me, NoHall, FALSE)
<1> DEFINE w == SetRequest(me, NoHall, FALSE)
           unpair == IF ps = <<>> THEN <<>>
                     ELSE <<DropPairing(Head(ps), me), DropPairing(me, Head(ps))>>
           last == <<SetRequesting(me, FALSE)>>
<1>1. w \in Write
  BY DEF SetRequest, Write
<1>2. last \in Seq(Write)
  BY TuplesAreSequences DEF SetRequesting, Write
<1>3. unpair \in Seq(Write)
  <2>1. CASE ps = <<>>
    BY <2>1
  <2>2. CASE ps # <<>>
    <3>1. Head(ps) \in Users
      BY <2>2, HeadTailProperties
    <3> QED BY <2>2, <3>1, TuplesAreSequences DEF DropPairing, Write
  <2> QED BY <2>1, <2>2
<1>4. CancelMealRequest(me, ps) = (<<w>> \o unpair) \o last
  BY DEF CancelMealRequest
<1> HIDE DEF w, unpair, last
<1>5. <<w>> \in Seq(Write) /\ Len(<<w>>) = 1 /\ <<w>>[1] = w
  BY <1>1
<1>6. /\ <<w>> \o unpair \in Seq(Write) /\ Len(<<w>> \o unpair) >= 1
      /\ (<<w>> \o unpair)[1] = w
  BY <1>3, <1>5, ConcatProperties, LenProperties
<1>7. /\ (<<w>> \o unpair) \o last \in Seq(Write) /\ Len((<<w>> \o unpair) \o last) >= 1
      /\ ((<<w>> \o unpair) \o last)[1] = w
  BY <1>2, <1>6, ConcatProperties, LenProperties
<1>8. CancelMealRequest(me, ps) \in Seq(Write) /\ Len(CancelMealRequest(me, ps)) > 0
  BY <1>4, <1>7, LenProperties
<1> QED BY <1>4, <1>7, <1>8 DEF w

----------------------------------------------------------------------------
(* The steps.                                                              *)

\* A step of one phone.
LEMMA ScreenStep ==
  ASSUME ScreenInv, NEW d \in Devices,
         \A e \in Devices \ {d} : /\ view'[e] = view[e] /\ events'[e] = events[e]
                                  /\ users'[e] = users[e] /\ session'[e] = session[e]
                                  /\ running'[e] = running[e] /\ calls'[e] = calls[e],
         session'[d] # Nil \/ Fetched(events'[d]) => view'[d][Owner[d]] # Nil,
         ~running'[d] => users'[d] = NoDocs /\ session'[d] = Nil,
         running'[d] => CatchesUp(events'[d], users'[d], view'[d], Owner[d]),
         events'[d] = <<>> /\ session'[d] # Nil =>
           \/ session'[d] = SessionOf(view'[d][Owner[d]])
           \/ Changing(calls'[d], view'[d])
  PROVE  ScreenInv'
<1> SUFFICES ASSUME NEW e \in Devices
             PROVE  /\ session'[e] # Nil \/ Fetched(events'[e]) => view'[e][Owner[e]] # Nil
                    /\ ~running'[e] => users'[e] = NoDocs /\ session'[e] = Nil
                    /\ running'[e] => CatchesUp(events'[e], users'[e], view'[e], Owner[e])
                    /\ events'[e] = <<>> /\ session'[e] # Nil =>
                         \/ session'[e] = SessionOf(view'[e][Owner[e]])
                         \/ Changing(calls'[e], view'[e])
  BY DEF ScreenInv, Fetched, CatchesUp, Changing, SessionOf, NoDocs, Apply, Patched
<1>1. CASE e = d
  BY <1>1
<1>2. CASE e # d
  BY <1>2 DEF ScreenInv
<1> QED BY <1>1, <1>2

\* Every step keeps the screen and the view together.
LEMMA NextScreen == TypeInv /\ ScreenInv /\ [Next]_vars => ScreenInv'
<1> SUFFICES ASSUME TypeInv, ScreenInv, [Next]_vars PROVE ScreenInv'
  OBVIOUS
<1>t. /\ events \in [Devices -> Seq(Event)] /\ view \in [Devices -> [Users -> MaybeDoc]]
      /\ users \in [Devices -> [Users -> MaybeDoc]] /\ session \in [Devices -> Session \cup {Nil}]
      /\ calls \in [Devices -> Seq(Write)] /\ running \in [Devices -> BOOLEAN]
  BY DEF TypeInv, TypeOK
<1>0. ASSUME NEW d \in Devices
      PROVE  /\ Owner[d] \in Users
             /\ events[d] \in Seq(Event) /\ events[d] \in Seq(EventOf(d))
             /\ view[d] \in [Users -> MaybeDoc]
             /\ session[d] # Nil \/ Fetched(events[d]) => view[d][Owner[d]] # Nil
             /\ ~running[d] => users[d] = NoDocs /\ session[d] = Nil
             /\ running[d] => CatchesUp(events[d], users[d], view[d], Owner[d])
             /\ events[d] = <<>> /\ session[d] # Nil =>
                  \/ session[d] = SessionOf(view[d][Owner[d]])
                  \/ Changing(calls[d], view[d])
  BY <1>t, PhonesAssumption DEF TypeInv, FetchedDocuments, ScreenInv
<1>o. ASSUME NEW d \in Devices PROVE Owner[d] \in Users /\ view[d] \in [Users -> MaybeDoc]
  BY <1>0
<1>c. ASSUME NEW x \in [Users -> MaybeDoc]
      PROVE  UsersEvent(x) \in Event /\ UsersEvent(x).kind # "session"
  BY DEF UsersEvent, Event
<1>d. ASSUME NEW u \in Users, NEW doc \in Doc
      PROVE  /\ SessionEvent(u, doc) \in Event /\ SessionEvent(u, doc).kind = "session"
             /\ SessionEvent(u, doc).docs[u] = doc
  BY <1>d DEF SessionEvent, Event, NoDocs, MaybeDoc
<1>e. Fetched(<<>>) = FALSE
  BY DEF Fetched
<1>f. ASSUME NEW w \in Write, NEW x \in [Users -> MaybeDoc], NEW u \in Users, x[u] # Nil
      PROVE  Apply(w, x)[u] # Nil
  <2>1. w.uid \in Users
    BY DEF Write
  <2>2. Patched(x[u], w) # Nil
    BY <1>f, PatchedType, NilIsNoDocument DEF MaybeDoc
  <2> QED BY <1>f, <2>1, <2>2 DEF Apply
\* A step that leaves the callbacks and what they fill alone.
<1>1. ASSUME UNCHANGED <<view, events, users, session, running, calls>> PROVE ScreenInv'
  <2> SUFFICES ASSUME NEW d \in Devices
               PROVE  /\ session'[d] # Nil \/ Fetched(events'[d]) => view'[d][Owner[d]] # Nil
                      /\ ~running'[d] => users'[d] = NoDocs /\ session'[d] = Nil
                      /\ running'[d] => CatchesUp(events'[d], users'[d], view'[d], Owner[d])
                      /\ events'[d] = <<>> /\ session'[d] # Nil =>
                           \/ session'[d] = SessionOf(view'[d][Owner[d]])
                           \/ Changing(calls'[d], view'[d])
    BY DEF ScreenInv, Fetched, CatchesUp, Changing, SessionOf, NoDocs, Apply, Patched
  <2> QED BY <1>1 DEF ScreenInv
<1>2. ASSUME NEW d \in Devices,
             \/ Commit(d) \/ CommitUnheard(d) \/ Reconnect(d)
             \/ (\E uid \in Users : OpenPairUp(d, uid)) \/ ShowPairing(d) \/ GoBack(d)
      PROVE  ScreenInv'
  <2>1. UNCHANGED <<view, events, users, session, running, calls>>
    BY <1>2 DEF Commit, CommitUnheard, Reconnect, OpenPairUp, ShowPairing, GoBack, disk, memory
  <2> QED BY <1>1, <2>1
<1>3. ASSUME NEW d \in Devices, Launch(d) PROVE ScreenInv'
  <2> DEFINE es == FirstSnapshot(d)
  <2>1. /\ UNCHANGED <<view, users, session, calls>>
        /\ events' = [events EXCEPT ![d] = es] /\ running' = [running EXCEPT ![d] = TRUE]
    BY <1>3 DEF Launch, disk
  <2>2. users[d] = NoDocs /\ session[d] = Nil
    BY <1>0, <1>3 DEF Launch
  <2>3. CatchesUp(es, users[d], view[d], Owner[d]) /\ ~Fetched(es)
    <3>1. CASE view[d] = NoDocs
      <4>1. es = <<>>
        BY <3>1 DEF FirstSnapshot
      <4> QED BY <1>e, <2>2, <3>1, <4>1 DEF CatchesUp
    <3>2. CASE view[d] # NoDocs
      <4>1. es = Append(<<>>, UsersEvent(view[d])) /\ <<>> \in Seq(Event)
        BY <3>2 DEF FirstSnapshot
      <4> HIDE DEF es
      <4>2. CatchesUp(Append(<<>>, UsersEvent(view[d])), users[d], view[d], Owner[d])
        BY <1>0, <4>1, SnapshotCatchesUp
      <4>3. ~Fetched(Append(<<>>, UsersEvent(view[d])))
        <5>1. UsersEvent(view[d]) \in Event /\ UsersEvent(view[d]).kind # "session"
          BY <1>c, <1>o
        <5> QED BY <1>e, <4>1, <5>1, AppendedEvent
      <4> QED BY <4>1, <4>2, <4>3
    <3> QED BY <3>1, <3>2
  <2> HIDE DEF es
  <2>4. events'[d] = es /\ running'[d] = TRUE /\ session'[d] = Nil
    BY <1>t, <2>1, <2>2
  <2> QED BY <1>t, <2>1, <2>3, <2>4, ScreenStep
<1>4. ASSUME NEW d \in Devices, Die(d) PROVE ScreenInv'
  <2>1. /\ view' = view /\ events' = [events EXCEPT ![d] = <<>>]
        /\ users' = [users EXCEPT ![d] = NoDocs] /\ session' = [session EXCEPT ![d] = Nil]
        /\ running' = [running EXCEPT ![d] = FALSE] /\ calls' = [calls EXCEPT ![d] = <<>>]
    BY <1>4 DEF Die, disk
  <2>2. events'[d] = <<>> /\ users'[d] = NoDocs /\ session'[d] = Nil /\ running'[d] = FALSE
    BY <1>t, <2>1
  <2> QED BY <1>e, <1>t, <2>1, <2>2, ScreenStep
<1>5. ASSUME NEW d \in Devices, Persist(d) PROVE ScreenInv'
  <2> DEFINE w == Head(calls[d])
             newView == Apply(w, view[d])
             es == EventsAfter(d, newView)
  <2>1. /\ running[d] /\ calls[d] # <<>> /\ w \in Write /\ calls[d] \in Seq(Write)
        /\ UNCHANGED <<users, session, running>>
        /\ calls' = [calls EXCEPT ![d] = Tail(calls[d])]
        /\ view' = [view EXCEPT ![d] = newView] /\ events' = [events EXCEPT ![d] = es]
    BY <1>5, <1>t, HeadTailProperties DEF Persist
  <2>2. newView \in [Users -> MaybeDoc]
    BY <1>0, <2>1, ApplyType
  <2>3. view[d][Owner[d]] # Nil => newView[Owner[d]] # Nil
    BY <1>f, <1>o, <2>1
  <2>4. CASE newView = view[d]
    <3>1. es = events[d]
      BY <2>4 DEF EventsAfter
    <3>2. Changing(calls[d], view[d]) => Changing(Tail(calls[d]), view[d])
      BY <2>1, <2>4, ChangingServed
    <3>3. /\ view'[d] = view[d] /\ events'[d] = events[d] /\ users'[d] = users[d]
          /\ session'[d] = session[d] /\ running'[d] = running[d] /\ calls'[d] = Tail(calls[d])
      BY <1>t, <2>1, <2>4, <3>1
    <3>4. \A e \in Devices \ {d} :
            /\ view'[e] = view[e] /\ events'[e] = events[e] /\ users'[e] = users[e]
            /\ session'[e] = session[e] /\ running'[e] = running[e] /\ calls'[e] = calls[e]
      BY <1>t, <2>1
    <3> HIDE DEF newView, es
    <3> QED BY <1>0, <3>2, <3>3, <3>4, ScreenStep
  <2>5. CASE newView # view[d]
    <3> HIDE DEF newView
    <3>1. es = Append(events[d], UsersEvent(newView))
      BY <2>5 DEF EventsAfter
    <3> HIDE DEF es
    <3>2. CatchesUp(es, users[d], newView, Owner[d])
      BY <1>0, <2>2, <3>1, SnapshotCatchesUp
    <3>3. es # <<>> /\ (Fetched(es) => Fetched(events[d]))
      BY <1>0, <1>c, <2>2, <3>1, AppendedEvent
    <3>4. /\ view'[d] = newView /\ events'[d] = es /\ users'[d] = users[d]
          /\ session'[d] = session[d] /\ running'[d] = running[d]
      BY <1>t, <2>1
    <3> QED BY <1>0, <1>t, <2>1, <2>3, <3>2, <3>3, <3>4, ScreenStep
  <2> QED BY <2>4, <2>5
\* The view becomes x and its snapshot is the last callback; u's document is there.
<1>w. ASSUME NEW d \in Devices, NEW x \in [Users -> MaybeDoc], x[Owner[d]] # Nil,
             NEW before \in Seq(Event), running[d],
             view' = [view EXCEPT ![d] = x],
             events' = [events EXCEPT ![d] = Append(before, UsersEvent(x))],
             UNCHANGED <<users, session, running, calls>>
      PROVE  ScreenInv'
  <2>1. view'[d] = x /\ events'[d] = Append(before, UsersEvent(x))
    BY <1>t, <1>w
  <2>2. CatchesUp(Append(before, UsersEvent(x)), users[d], x, Owner[d])
    BY <1>w, SnapshotCatchesUp
  <2>3. Append(before, UsersEvent(x)) # <<>>
    BY <1>c, <1>w, AppendedEvent
  <2> QED BY <1>t, <1>w, <2>1, <2>2, <2>3, ScreenStep
\* The view becomes x and the account's document in it is the last callback.
<1>s. ASSUME NEW d \in Devices, NEW x \in [Users -> MaybeDoc], x[Owner[d]] \in Doc,
             NEW before \in Seq(Event), CatchesUp(before, users[d], x, Owner[d]), running[d],
             view' = [view EXCEPT ![d] = x],
             events' = [events EXCEPT ![d] = Append(before, SessionEvent(Owner[d], x[Owner[d]]))],
             UNCHANGED <<users, session, running, calls>>
      PROVE  ScreenInv'
  <2> DEFINE e == SessionEvent(Owner[d], x[Owner[d]])
  <2>1. e \in Event /\ e.kind = "session" /\ e.docs[Owner[d]] = x[Owner[d]]
    BY <1>0, <1>d, <1>s
  <2>2. view'[d] = x /\ events'[d] = Append(before, e)
    BY <1>t, <1>s
  <2> HIDE DEF e
  <2>3. CatchesUp(Append(before, e), users[d], x, Owner[d])
    BY <1>s, <2>1, DocumentCatchesUp
  <2>4. Append(before, e) # <<>> /\ x[Owner[d]] # Nil
    BY <1>s, <2>1, AppendedEvent, NilIsNoDocument
  <2> QED BY <1>t, <1>s, <2>2, <2>3, <2>4, ScreenStep
<1>6. ASSUME NEW d \in Devices, Watch(d) PROVE ScreenInv'
  <2> DEFINE newView == Overlay(queue[d], docs)
  <2>1. newView \in [Users -> Doc]
    BY OverlayType DEF TypeInv, TypeOK
  <2>2. /\ running[d] /\ UNCHANGED <<users, session, running, calls>>
        /\ view' = [view EXCEPT ![d] = newView]
        /\ events' = [events EXCEPT ![d] = Append(events[d], UsersEvent(newView))]
    BY <1>6 DEF Watch
  <2> HIDE DEF newView
  <2>3. newView \in [Users -> MaybeDoc] /\ newView[Owner[d]] # Nil
    BY <1>0, <2>1, NilIsNoDocument DEF MaybeDoc
  <2> QED BY <1>0, <1>w, <2>2, <2>3
<1>7. ASSUME NEW d \in Devices, FetchDocument(d) PROVE ScreenInv'
  <2> DEFINE doc == OwnDocument(d)
             newView == [view[d] EXCEPT ![Owner[d]] = doc]
             snapshots == IF newView = view[d] THEN <<>> ELSE <<UsersEvent(newView)>>
             loaded == SessionEvent(Owner[d], doc)
  <2>1. doc \in Doc
    <3>1. Overlay(queue[d], docs) \in [Users -> Doc]
      BY OverlayType DEF TypeInv, TypeOK
    <3> QED BY <1>0, <3>1 DEF OwnDocument
  <2>2. /\ running[d] /\ UNCHANGED <<users, session, running, calls>>
        /\ view' = [view EXCEPT ![d] = newView]
        /\ \/ events' = [events EXCEPT ![d] = (events[d] \o snapshots) \o <<loaded>>]
           \/ events' = [events EXCEPT ![d] = (events[d] \o <<loaded>>) \o snapshots]
    BY <1>7 DEF FetchDocument, screen
  <2> HIDE DEF doc
  <2>3. newView \in [Users -> MaybeDoc] /\ newView[Owner[d]] = doc
    BY <1>0, <2>1 DEF MaybeDoc
  <2>4. loaded \in Event /\ loaded = SessionEvent(Owner[d], newView[Owner[d]])
    BY <1>0, <1>d, <2>1, <2>3
  <2> HIDE DEF loaded
  <2>5. \A es \in Seq(Event) : es \o <<loaded>> = Append(es, loaded) /\ Append(es, loaded) \in Seq(Event)
    BY <2>4, AppendProperties
  <2>6. CASE newView = view[d]
    <3>1. snapshots = <<>>
      BY <2>6
    <3> HIDE DEF snapshots
    <3>e. \A es \in Seq(Event) : es \o <<>> = es
      OBVIOUS
    <3>2. /\ events[d] \o snapshots = events[d]
          /\ (events[d] \o <<loaded>>) \o snapshots = events[d] \o <<loaded>>
      BY <1>0, <2>5, <3>1, <3>e
    <3>3. events' = [events EXCEPT ![d] = Append(events[d], loaded)]
      BY <1>0, <2>2, <2>5, <3>2
    <3>4. CatchesUp(events[d], users[d], newView, Owner[d])
      BY <1>0, <2>2, <2>6
    <3> HIDE DEF newView, snapshots
    <3> QED BY <1>0, <1>s, <2>1, <2>2, <2>3, <2>4, <3>3, <3>4
  <2>7. CASE newView # view[d]
    <3>1. snapshots = <<UsersEvent(newView)>>
      BY <2>7
    <3> HIDE DEF newView, snapshots
    <3>2. \A es \in Seq(Event) : /\ es \o snapshots = Append(es, UsersEvent(newView))
                                 /\ Append(es, UsersEvent(newView)) \in Seq(Event)
      BY <1>c, <2>3, <3>1, AppendProperties
    <3>3. CASE events' = [events EXCEPT ![d] = (events[d] \o snapshots) \o <<loaded>>]
      <4> DEFINE before == Append(events[d], UsersEvent(newView))
      <4>1. before \in Seq(Event) /\ events' = [events EXCEPT ![d] = Append(before, loaded)]
        BY <1>0, <2>5, <3>2, <3>3
      <4>2. CatchesUp(before, users[d], newView, Owner[d])
        BY <1>0, <2>3, SnapshotCatchesUp
      <4> HIDE DEF before
      <4> QED BY <1>s, <2>1, <2>2, <2>3, <2>4, <4>1, <4>2
    <3>4. CASE events' = [events EXCEPT ![d] = (events[d] \o <<loaded>>) \o snapshots]
      <4> DEFINE before == Append(events[d], loaded)
      <4>1. /\ before \in Seq(Event)
            /\ events' = [events EXCEPT ![d] = Append(before, UsersEvent(newView))]
        BY <1>0, <2>5, <3>2, <3>4
      <4>2. newView[Owner[d]] # Nil
        BY <2>1, <2>3, NilIsNoDocument
      <4> HIDE DEF before
      <4> QED BY <1>w, <2>2, <2>3, <4>1, <4>2
    <3> QED BY <2>2, <3>3, <3>4
  <2> QED BY <2>6, <2>7
<1>8. ASSUME NEW d \in Devices, FetchOffline(d) PROVE ScreenInv'
  <2>1. running[d] /\ UNCHANGED <<view, users, session, running, calls>>
    BY <1>8 DEF FetchOffline, disk, screen
  <2>2. CASE view[d][Owner[d]] = Nil
    <3>1. events' = events
      BY <1>8, <1>t, <2>2 DEF FetchOffline
    <3> QED BY <1>1, <2>1, <3>1
  <2>3. CASE view[d][Owner[d]] # Nil
    <3>1. view[d][Owner[d]] \in Doc /\ view' = [view EXCEPT ![d] = view[d]]
      BY <1>0, <1>t, <2>1, <2>3 DEF MaybeDoc
    <3>2. events' = [events EXCEPT ![d] = Append(events[d], SessionEvent(Owner[d], view[d][Owner[d]]))]
      BY <1>8, <2>3 DEF FetchOffline
    <3> QED BY <1>0, <1>s, <2>1, <3>1, <3>2
  <2> QED BY <2>2, <2>3
<1>9. ASSUME NEW d \in Devices, DeliverUsers(d) PROVE ScreenInv'
  <2> DEFINE e == Head(events[d])
             u == Owner[d]
  <2>1. /\ running[d] /\ events[d] # <<>> /\ e.kind = "users" /\ UNCHANGED <<view, running, calls>>
        /\ events' = [events EXCEPT ![d] = Tail(events[d])]
        /\ users' = [users EXCEPT ![d] = e.docs]
        /\ session' = [session EXCEPT ![d] = Refreshed(d, e.docs)]
    BY <1>9 DEF DeliverUsers, Responsive, disk
  <2>2. /\ CatchesUp(Tail(events[d]), e.docs, view[d], u)
        /\ Tail(events[d]) = <<>> => e.docs[u] = view[d][u]
    <3>1. (IF e.kind = "users" THEN e.docs ELSE users[d]) = e.docs
      BY <2>1
    <3>2. CatchesUp(events[d], users[d], view[d], u) /\ events[d] \in Seq(Event) /\ events[d] # <<>>
      BY <1>0, <2>1
    <3>3. /\ CatchesUp(Tail(events[d]), IF e.kind = "users" THEN e.docs ELSE users[d], view[d], u)
          /\ Tail(events[d]) = <<>> => e.docs[u] = view[d][u]
      BY <3>2, ServingCatchesUp
    <3> QED BY <3>1, <3>3
  <2>3. Fetched(Tail(events[d])) => Fetched(events[d])
    BY <1>0, <2>1, ServedEvent
  <2> HIDE DEF e, u
  <2>4. /\ events'[d] = Tail(events[d]) /\ users'[d] = e.docs /\ view'[d] = view[d]
        /\ session'[d] = Refreshed(d, e.docs) /\ running'[d] = running[d]
    BY <1>t, <2>1
  <2>5. session'[d] # Nil => session[d] # Nil
    BY <2>4 DEF Refreshed
  <2>6. Tail(events[d]) = <<>> /\ session'[d] # Nil => session'[d] = SessionOf(view[d][u])
    BY <1>0, <2>2, <2>4, <2>5 DEF Refreshed, u
  <2>7. view[d][Owner[d]] = view[d][u] /\ CatchesUp(Tail(events[d]), e.docs, view[d], Owner[d])
    BY <2>2 DEF u
  <2> QED BY <1>0, <1>t, <2>1, <2>3, <2>4, <2>5, <2>6, <2>7, ScreenStep
<1>10. ASSUME NEW d \in Devices, DeliverSession(d) PROVE ScreenInv'
  <2> DEFINE e == Head(events[d])
             doc == e.docs[Owner[d]]
  <2>1. /\ running[d] /\ events[d] # <<>> /\ e.kind = "session"
        /\ UNCHANGED <<view, users, running, calls>>
        /\ events' = [events EXCEPT ![d] = Tail(events[d])]
        /\ session' = [session EXCEPT ![d] = SessionOf(doc)]
    BY <1>10 DEF DeliverSession, Responsive, disk
  <2>2. e.kind # "users"
    BY <2>1
  <2>3. /\ CatchesUp(Tail(events[d]), users[d], view[d], Owner[d])
        /\ Tail(events[d]) = <<>> => doc = view[d][Owner[d]]
    BY <1>0, <2>1, <2>2, ServingCatchesUp
  <2>4. Fetched(events[d])
    BY <1>0, <2>1, ServedEvent
  <2> HIDE DEF e, doc
  <2>5. /\ events'[d] = Tail(events[d]) /\ users'[d] = users[d] /\ view'[d] = view[d]
        /\ session'[d] = SessionOf(doc) /\ running'[d] = running[d]
    BY <1>t, <2>1
  <2> QED BY <1>0, <1>t, <2>1, <2>3, <2>4, <2>5, ScreenStep
\* A tap that edits the session and sends writes, the first of which changes the view if
\* the session is the account's document.
<1>p. ASSUME NEW d \in Devices, NEW writes \in Seq(Write), NEW edited, session[d] # Nil, running[d],
             Dispatch(d, writes), session' = [session EXCEPT ![d] = edited],
             session[d] = SessionOf(view[d][Owner[d]]) => Changing(writes, view[d]),
             UNCHANGED <<view, events, users, running>>
      PROVE  ScreenInv'
  <2>1. calls' = [calls EXCEPT ![d] = calls[d] \o writes]
    BY <1>p DEF Dispatch
  <2>2. calls[d] \in Seq(Write) /\ calls'[d] = calls[d] \o writes
    BY <1>t, <2>1
  <2>3. Changing(calls[d], view[d]) \/ Changing(writes, view[d]) => Changing(calls'[d], view[d])
    BY <1>p, <2>2, ChangingGrows
  <2> QED BY <1>0, <1>p, <1>t, <2>1, <2>3, ScreenStep
<1>q. ASSUME NEW d \in Devices, session[d] # Nil, session[d] = SessionOf(view[d][Owner[d]])
      PROVE  /\ view[d][Owner[d]] \in Doc
             /\ view[d][Owner[d]].diningHall = session[d].diningHall
             /\ view[d][Owner[d]].pairings = session[d].pairings
             /\ session[d].pairings \in Seq(Users)
  BY <1>0, <1>q, SessionEditType DEF MaybeDoc, SessionOf
<1>11. ASSUME NEW d \in Devices, NEW hall \in Halls, MakeRequest(d, hall) PROVE ScreenInv'
  <2> DEFINE w == SetRequest(Owner[d], hall, TRUE)
  <2>1. /\ running[d] /\ session[d] # Nil /\ session[d].diningHall = NoHall
        /\ Dispatch(d, <<w>>) /\ UNCHANGED <<view, events, users, running>>
        /\ session' = [session EXCEPT ![d] = [session[d] EXCEPT !.diningHall = hall]]
    BY <1>11 DEF MakeRequest, OnFreshmanView, LoggedIn, Responsive, disk
  <2>2. <<w>> \in Seq(Write)
    BY <1>0, WritesType
  <2>3. session[d] = SessionOf(view[d][Owner[d]]) => Apply(w, view[d]) # view[d]
    BY <1>0, <1>q, <2>1, TapsChange, HallsAssumption
  <2> HIDE DEF w
  <2>4. session[d] = SessionOf(view[d][Owner[d]]) => Changing(<<w>>, view[d])
    BY <2>3 DEF Changing
  <2> QED BY <1>p, <2>1, <2>2, <2>4
<1>12. ASSUME NEW d \in Devices, CancelRequest(d) PROVE ScreenInv'
  <2> DEFINE w == SetRequest(Owner[d], NoHall, FALSE)
             writes == CancelMealRequest(Owner[d], session[d].pairings)
  <2>1. /\ running[d] /\ session[d] # Nil /\ session[d].diningHall # NoHall
        /\ Dispatch(d, writes) /\ UNCHANGED <<view, events, users, running>>
        /\ session' = [session EXCEPT ![d] = [session[d] EXCEPT !.diningHall = NoHall]]
    BY <1>12 DEF CancelRequest, OnFreshmanView, LoggedIn, Responsive, disk
  <2>2. writes \in Seq(Write) /\ Len(writes) > 0 /\ writes[1] = w
    BY <1>0, <2>1, SessionEditType, CancelStarts
  <2>3. session[d] = SessionOf(view[d][Owner[d]]) => Apply(w, view[d]) # view[d]
    BY <1>0, <1>q, <2>1, TapsChange
  <2> HIDE DEF w, writes
  <2>4. session[d] = SessionOf(view[d][Owner[d]]) => Changing(writes, view[d])
    <3>1. 1 \in DOMAIN writes
      BY <2>2, LenProperties
    <3> QED BY <2>2, <2>3, <3>1 DEF Changing
  <2> QED BY <1>p, <2>1, <2>2, <2>4
<1>13. ASSUME NEW d \in Devices, Pair(d) PROVE ScreenInv'
  <2>1. PICK row \in pairUp[d] :
          /\ LoggedIn(d) /\ ~Paired(d) /\ Dispatch(d, CreatePairing(Owner[d], row))
          /\ session' = [session EXCEPT ![d] =
               [session[d] EXCEPT !.pairings = Append(session[d].pairings, row.uid)]]
          /\ UNCHANGED <<view, events, users, running>>
    BY <1>13 DEF Pair, disk
  <2>2. running[d] /\ session[d] # Nil /\ session[d].pairings = <<>>
    BY <2>1 DEF LoggedIn, Responsive, Paired
  <2>3. row \in Row /\ row.uid \in Users /\ row.diningHall \in Halls \cup {NoHall}
    BY DEF TypeInv, TypeOK, Row
  <2>4. CreatePairing(Owner[d], row) \in Seq(Write)
    BY <1>0, <2>3, WritesType
  <2>5. session[d] = SessionOf(view[d][Owner[d]]) =>
          Apply(PairWith(Owner[d], row.uid, row.diningHall), view[d]) # view[d]
    BY <1>0, <1>q, <2>2, <2>3, TapsChange
  <2>6. session[d] = SessionOf(view[d][Owner[d]]) => Changing(CreatePairing(Owner[d], row), view[d])
    BY <2>5 DEF Changing, CreatePairing
  <2> DEFINE writes == CreatePairing(Owner[d], row)
             edited == [session[d] EXCEPT !.pairings = Append(session[d].pairings, row.uid)]
  <2> HIDE DEF writes, edited
  <2>7. /\ Dispatch(d, writes) /\ writes \in Seq(Write)
        /\ session' = [session EXCEPT ![d] = edited]
        /\ session[d] = SessionOf(view[d][Owner[d]]) => Changing(writes, view[d])
    BY <2>1, <2>4, <2>6 DEF writes, edited
  <2> QED BY <1>p, <2>1, <2>2, <2>7
<1>14. ASSUME NEW d \in Devices, Cancel(d) PROVE ScreenInv'
  <2> DEFINE partner == Head(session[d].pairings)
             w == DropPairing(Owner[d], partner)
             writes == RemovePairing(Owner[d], partner)
             edited == [session[d] EXCEPT !.pairings = Tail(session[d].pairings)]
  <2>1. /\ running[d] /\ session[d] # Nil /\ session[d].pairings # <<>> /\ Dispatch(d, writes)
        /\ session' = [session EXCEPT ![d] = edited]
        /\ UNCHANGED <<view, events, users, running>>
    BY <1>14 DEF Cancel, LoggedIn, Responsive, Paired, disk
  <2>2. partner \in Users /\ partner \in ToSet(session[d].pairings)
    <3> DEFINE ps == session[d].pairings
    <3>1. ps \in Seq(Users) /\ ps # <<>>
      BY <2>1, SessionEditType
    <3> HIDE DEF ps
    <3>2. Head(ps) = ps[1] /\ Head(ps) \in Users /\ 1 \in DOMAIN ps
      BY <3>1, HeadTailProperties, LenProperties, EmptySeq
    <3>3. Head(ps) \in ToSet(ps)
      BY <3>2 DEF ToSet
    <3> QED BY <3>2, <3>3 DEF ps
  <2> HIDE DEF partner
  <2>3. writes \in Seq(Write)
    BY <1>0, <2>2, WritesType
  <2>4. session[d] = SessionOf(view[d][Owner[d]]) => Apply(w, view[d]) # view[d]
    BY <1>0, <1>q, <2>1, <2>2, TapsChange
  <2>5. session[d] = SessionOf(view[d][Owner[d]]) => Changing(writes, view[d])
    BY <2>4 DEF Changing, RemovePairing
  <2> HIDE DEF writes, edited
  <2> QED BY <1>p, <2>1, <2>3, <2>5
<1>15. CASE UNCHANGED vars
  BY <1>1, <1>15 DEF vars, disk, memory
<1> QED
  BY <1>2, <1>3, <1>4, <1>5, <1>6, <1>7, <1>8, <1>9, <1>10, <1>11, <1>12, <1>13, <1>14, <1>15
     DEF Next, Tap, Fetch, Deliver

\* The invariant of the screens holds always.
LEMMA ScreenInvariance == Spec => []ScreenInv
<1>1. Init => ScreenInv
  <2> SUFFICES ASSUME Init PROVE ScreenInv
    OBVIOUS
  <2>1. /\ users = view /\ events = [d \in Devices |-> <<>>]
        /\ docs = [u \in Users |-> NewDoc]
        /\ view = [d \in Devices |-> IF d \in Started THEN docs ELSE NoDocs]
        /\ running = [d \in Devices |-> d \in Started]
        /\ session = [d \in Devices |-> IF d \in Started THEN SessionOf(NewDoc) ELSE Nil]
    BY DEF Init
  <2>2. NewDoc # Nil
    <3>1. NewDoc \in Doc
      BY DEF NewDoc, Doc
    <3> QED BY <3>1, NilIsNoDocument
  <2>3. ASSUME NEW d \in Devices, d \in Started
        PROVE  view[d][Owner[d]] = NewDoc
    BY <2>1, <2>3, PhonesAssumption
  <2>4. ASSUME NEW d \in Devices PROVE ~Fetched(events[d])
    BY <2>1 DEF Fetched
  <2>5. ASSUME NEW d \in Devices PROVE CatchesUp(events[d], users[d], view[d], Owner[d])
    BY <2>1 DEF CatchesUp
  <2> QED BY <2>1, <2>2, <2>3, <2>4, <2>5 DEF ScreenInv
<1> QED BY <1>1, NextScreen, TypeInvariance, PTL DEF Spec

\* Whatever the order of taps, snapshots and fetched documents, a phone with nothing on
\* its way shows its local view: the users of the list, and the account's own session.
THEOREM SessionsMatchViews == Spec => []SessionMatchesView
<1>1. ScreenInv => SessionMatchesView
  <2> SUFFICES ASSUME ScreenInv, NEW d \in Devices, running[d], calls[d] = <<>>, events[d] = <<>>
               PROVE  /\ users[d] = view[d]
                      /\ session[d] # Nil => session[d] = SessionOf(view[d][Owner[d]])
    BY DEF SessionMatchesView, Idle
  <2>1. users[d] = view[d]
    BY DEF ScreenInv, CatchesUp
  <2>2. ~Changing(calls[d], view[d])
    BY DEF Changing
  <2> QED BY <2>1, <2>2 DEF ScreenInv
<1> QED BY <1>1, ScreenInvariance, PTL

=============================================================================
