---------------------------- MODULE Pairings_proofs ----------------------------
(***************************************************************************)
(* The exchange implements Pairings: every step of the phones, the queues  *)
(* and the server is one request, one pairing made or called off for both  *)
(* sides, or nothing. The abstract pairings are the halves that the writes *)
(* of the givers' phones come to (SharedPairings); they change with a tap, *)
(* and not when a write travels. That a pairing is with a freshman who has *)
(* asked needs an invariant: a freshman who has not is nowhere listed      *)
(* (AskedInv).                                                             *)
(***************************************************************************)
EXTENDS Halves_proofs

----------------------------------------------------------------------------
(* Nobody takes a request that was not made.                               *)

\* Collections in which f is nobody's partner and not in the list of requests.
Without(f) ==
  {x \in [Users -> MaybeDoc] :
     /\ \A u \in Users : x[u] # Nil => f \notin ToSet(x[u].pairings)
     /\ x[f] # Nil => ~x[f].currentlyRequesting}

\* Writes of a phone that pair nobody with f, and list f with a request of the own alone.
WithoutWrite(f, d) ==
  {w \in Write :
     /\ f \notin w.arrayUnion
     /\ w.uid = f /\ TRUE \in w.currentlyRequesting =>
          IsFreshman(d) /\ w.diningHall # {} /\ w.diningHall \subseteq Halls}

\* What the phones of givers know, and what those of freshmen know: the one of f may have
\* listed f already.
WithoutKnown(f, d) == IF IsFreshman(d) THEN [Users -> MaybeDoc] ELSE Without(f)
WithoutPairings(f, d) == {ps \in Seq(Users) : IsFreshman(d) \/ f \notin ToSet(ps)}

Unasked(f) ==
  Carried(Without(f), [d \in Devices |-> WithoutKnown(f, d)], [d \in Devices |-> WithoutWrite(f, d)],
          [d \in Devices |-> WithoutPairings(f, d)], Users \ {f})

AskedInv == \A f \in Freshmen : docs[f].diningHall = NoHall => Unasked(f)

\* A write that does not list f.
LEMMA WithoutKept ==
  ASSUME NEW f \in Users, NEW w \in Write, f \notin w.arrayUnion,
         ~(w.uid = f /\ TRUE \in w.currentlyRequesting), NEW x \in Without(f)
  PROVE  Apply(w, x) \in Without(f)
<1>0. /\ w.uid \in Users /\ x \in [Users -> MaybeDoc]
      /\ w.arrayUnion \in SUBSET Users /\ w.arrayRemove \in SUBSET Users
      /\ w.currentlyRequesting \in SUBSET BOOLEAN
  BY DEF Write, Without
<1>1. Apply(w, x) \in [Users -> MaybeDoc]
  BY <1>0, ApplyType
<1>2. ASSUME NEW u \in Users, Apply(w, x)[u] # Nil
      PROVE  /\ f \notin ToSet(Apply(w, x)[u].pairings)
             /\ u = f => ~Apply(w, x)[u].currentlyRequesting
  <2>1. CASE u # w.uid \/ x[w.uid] = Nil
    <3>1. Apply(w, x)[u] = x[u]
      BY <1>0, <2>1 DEF Apply
    <3> QED BY <1>2, <3>1 DEF Without
  <2>2. CASE u = w.uid /\ x[w.uid] # Nil
    <3> DEFINE doc == x[u]
    <3>1. Apply(w, x)[u] = Patched(doc, w)
      BY <1>0, <2>2 DEF Apply
    <3>2. doc \in Doc /\ f \notin ToSet(doc.pairings) /\ (u = f => ~doc.currentlyRequesting)
      BY <1>0, <2>2 DEF Without, MaybeDoc
    <3> HIDE DEF doc
    <3>3. doc.pairings \in Seq(Users)
      BY <3>2 DEF Doc
    <3>4. f \notin ToSet(Transformed(doc.pairings, w.arrayUnion, w.arrayRemove))
      BY <1>0, <3>2, <3>3, TransformedProperties
    <3>5. u = f => ~Assigned(w.currentlyRequesting, doc.currentlyRequesting)
      BY <1>0, <2>2, <3>2 DEF Assigned
    <3> QED BY <3>1, <3>4, <3>5 DEF Patched
  <2> QED BY <2>1, <2>2
<1> QED BY <1>1, <1>2 DEF Without

\* A write that the server applies: it does not list f, or f has made a request.
LEMMA ServedWithout ==
  ASSUME NEW f \in Users, NEW d \in Devices, NEW w \in WithoutWrite(f, d), NEW x \in Without(f),
         x \in [Users -> Doc], Apply(w, x)[f].diningHall = NoHall
  PROVE  Apply(w, x) \in Without(f)
<1>1. w \in Write /\ f \notin w.arrayUnion
  BY DEF WithoutWrite
<1>2. ASSUME w.uid = f, TRUE \in w.currentlyRequesting PROVE FALSE
  <2>1. Apply(w, x)[f] = Patched(x[f], w)
    BY <1>2, NilIsNoDocument DEF Apply
  <2>2. Patched(x[f], w).diningHall \in Halls
    BY <1>2 DEF WithoutWrite, Patched, Assigned
  <2> QED BY <2>1, <2>2, HallsAssumption
<1> QED BY <1>1, <1>2, WithoutKept

\* Such writes and collections carry nothing else.
LEMMA WithoutClosed ==
  ASSUME NEW f \in Freshmen
  PROVE  Closed([d \in Devices |-> WithoutKnown(f, d)], [d \in Devices |-> WithoutWrite(f, d)],
                [d \in Devices |-> WithoutPairings(f, d)])
<1>0. f \in Users /\ \A d \in Devices : Owner[d] \in Users
  BY PhonesAssumption
<1>1. NoDocs \in Without(f) /\ Without(f) \subseteq [Users -> MaybeDoc]
  BY <1>0 DEF Without, NoDocs, MaybeDoc
<1>2. ASSUME NEW x \in Without(f), NEW y \in Without(f), NEW u \in Users
      PROVE  [x EXCEPT ![u] = y[u]] \in Without(f)
  BY <1>0 DEF Without
<1>3. ASSUME NEW d \in Devices, NEW w \in WithoutWrite(f, d), NEW x \in WithoutKnown(f, d)
      PROVE  Apply(w, x) \in WithoutKnown(f, d)
  <2>1. w \in Write
    BY DEF WithoutWrite
  <2>2. CASE IsFreshman(d)
    BY <2>1, <2>2, ApplyType DEF WithoutKnown
  <2>3. CASE ~IsFreshman(d)
    BY <1>0, <2>1, <2>3, WithoutKept DEF WithoutKnown, WithoutWrite
  <2> QED BY <2>2, <2>3
<1>4. ASSUME NEW d \in Devices, NEW x \in WithoutKnown(f, d), x[Owner[d]] # Nil
      PROVE  x[Owner[d]].pairings \in WithoutPairings(f, d)
  <2>1. x \in [Users -> MaybeDoc] /\ (IsFreshman(d) \/ x \in Without(f))
    BY <1>1 DEF WithoutKnown
  <2>2. x[Owner[d]] \in Doc
    BY <1>0, <1>4, <2>1 DEF MaybeDoc
  <2>3. x[Owner[d]].pairings \in Seq(Users)
    BY <2>2 DEF Doc
  <2> QED BY <1>0, <1>4, <2>1, <2>3 DEF Without, WithoutPairings
<1>5. ASSUME NEW d \in Devices
      PROVE  /\ WithoutKnown(f, d) \subseteq [Users -> MaybeDoc] /\ NoDocs \in WithoutKnown(f, d)
             /\ \A x, y \in WithoutKnown(f, d), u \in Users :
                  [x EXCEPT ![u] = y[u]] \in WithoutKnown(f, d)
  BY <1>1, <1>2 DEF WithoutKnown
<1> QED BY <1>3, <1>4, <1>5 DEF Closed

\* The operations of FirebaseSession, for another freshman.
LEMMA WithoutWrites ==
  ASSUME NEW f \in Freshmen, NEW d \in Devices
  PROVE  /\ \A hall \in Halls : IsFreshman(d) =>
              <<SetRequest(Owner[d], hall, TRUE)>> \in Seq(WithoutWrite(f, d))
         /\ ~IsFreshman(d) => \A row \in Row : row.uid # f =>
              CreatePairing(Owner[d], row) \in Seq(WithoutWrite(f, d))
         /\ ~IsFreshman(d) => \A other \in Users : other # f =>
              RemovePairing(Owner[d], other) \in Seq(WithoutWrite(f, d))
<1> DEFINE me == Owner[d]
<1>0. f \in Users /\ me \in Users /\ (~IsFreshman(d) => me # f)
  BY PhonesAssumption DEF IsFreshman
<1>1. ASSUME NEW hall \in Halls, IsFreshman(d)
      PROVE  <<SetRequest(me, hall, TRUE)>> \in Seq(WithoutWrite(f, d))
  <2>1. SetRequest(me, hall, TRUE) \in WithoutWrite(f, d)
    BY <1>0, <1>1 DEF SetRequest, WithoutWrite, Write
  <2> QED BY <2>1, TuplesAreSequences
<1>2. ASSUME NEW row \in Row, row.uid # f, ~IsFreshman(d)
      PROVE  CreatePairing(me, row) \in Seq(WithoutWrite(f, d))
  <2>1. row.uid \in Users /\ row.diningHall \in Halls \cup {NoHall}
    BY DEF Row
  <2>2. /\ PairWith(me, row.uid, row.diningHall) \in WithoutWrite(f, d)
        /\ AddPairing(row.uid, me) \in WithoutWrite(f, d)
        /\ SetRequesting(row.uid, FALSE) \in WithoutWrite(f, d)
    BY <1>0, <1>2, <2>1 DEF PairWith, AddPairing, SetRequesting, WithoutWrite, Write
  <2> QED BY <2>2, TuplesAreSequences DEF CreatePairing
<1>3. ASSUME NEW other \in Users, other # f, ~IsFreshman(d)
      PROVE  RemovePairing(me, other) \in Seq(WithoutWrite(f, d))
  <2>1. /\ DropPairing(me, other) \in WithoutWrite(f, d)
        /\ DropPairing(other, me) \in WithoutWrite(f, d)
        /\ SetRequesting(other, TRUE) \in WithoutWrite(f, d)
    BY <1>0, <1>3 DEF DropPairing, SetRequesting, WithoutWrite, Write
  <2> QED BY <2>1, TuplesAreSequences DEF RemovePairing
<1> QED BY <1>1, <1>2, <1>3

\* Nothing brings a freshman into the list, or into a pairing, who does not make a request.
LEMMA NextUnasked ==
  ASSUME GiversCancel, TypeInv, RolesInv, [Next]_vars, NEW f \in Freshmen, Unasked(f),
         docs'[f].diningHall = NoHall
  PROVE  Unasked(f)'
<1> DEFINE S == [d \in Devices |-> WithoutKnown(f, d)]
           W == [d \in Devices |-> WithoutWrite(f, d)]
           P == [d \in Devices |-> WithoutPairings(f, d)]
           Kept(d) == /\ calls'[d] \in Seq(WithoutWrite(f, d))
                      /\ session'[d] # Nil => session'[d].pairings \in WithoutPairings(f, d)
                      /\ \A row \in pairUp'[d] : row.uid \in Users \ {f}
<1>t. /\ calls \in [Devices -> Seq(Write)] /\ session \in [Devices -> Session \cup {Nil}]
      /\ pairUp \in [Devices -> SUBSET Row] /\ docs \in [Users -> Doc] /\ f \in Users
  BY PhonesAssumption DEF TypeInv, TypeOK
<1>0. ASSUME NEW d \in Devices
      PROVE  /\ calls[d] \in Seq(WithoutWrite(f, d)) /\ queue[d] \in Seq(WithoutWrite(f, d))
             /\ users[d] \in WithoutKnown(f, d)
             /\ session[d] # Nil => session[d].pairings \in WithoutPairings(f, d)
             /\ \A row \in pairUp[d] : row.uid \in Users \ {f}
  BY DEF Unasked, Carried
<1>c. Closed(S, W, P) /\ Carried(Without(f), S, W, P, Users \ {f})
  BY WithoutClosed DEF Unasked
<1> HIDE DEF S, W, P
\* A tap that edits the session and sends writes.
<1>s. ASSUME NEW d \in Devices, NEW writes \in Seq(WithoutWrite(f, d)), Dispatch(d, writes), NEW s,
             s.pairings \in WithoutPairings(f, d), session' = [session EXCEPT ![d] = s],
             pairUp' = pairUp \/ pairUp' = [pairUp EXCEPT ![d] = {}]
      PROVE  Kept(d)
  <2>1. calls[d] \o writes \in Seq(WithoutWrite(f, d))
    BY <1>0, <1>s, ConcatProperties
  <2>2. calls'[d] = calls[d] \o writes /\ session'[d] = s
    BY <1>s, <1>t DEF Dispatch
  <2>3. \A row \in pairUp'[d] : row.uid \in Users \ {f}
    BY <1>0, <1>s, <1>t
  <2> QED BY <1>s, <2>1, <2>2, <2>3
<1>1. ASSUME NEW d \in Devices, NEW hall \in Halls, MakeRequest(d, hall) PROVE Kept(d)
  <2> DEFINE s == [session[d] EXCEPT !.diningHall = hall]
  <2>1. /\ session[d] # Nil /\ IsFreshman(d) /\ Dispatch(d, <<SetRequest(Owner[d], hall, TRUE)>>)
        /\ session' = [session EXCEPT ![d] = s] /\ UNCHANGED pairUp
    BY <1>1 DEF MakeRequest, OnFreshmanView, LoggedIn, screen
  <2>2. <<SetRequest(Owner[d], hall, TRUE)>> \in Seq(WithoutWrite(f, d))
    BY <2>1, WithoutWrites
  <2>3. s.pairings \in WithoutPairings(f, d)
    BY <1>0, <2>1, SessionEditType DEF Session
  <2> HIDE DEF s, Kept
  <2> QED BY <1>s, <2>1, <2>2, <2>3
<1>2. ASSUME NEW d \in Devices PROVE ~CancelRequest(d)
  BY DEF CancelRequest, OnFreshmanView, IsFreshman, GiversCancel
<1>3. ASSUME NEW d \in Devices, NEW uid \in Users, OpenPairUp(d, uid) PROVE Kept(d)
  <2>1. /\ UNCHANGED <<calls, session>> /\ ~IsFreshman(d)
        /\ users[d][uid] # Nil /\ users[d][uid].currentlyRequesting
        /\ pairUp' = [pairUp EXCEPT ![d] = {[uid |-> uid, diningHall |-> users[d][uid].diningHall]}]
    BY <1>3 DEF OpenPairUp, OnRequestList
  <2>2. uid # f
    BY <1>0, <2>1 DEF WithoutKnown, Without
  <2>3. \A row \in pairUp'[d] : row.uid \in Users \ {f}
    BY <1>t, <2>1, <2>2
  <2> QED BY <1>0, <2>1, <2>3
<1>4. ASSUME NEW d \in Devices, Pair(d) PROVE Kept(d)
  <2>1. PICK row \in pairUp[d] :
          /\ session[d] # Nil /\ ~Paired(d)
          /\ Dispatch(d, CreatePairing(Owner[d], row))
          /\ session' = [session EXCEPT ![d].pairings = Append(@, row.uid)]
          /\ pairUp' = [pairUp EXCEPT ![d] = {}]
    BY <1>4 DEF Pair, LoggedIn
  <2> DEFINE ps == Append(session[d].pairings, row.uid)
             s == [session[d] EXCEPT !.pairings = ps]
  <2>2. /\ row \in Row /\ row.uid \in Users /\ row.uid # f /\ ~IsFreshman(d)
        /\ session[d] \in Session /\ session[d].pairings = <<>>
    BY <1>0, <1>t, <2>1 DEF Paired, RolesInv
  <2>3. ps \in WithoutPairings(f, d)
    <3>1. ps = <<row.uid>> /\ <<row.uid>> \in Seq(Users)
      BY <2>2, TuplesAreSequences
    <3>2. ToSet(<<row.uid>>) = {row.uid}
      BY DEF ToSet
    <3> QED BY <2>2, <3>1, <3>2 DEF WithoutPairings
  <2>4. CreatePairing(Owner[d], row) \in Seq(WithoutWrite(f, d))
    BY <2>2, WithoutWrites
  <2>5. session' = [session EXCEPT ![d] = s]
    BY <2>1
  <2> HIDE DEF ps
  <2>6. s.pairings \in WithoutPairings(f, d)
    BY <2>2, <2>3 DEF Session
  <2> HIDE DEF s, Kept
  <2> QED BY <1>s, <2>1, <2>4, <2>5, <2>6
<1>5. ASSUME NEW d \in Devices, ShowPairing(d) \/ GoBack(d) PROVE Kept(d)
  <2>1. UNCHANGED <<calls, session>> /\ (pairUp' = pairUp \/ pairUp' = [pairUp EXCEPT ![d] = {}])
    BY <1>5 DEF ShowPairing, GoBack
  <2>2. \A row \in pairUp'[d] : row.uid \in Users \ {f}
    BY <1>0, <1>t, <2>1
  <2> QED BY <1>0, <2>1, <2>2
<1>6. ASSUME NEW d \in Devices, Cancel(d) PROVE Kept(d)
  <2> DEFINE partner == Head(session[d].pairings)
             ps == Tail(session[d].pairings)
             s == [session[d] EXCEPT !.pairings = ps]
  <2>1. /\ session[d] # Nil /\ session[d].pairings # <<>>
        /\ Dispatch(d, RemovePairing(Owner[d], partner))
        /\ session' = [session EXCEPT ![d] = s] /\ UNCHANGED pairUp /\ ~IsFreshman(d)
    BY <1>6 DEF Cancel, Paired, IsFreshman, GiversCancel
  <2>2. /\ session[d] \in Session /\ session[d].pairings \in Seq(Users)
        /\ f \notin ToSet(session[d].pairings)
    BY <1>0, <2>1, SessionEditType DEF WithoutPairings
  <2>3. partner \in Users /\ partner # f /\ ps \in Seq(Users) /\ f \notin ToSet(ps)
    BY <2>1, <2>2, EditedMembers, HeadTailProperties
  <2> HIDE DEF partner, ps
  <2>4. RemovePairing(Owner[d], partner) \in Seq(WithoutWrite(f, d))
    BY <2>1, <2>3, WithoutWrites
  <2>5. s.pairings \in WithoutPairings(f, d)
    BY <2>2, <2>3 DEF Session, WithoutPairings
  <2> HIDE DEF s, Kept
  <2> QED BY <1>s, <2>1, <2>4, <2>5
<1>7. ASSUME NEW d \in Devices, Tap(d) PROVE Kept(d)
  BY <1>1, <1>2, <1>3, <1>4, <1>5, <1>6, <1>7 DEF Tap
<1>8. \A d \in Devices : Tap(d) =>
        /\ calls'[d] \in Seq(W[d])
        /\ session'[d] # Nil => session'[d].pairings \in P[d]
        /\ \A row \in pairUp'[d] : row.uid \in Users \ {f}
  BY <1>7 DEF W, P
<1>9. docs' \in Without(f)
  <2>1. docs \in Without(f)
    BY <1>c DEF Carried
  <2>2. ASSUME NEW d \in Devices, Commit(d) \/ CommitUnheard(d) PROVE docs' \in Without(f)
    <3>1. PICK i \in 1..Len(queue[d]) : docs' = Apply(queue[d][i], docs)
      BY <2>2, AppliedWrites
    <3>2. queue[d][i] \in WithoutWrite(f, d)
      BY <1>0, ElementOfSeq
    <3> QED BY <1>t, <2>1, <3>1, <3>2, ServedWithout
  <2> QED BY <2>1, <2>2, ServerSteps
<1>10. \A d \in Devices : Without(f) \subseteq S[d]
  <2>1. Without(f) \subseteq [Users -> MaybeDoc]
    BY DEF Without
  <2> QED BY <2>1 DEF S, WithoutKnown
<1>11. Carried(Without(f), S, W, P, Users \ {f})'
  BY <1>c, <1>8, <1>9, <1>10, NextCarried
<1> QED BY <1>11 DEF Unasked, Without, WithoutKnown, WithoutWrite, WithoutPairings, IsFreshman,
                    Carried, S, W, P

\* The server's writes take no request back.
LEMMA HallsStay ==
  ASSUME TypeInv, GiversInv, [Next]_vars
  PROVE  \/ \A f \in Freshmen : docs'[f].diningHall = docs[f].diningHall
         \/ \E g \in Freshmen :
              /\ docs'[g].diningHall # NoHall
              /\ \A f \in Freshmen \ {g} : docs'[f].diningHall = docs[f].diningHall
<1>1. ASSUME NEW d \in Devices, Commit(d) \/ CommitUnheard(d)
      PROVE  \/ \A f \in Freshmen : docs'[f].diningHall = docs[f].diningHall
             \/ \E g \in Freshmen :
                  /\ docs'[g].diningHall # NoHall
                  /\ \A f \in Freshmen \ {g} : docs'[f].diningHall = docs[f].diningHall
  <2>1. PICK i \in 1..Len(queue[d]) : docs' = Apply(queue[d][i], docs)
    BY <1>1, AppliedWrites
  <2> DEFINE w == queue[d][i]
  <2>2. w \in ApartWrite(d)
    <3>1. queue[d] \in Seq(ApartWrite(d))
      BY DEF GiversInv, Carried
    <3> QED BY <3>1, ElementOfSeq
  <2> HIDE DEF w
  <2>3. /\ w \in Write /\ docs \in [Users -> Doc] /\ Freshmen \subseteq Users
        /\ docs' = Apply(w, docs)
    BY <2>1, <2>2, PhonesAssumption DEF ApartWrite, TypeInv, TypeOK, w
  <2>4. \A f \in Freshmen : w.uid # f \/ w.diningHall = {} =>
          docs'[f].diningHall = docs[f].diningHall
    BY <2>3, HallKept
  <2>5. CASE w.uid \in Freshmen /\ w.diningHall # {}
    <3>1. docs'[w.uid] = Patched(docs[w.uid], w)
      BY <2>3, <2>5, NilIsNoDocument DEF Apply
    <3>2. Patched(docs[w.uid], w).diningHall \in w.diningHall
      BY <2>5 DEF Patched, Assigned
    <3>3. docs'[w.uid].diningHall # NoHall
      BY <2>2, <2>5, <3>1, <3>2 DEF ApartWrite
    <3> QED BY <2>4, <2>5, <3>3
  <2> QED BY <2>4, <2>5
<1> QED BY <1>1, ServerSteps

\* AskedInv is an invariant.
LEMMA AskedInvariance ==
  ASSUME GiversCancel
  PROVE  Spec => []AskedInv
<1>1. Init => AskedInv
  <2> SUFFICES ASSUME Init, NEW f \in Freshmen PROVE Unasked(f)
    BY DEF AskedInv
  <2>1. /\ NewDoc \in Doc /\ NewDoc # Nil /\ NewDoc.pairings = <<>> /\ ~NewDoc.currentlyRequesting
        /\ f \in Users
    BY NewDocument, PhonesAssumption
  <2>2. docs = [u \in Users |-> NewDoc]
    BY DEF Init
  <2>3. docs \in Without(f) /\ NoDocs \in Without(f)
    BY <2>1, <2>2 DEF Without, MaybeDoc, ToSet, NoDocs
  <2>4. ASSUME NEW d \in Devices
        PROVE  /\ queue[d] = <<>> /\ calls[d] = <<>> /\ events[d] = <<>> /\ pairUp[d] = {}
               /\ view[d] \in Without(f) /\ users[d] = view[d]
               /\ session[d] # Nil => session[d].pairings = <<>>
    BY <2>1, <2>3 DEF Init, SessionOf
  <2>5. Without(f) \subseteq [Users -> MaybeDoc]
    BY DEF Without
  <2>6. ASSUME NEW d \in Devices
        PROVE  /\ <<>> \in WithoutPairings(f, d) /\ <<>> \in Seq(WithoutWrite(f, d))
               /\ <<>> \in Seq(Bringing(WithoutKnown(f, d))) /\ Without(f) \subseteq WithoutKnown(f, d)
    BY <2>5, EmptySeq DEF WithoutPairings, WithoutKnown, ToSet
  <2> QED BY <2>3, <2>4, <2>6 DEF Unasked, Carried
<1>2. TypeInv /\ RolesInv /\ GiversInv /\ AskedInv /\ [Next]_vars => AskedInv'
  <2> SUFFICES ASSUME TypeInv, RolesInv, GiversInv, AskedInv, [Next]_vars, NEW f \in Freshmen,
                      docs'[f].diningHall = NoHall
               PROVE  Unasked(f)'
    BY DEF AskedInv
  <2>1. docs[f].diningHall = NoHall
    BY HallsStay
  <2> QED BY <2>1, NextUnasked DEF AskedInv
<1> QED BY <1>1, <1>2, GiversInvariance, RolesInvariance, TypeInvariance, PTL DEF Spec

----------------------------------------------------------------------------
(* The abstract pairings.                                                  *)

GiversPhones == {d \in Devices : ~IsFreshman(d)}

\* The halves that the writes of the phones come to.
SharedBy(d) == {p \in HalvesOf(d) : Bound(d, p[1], p[2])}
Shared == UNION {SharedBy(d) : d \in GiversPhones}

\* They are what the refinement maps the exchange to.
LEMMA SharedPairings ==
  UniqueInv /\ GiversInv => UNION {Halves(c[1], c[2]) : c \in GiversCollections} = Shared
<1> SUFFICES ASSUME UniqueInv, GiversInv
             PROVE  UNION {Halves(c[1], c[2]) : c \in GiversCollections} = Shared
  OBVIOUS
<1>1. ASSUME NEW d \in GiversPhones PROVE Halves(Owner[d], Settled(d)) = SharedBy(d)
  <2> DEFINE me == Owner[d]
             x == Settled(d)
  <2>0. d \in Devices /\ ~IsFreshman(d) /\ me \in Users /\ me \notin Freshmen /\ Freshmen \subseteq Users
    BY PhonesAssumption DEF GiversPhones, IsFreshman
  <2>1. /\ \A u, v \in Users : v \in ToSet(x[u].pairings) <=> Bound(d, u, v)
        /\ \A u \in Users \ Freshmen : ToSet(x[u].pairings) \subseteq Freshmen
    BY <2>0, SettledPairings DEF Has
  <2>2. \A u : u \in ToSet(x[me].pairings) <=> u \in Freshmen /\ Bound(d, me, u)
    BY <2>0, <2>1
  <2>3. \A u \in Users : me \in ToSet(x[u].pairings) <=> u \in Freshmen /\ Bound(d, u, me)
    BY <2>0, <2>1
  <2> HIDE DEF x
  <2>4. \A p : p \in Halves(me, x) <=>
                 \/ \E u \in Freshmen : p = <<me, u>> /\ Bound(d, me, u)
                 \/ \E u \in Freshmen : p = <<u, me>> /\ Bound(d, u, me)
    BY <2>0, <2>2, <2>3 DEF Halves
  <2>5. \A p : p \in SharedBy(d) <=>
                 \/ \E u \in Freshmen : p = <<me, u>> /\ Bound(d, me, u)
                 \/ \E u \in Freshmen : p = <<u, me>> /\ Bound(d, u, me)
    BY DEF SharedBy, HalvesOf
  <2>6. Halves(me, x) = SharedBy(d)
    BY <2>4, <2>5
  <2> QED BY <2>6 DEF x
<1>2. {Halves(c[1], c[2]) : c \in GiversCollections} = {SharedBy(d) : d \in GiversPhones}
  <2>1. \A d \in GiversPhones : <<Owner[d], Settled(d)>> \in GiversCollections
    BY DEF GiversCollections, GiversPhones
  <2>2. \A c \in GiversCollections : \E d \in GiversPhones : c = <<Owner[d], Settled(d)>>
    BY DEF GiversCollections, GiversPhones
  <2>3. \A d \in GiversPhones : \A c :
          c = <<Owner[d], Settled(d)>> => Halves(c[1], c[2]) = SharedBy(d)
    BY <1>1
  <2>4. \A d \in GiversPhones : \E c \in GiversCollections : Halves(c[1], c[2]) = SharedBy(d)
    BY <2>1, <2>3
  <2>5. \A c \in GiversCollections : \E d \in GiversPhones : Halves(c[1], c[2]) = SharedBy(d)
    BY <2>2, <2>3
  <2> QED BY <2>4, <2>5
<1> QED BY <1>2 DEF Shared

\* A tap on a giver's phone that changes its pairings leaves those of the others alone.
LEMMA OthersShare ==
  ASSUME TypeInv, NEW d \in Devices, Pair(d) \/ Cancel(d), NEW e \in Devices \ {d}
  PROVE  SharedBy(e)' = SharedBy(e)
<1>1. UNCHANGED <<docs, queue>> /\ \E writes : Dispatch(d, writes)
  BY DEF Pair, Cancel, disk
<1>2. calls'[e] = calls[e]
  BY <1>1 DEF Dispatch, TypeInv, TypeOK
<1>3. \A u, v : Bound(e, u, v)' <=> Bound(e, u, v)
  BY <1>1, <1>2 DEF Bound, Ends, Has, Sets, Clears
<1> QED BY <1>3 DEF SharedBy, HalvesOf

\* No half is written by two phones.
LEMMA OwnHalves ==
  ASSUME OnePhoneEach, NEW d \in GiversPhones, NEW e \in GiversPhones \ {d}
  PROVE  HalvesOf(d) \cap HalvesOf(e) = {}
<1>1. Owner[e] # Owner[d] /\ Owner[d] \notin Freshmen /\ Owner[e] \notin Freshmen
  BY DEF GiversPhones, OnePhoneEach, OnlyPhone, IsFreshman
<1> QED BY <1>1 DEF HalvesOf

\* Nothing but such a tap changes the pairings.
LEMMA SharedKept ==
  ASSUME OnePhoneEach, TypeInv, UniqueInv, GiversInv, PartnerIsKnown, [Next]_vars, kills' = 0,
         ~\E d \in GiversPhones : Pair(d) \/ Cancel(d)
  PROVE  Shared' = Shared
<1>1. ASSUME NEW d \in GiversPhones PROVE SharedBy(d)' = SharedBy(d)
  <2>1. d \in Devices /\ ~IsFreshman(d) /\ ~Die(d) /\ ~Pair(d) /\ ~Cancel(d)
    BY GiversLive DEF GiversPhones
  <2>2. HalvesOf(d) \subseteq Users \X Users
    BY <2>1, PhonesAssumption DEF HalvesOf
  <2>3. \A u, v \in Users : <<u, v>> \in HalvesOf(d) => (Bound(d, u, v)' <=> Bound(d, u, v))
    BY <2>1, BoundKept
  <2>4. \A p \in HalvesOf(d) : Bound(d, p[1], p[2])' <=> Bound(d, p[1], p[2])
    BY <2>2, <2>3
  <2> QED BY <2>4 DEF SharedBy, HalvesOf
<1> QED BY <1>1 DEF Shared, GiversPhones, IsFreshman

\* "Pair!" adds both sides of a pairing, with a freshman of the list.
LEMMA PairShares ==
  ASSUME TypeInv, GiversInv, NEW d \in GiversPhones, Pair(d)
  PROVE  \E row \in pairUp[d] :
           row.uid \in Freshmen /\ Shared' = Shared \cup Exchange!Sides(Owner[d], row.uid)
<1>0. d \in Devices /\ ~IsFreshman(d)
  BY DEF GiversPhones
<1>1. PICK row \in pairUp[d] :
        /\ row.uid \in Freshmen
        /\ \A f \in Freshmen :
             /\ Bound(d, Owner[d], f)' <=> f = row.uid \/ Bound(d, Owner[d], f)
             /\ Bound(d, f, Owner[d])' <=> f = row.uid \/ Bound(d, f, Owner[d])
  BY <1>0, PairBinds
<1> DEFINE new == Exchange!Sides(Owner[d], row.uid)
<1>2. SharedBy(d)' = SharedBy(d) \cup new
  BY <1>1 DEF SharedBy, HalvesOf, Exchange!Sides
<1>3. \A e \in GiversPhones \ {d} : SharedBy(e)' = SharedBy(e)
  BY <1>0, OthersShare DEF GiversPhones
<1> HIDE DEF new
<1>4. Shared' = Shared \cup new
  BY <1>2, <1>3 DEF Shared, GiversPhones, IsFreshman
<1> QED BY <1>1, <1>4 DEF new

\* "Cancel" takes both sides away, if they are there.
LEMMA CancelShares ==
  ASSUME OnePhoneEach, TypeInv, GiversInv, HalvesInv, kills = 0, NEW d \in GiversPhones, Cancel(d)
  PROVE  \E partner \in Freshmen :
           /\ Shared' = Shared \ Exchange!Sides(Owner[d], partner)
           /\ <<Owner[d], partner>> \notin Shared => Shared' = Shared
<1>0. d \in Devices /\ ~IsFreshman(d)
  BY DEF GiversPhones
<1>1. PICK partner \in Freshmen : \A f \in Freshmen :
        /\ Bound(d, Owner[d], f)' <=> f # partner /\ Bound(d, Owner[d], f)
        /\ Bound(d, f, Owner[d])' <=> f # partner /\ Bound(d, f, Owner[d])
  BY <1>0, CancelUnbinds
<1> DEFINE old == Exchange!Sides(Owner[d], partner)
<1>2. SharedBy(d)' = SharedBy(d) \ old
  BY <1>0, <1>1, GiverApart DEF SharedBy, HalvesOf, Exchange!Sides
<1>3. \A e \in GiversPhones \ {d} : SharedBy(e)' = SharedBy(e)
  BY <1>0, OthersShare DEF GiversPhones
<1>4. \A e \in GiversPhones \ {d} : SharedBy(e) \cap old = {}
  <2>1. old \subseteq HalvesOf(d)
    BY DEF Exchange!Sides, HalvesOf
  <2> QED BY <2>1, OwnHalves DEF SharedBy
<1>5. <<Owner[d], partner>> \notin Shared => SharedBy(d) \cap old = {}
  <2>1. ASSUME <<Owner[d], partner>> \notin SharedBy(d) PROVE SharedBy(d) \cap old = {}
    <3>1. ~Bound(d, Owner[d], partner)
      BY <1>0, <2>1, GiverApart DEF SharedBy
    <3>2. ~Bound(d, partner, Owner[d])
      BY <1>0, <3>1 DEF HalvesInv
    <3> QED BY <3>1, <3>2 DEF SharedBy, Exchange!Sides
  <2> QED BY <2>1 DEF Shared
<1> HIDE DEF old
<1>6. Shared' = UNION {SharedBy(e)' : e \in GiversPhones}
  BY DEF Shared, GiversPhones, IsFreshman
<1>7. Shared' = Shared \ old
  BY <1>2, <1>3, <1>4, <1>6 DEF Shared
<1>8. <<Owner[d], partner>> \notin Shared => Shared' = Shared
  BY <1>2, <1>3, <1>5, <1>6 DEF Shared
<1> QED BY <1>7, <1>8 DEF old

----------------------------------------------------------------------------
(* The refinement.                                                         *)

\* What the refinement maps the requests to.
Requests == {u \in Freshmen : docs[u].diningHall # NoHall}

\* The exchange starts with no pairing.
LEMMA InitImplements == UniqueInv /\ GiversInv /\ Init => Exchange!Init
<1> SUFFICES ASSUME UniqueInv, GiversInv, Init PROVE Exchange!Init
  OBVIOUS
<1>1. ASSUME NEW d \in GiversPhones PROVE SharedBy(d) = {}
  <2>1. HalvesOf(d) \subseteq Users \X Users
    BY PhonesAssumption DEF HalvesOf, GiversPhones
  <2>2. \A u, v \in Users : ~Bound(d, u, v)
    BY NothingBound DEF GiversPhones
  <2> QED BY <2>1, <2>2 DEF SharedBy
<1>2. Shared = {}
  BY <1>1 DEF Shared
<1> QED BY <1>2, SharedPairings DEF Exchange!Init

\* At most one request more is made in a step.
LEMMA RequestsGrow ==
  ASSUME TypeInv, GiversInv, [Next]_vars
  PROVE  Requests' = Requests \/ \E f \in Freshmen : Requests' = Requests \cup {f}
<1>1. CASE \A f \in Freshmen : docs'[f].diningHall = docs[f].diningHall
  BY <1>1 DEF Requests
<1>2. ASSUME NEW g \in Freshmen, docs'[g].diningHall # NoHall,
             \A f \in Freshmen \ {g} : docs'[f].diningHall = docs[f].diningHall
      PROVE  Requests' = Requests \cup {g}
  BY <1>2 DEF Requests
<1> QED BY <1>1, <1>2, HallsStay

\* Every step of the exchange is one of Pairings, or none.
LEMMA NextImplements ==
  ASSUME OnePhoneEach
  PROVE  /\ TypeInv /\ UniqueInv /\ GiversInv /\ PartnerIsKnown /\ HalvesInv /\ AskedInv
         /\ (UniqueInv /\ GiversInv)' /\ kills = 0 /\ (kills = 0)' /\ [Next]_vars
         => [Exchange!Next]_(Exchange!vars)
<1> DEFINE Moves(requests1, requests2, pairings1, pairings2) ==
      \/ \E f \in Freshmen : requests2 = requests1 \cup {f} /\ pairings2 = pairings1
      \/ \E g \in Users \ Freshmen, f \in Freshmen :
           \/ /\ f \in requests1 /\ requests2 = requests1
              /\ pairings2 = pairings1 \cup Exchange!Sides(g, f)
           \/ /\ <<g, f>> \in pairings1 /\ requests2 = requests1
              /\ pairings2 = pairings1 \ Exchange!Sides(g, f)
      \/ requests2 = requests1 /\ pairings2 = pairings1
<1>1. (UniqueInv /\ GiversInv => UNION {Halves(c[1], c[2]) : c \in GiversCollections} = Shared)'
  BY SharedPairings, PTL
<1> SUFFICES ASSUME TypeInv, UniqueInv, GiversInv, PartnerIsKnown, HalvesInv, AskedInv,
                    (UniqueInv /\ GiversInv)', kills = 0, kills' = 0, [Next]_vars
             PROVE  [Exchange!Next]_(Exchange!vars)
  OBVIOUS
<1>2. (UNION {Halves(c[1], c[2]) : c \in GiversCollections})' = Shared'
  BY <1>1
<1>3. UNION {Halves(c[1], c[2]) : c \in GiversCollections} = Shared
  BY SharedPairings
<1>4. ASSUME NEW d \in GiversPhones, Pair(d) PROVE Moves(Requests, Requests', Shared, Shared')
  <2>1. PICK row \in pairUp[d] :
          row.uid \in Freshmen /\ Shared' = Shared \cup Exchange!Sides(Owner[d], row.uid)
    BY <1>4, PairShares
  <2>2. d \in Devices /\ Owner[d] \in Users \ Freshmen
    BY PhonesAssumption DEF GiversPhones, IsFreshman
  <2>3. row.uid \in Requests
    <3>1. docs[row.uid].diningHall = NoHall => row.uid \in Users \ {row.uid}
      BY <2>1, <2>2 DEF AskedInv, Unasked, Carried
    <3> QED BY <2>1, <3>1 DEF Requests
  <2>4. Requests' = Requests
    BY <1>4 DEF Pair, Requests
  <2> QED BY <2>1, <2>2, <2>3, <2>4
<1>5. ASSUME NEW d \in GiversPhones, Cancel(d) PROVE Moves(Requests, Requests', Shared, Shared')
  <2>1. PICK partner \in Freshmen :
          /\ Shared' = Shared \ Exchange!Sides(Owner[d], partner)
          /\ <<Owner[d], partner>> \notin Shared => Shared' = Shared
    BY <1>5, CancelShares
  <2>2. Owner[d] \in Users \ Freshmen
    BY PhonesAssumption DEF GiversPhones, IsFreshman
  <2>3. Requests' = Requests
    BY <1>5 DEF Cancel, Requests
  <2> QED BY <2>1, <2>2, <2>3
<1>6. ASSUME ~\E d \in GiversPhones : Pair(d) \/ Cancel(d)
      PROVE  Moves(Requests, Requests', Shared, Shared')
  BY <1>6, SharedKept, RequestsGrow
<1>7. Moves(Requests, Requests', Shared, Shared')
  BY <1>4, <1>5, <1>6
<1> HIDE DEF Shared
<1> QED BY <1>2, <1>3, <1>7 DEF Exchange!Next, Exchange!Ask, Exchange!Pair, Exchange!Cancel,
                                Exchange!vars, Requests

\* The exchange implements the pairings of two people at once, for any number of users,
\* phones, taps, lost connections and orders of the writes and callbacks, as long as only
\* givers cancel, each has one phone, and no process is killed.
THEOREM PairingsImplemented ==
  ASSUME GiversCancel, OnePhoneEach
  PROVE  Spec /\ [](kills = 0) => ImplementsPairings
<1>1. Spec => []HalvesInv
  BY HalvesInvariance
<1>2. Spec /\ [](kills = 0) => Exchange!Init /\ [][Exchange!Next]_(Exchange!vars)
  BY <1>1, InitImplements, NextImplements, AskedInvariance, GiversInvariance, UniqueInvariance,
     PartnersAreKnown, TypeInvariance, PTL DEF Spec
<1> QED BY <1>2 DEF ImplementsPairings, Exchange!Spec

=============================================================================
