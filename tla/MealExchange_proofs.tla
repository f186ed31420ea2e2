-------------------------- MODULE MealExchange_proofs --------------------------
(***************************************************************************)
(* Safety of MealExchange for any set of users and phones, any number of   *)
(* taps and crashes and any backlog of callbacks.                          *)
(***************************************************************************)
EXTENDS MealExchange, UserDocuments_proofs

----------------------------------------------------------------------------
(* Types.                                                                  *)

\* The callbacks that a phone may have waiting: the result of getDocument has the
\* document of the account, since listen() only uses a document that exists.
EventOf(d) == {e \in Event : e.kind = "session" => e.docs[Owner[d]] \in Doc}

\* Without it DeliverSession, which reads the fields of the document, would not
\* preserve TypeOK.
FetchedDocuments == \A d \in Devices : events[d] \in Seq(EventOf(d))

\* The inductive strengthening of TypeOK.
TypeInv == TypeOK /\ FetchedDocuments

\* Short tuples are sequences.
LEMMA TuplesAreSequences ==
  ASSUME NEW S, NEW a \in S, NEW b \in S, NEW c \in S
  PROVE  <<>> \in Seq(S) /\ <<a>> \in Seq(S) /\ <<a, b>> \in Seq(S) /\ <<a, b, c>> \in Seq(S)
OBVIOUS

\* The writes that the operations of FirebaseSession send are writes.
LEMMA WritesType ==
  ASSUME NEW me \in Users
  PROVE  /\ \A hall \in Halls : <<SetRequest(me, hall, TRUE)>> \in Seq(Write)
         /\ \A pairings \in Seq(Users) : CancelMealRequest(me, pairings) \in Seq(Write)
         /\ \A row \in Row : CreatePairing(me, row) \in Seq(Write)
         /\ \A other \in Users : RemovePairing(me, other) \in Seq(Write)
<1>1. \A u, v \in Users : AddPairing(u, v) \in Write /\ DropPairing(u, v) \in Write
  BY DEF Write, AddPairing, DropPairing
<1>2. \A u \in Users : SetRequesting(u, FALSE) \in Write /\ SetRequesting(u, TRUE) \in Write
  BY DEF Write, SetRequesting
<1>3. ASSUME NEW hall \in Halls PROVE <<SetRequest(me, hall, TRUE)>> \in Seq(Write)
  BY TuplesAreSequences DEF Write, SetRequest
<1>4. ASSUME NEW pairings \in Seq(Users) PROVE CancelMealRequest(me, pairings) \in Seq(Write)
  <2> DEFINE first == <<SetRequest(me, NoHall, FALSE)>>
             unpair == IF pairings = <<>> THEN <<>>
                       ELSE <<DropPairing(Head(pairings), me), DropPairing(me, Head(pairings))>>
             last == <<SetRequesting(me, FALSE)>>
  <2>1. first \in Seq(Write)
    BY TuplesAreSequences DEF Write, SetRequest
  <2>2. last \in Seq(Write)
    BY <1>2, TuplesAreSequences
  <2>3. unpair \in Seq(Write)
    <3>1. CASE pairings = <<>>
      BY <3>1
    <3>2. CASE pairings # <<>>
      <4>1. Head(pairings) \in Users
        BY <3>2, HeadTailProperties
      <4> QED BY <1>1, <3>2, <4>1, TuplesAreSequences
    <3> QED BY <3>1, <3>2
  <2>4. CancelMealRequest(me, pairings) = (first \o unpair) \o last
    BY DEF CancelMealRequest
  <2> HIDE DEF first, unpair, last
  <2> QED BY <2>1, <2>2, <2>3, <2>4, ConcatProperties
<1>5. ASSUME NEW row \in Row PROVE CreatePairing(me, row) \in Seq(Write)
  <2>1. row.uid \in Users /\ PairWith(me, row.uid, row.diningHall) \in Write
    BY DEF Row, Write, PairWith
  <2> QED BY <1>1, <1>2, <2>1, TuplesAreSequences DEF CreatePairing
<1>6. ASSUME NEW other \in Users PROVE RemovePairing(me, other) \in Seq(Write)
  BY <1>1, <1>2, TuplesAreSequences DEF RemovePairing
<1> QED BY <1>3, <1>4, <1>5, <1>6

\* The callbacks raised by the worker are callbacks of the phone.
LEMMA EventsType ==
  ASSUME NEW d \in Devices
  PROVE  /\ \A x \in [Users -> MaybeDoc] : UsersEvent(x) \in EventOf(d)
         /\ \A doc \in Doc : SessionEvent(Owner[d], doc) \in EventOf(d)
<1>1. \A x \in [Users -> MaybeDoc] : UsersEvent(x) \in EventOf(d)
  BY DEF UsersEvent, EventOf, Event
<1>2. ASSUME NEW doc \in Doc PROVE SessionEvent(Owner[d], doc) \in EventOf(d)
  <2>1. [NoDocs EXCEPT ![Owner[d]] = doc] \in [Users -> MaybeDoc]
    BY DEF NoDocs, MaybeDoc
  <2>2. [NoDocs EXCEPT ![Owner[d]] = doc][Owner[d]] = doc
    BY PhonesAssumption DEF NoDocs
  <2> QED BY <2>1, <2>2 DEF SessionEvent, EventOf, Event
<1> QED BY <1>1, <1>2

\* The initial state has the types.
LEMMA InitType == Init => TypeInv
<1> SUFFICES ASSUME Init PROVE TypeInv
  OBVIOUS
<1>1. NewDoc \in Doc
  BY DEF NewDoc, Doc
<1>2. SessionOf(NewDoc) \in Session
  BY <1>1 DEF SessionOf, Session, Doc
<1>3. docs \in [Users -> Doc] /\ view \in [Devices -> [Users -> MaybeDoc]]
  BY <1>1 DEF Init, NoDocs, MaybeDoc
<1>4. session \in [Devices -> Session \cup {Nil}]
  BY <1>2 DEF Init
<1>5. TypeOK
  <2>1. /\ queue \in [Devices -> Seq(Write)] /\ calls \in [Devices -> Seq(Write)]
        /\ events \in [Devices -> Seq(Event)]
        /\ pairUp \in [Devices -> SUBSET Row]
    BY DEF Init
  <2>2. /\ running \in [Devices -> BOOLEAN] /\ fetching \in [Devices -> BOOLEAN]
        /\ showPairing \in [Devices -> BOOLEAN]
    BY DEF Init
  <2>3. /\ users \in [Devices -> [Users -> MaybeDoc]]
        /\ pushes \subseteq Push
        /\ unheard \in [Devices -> Nat]
        /\ taps \in 0..MaxTaps /\ kills \in 0..MaxKills /\ losses \in 0..MaxLosses
    BY <1>3, BoundsAssumption DEF Init
  <2> QED BY <1>3, <1>4, <2>1, <2>2, <2>3 DEF TypeOK
<1>6. FetchedDocuments
  BY DEF Init, FetchedDocuments
<1> QED BY <1>5, <1>6 DEF TypeInv

\* The events of one phone change to events of that phone.
LEMMA EventsPreserved ==
  ASSUME TypeInv, NEW d \in Devices, NEW es \in Seq(EventOf(d)),
         events' = [events EXCEPT ![d] = es]
  PROVE  events' \in [Devices -> Seq(Event)] /\ FetchedDocuments'
<1>1. es \in Seq(Event)
  BY SeqMonotonic DEF EventOf
<1>2. events' \in [Devices -> Seq(Event)]
  BY <1>1 DEF TypeInv, TypeOK
<1>3. ASSUME NEW e \in Devices PROVE events'[e] \in Seq(EventOf(e))
  BY DEF TypeInv, TypeOK, FetchedDocuments
<1>4. FetchedDocuments'
  BY <1>3 DEF FetchedDocuments, EventOf
<1> QED BY <1>2, <1>4

\* A tap sends writes and is counted.
LEMMA DispatchType ==
  ASSUME TypeInv, NEW d \in Devices, NEW writes \in Seq(Write), Dispatch(d, writes)
  PROVE  calls' \in [Devices -> Seq(Write)] /\ taps' \in 0..MaxTaps
<1>1. calls[d] \o writes \in Seq(Write)
  BY ConcatProperties DEF TypeInv, TypeOK
<1>2. calls' \in [Devices -> Seq(Write)]
  BY <1>1 DEF Dispatch, TypeInv, TypeOK
<1>3. taps' \in 0..MaxTaps
  BY BoundsAssumption DEF Dispatch, TypeInv, TypeOK
<1> QED BY <1>2, <1>3

\* The edits of the session by a tap.
LEMMA SessionEditType ==
  ASSUME TypeInv, NEW d \in Devices, session[d] # Nil
  PROVE  /\ session[d] \in Session
         /\ session[d].pairings \in Seq(Users)
         /\ \A hall \in Halls \cup {NoHall} :
              [session EXCEPT ![d].diningHall = hall] \in [Devices -> Session \cup {Nil}]
         /\ \A ps \in Seq(Users) :
              [session EXCEPT ![d].pairings = ps] \in [Devices -> Session \cup {Nil}]
<1>1. session[d] \in Session /\ session \in [Devices -> Session \cup {Nil}]
  BY DEF TypeInv, TypeOK
<1>2. \A hall \in Halls \cup {NoHall} : [session[d] EXCEPT !.diningHall = hall] \in Session
  BY <1>1 DEF Session
<1>3. \A ps \in Seq(Users) : [session[d] EXCEPT !.pairings = ps] \in Session
  BY <1>1 DEF Session
<1>4. session[d].pairings \in Seq(Users)
  BY <1>1 DEF Session
<1> QED BY <1>1, <1>2, <1>3, <1>4

\* A notification goes to a user.
LEMMA NotifiedType ==
  ASSUME TypeInv, NEW d \in Devices, NEW uid \in Users
  PROVE  /\ Notified(d, uid, "Pairing Made") \subseteq Push
         /\ Notified(d, uid, "Pairing Canceled") \subseteq Push
<1>1. /\ [to |-> uid, title |-> "Pairing Made"] \in Push
      /\ [to |-> uid, title |-> "Pairing Canceled"] \in Push
  BY DEF Push
<1>2. pushes \subseteq Push
  BY DEF TypeInv, TypeOK
<1> QED BY <1>1, <1>2 DEF Notified

\* Every step keeps the types.
LEMMA NextType == TypeInv /\ [Next]_vars => TypeInv'
<1> SUFFICES ASSUME TypeInv, [Next]_vars PROVE TypeInv'
  OBVIOUS
<1>1. ASSUME NEW d \in Devices, Launch(d) PROVE TypeInv'
  <2> DEFINE es == IF view[d] = NoDocs THEN <<>> ELSE <<UsersEvent(view[d])>>
  <2>1. es \in Seq(EventOf(d))
    <3>1. UsersEvent(view[d]) \in EventOf(d)
      BY EventsType DEF TypeInv, TypeOK
    <3> QED BY <3>1, TuplesAreSequences
  <2>2. events' = [events EXCEPT ![d] = es]
    BY <1>1 DEF Launch, FirstSnapshot
  <2> HIDE DEF es
  <2>3. events' \in [Devices -> Seq(Event)] /\ FetchedDocuments'
    BY <2>1, <2>2, EventsPreserved
  <2>4. TypeOK'
    BY <1>1, <2>3 DEF Launch, TypeInv, TypeOK, disk, screen, budget, connection
  <2> QED BY <2>3, <2>4 DEF TypeInv
<1>2. ASSUME NEW d \in Devices, Die(d) PROVE TypeInv'
  <2>1. NoDocs \in [Users -> MaybeDoc]
    BY DEF NoDocs, MaybeDoc
  <2>2. <<>> \in Seq(EventOf(d))
    OBVIOUS
  <2>3. events' \in [Devices -> Seq(Event)] /\ FetchedDocuments'
    BY <1>2, <2>2, EventsPreserved DEF Die
  <2>4. TypeOK'
    BY <1>2, <2>1, <2>3, BoundsAssumption DEF Die, TypeInv, TypeOK, disk
  <2> QED BY <2>3, <2>4 DEF TypeInv
<1>3. ASSUME NEW d \in Devices, Persist(d) PROVE TypeInv'
  <2> DEFINE w == Head(calls[d])
             newView == Apply(w, view[d])
             es == EventsAfter(d, newView)
  <2>1. w \in Write /\ Tail(calls[d]) \in Seq(Write) /\ Append(queue[d], w) \in Seq(Write)
    BY <1>3, HeadTailProperties, AppendProperties DEF Persist, TypeInv, TypeOK
  <2>2. newView \in [Users -> MaybeDoc]
    <3> HIDE DEF w
    <3> QED BY <2>1, ApplyType DEF TypeInv, TypeOK
  <2>3. es \in Seq(EventOf(d))
    <3> HIDE DEF newView
    <3>1. UsersEvent(newView) \in EventOf(d)
      BY <2>2, EventsType
    <3> QED BY <3>1, AppendProperties DEF EventsAfter, TypeInv, FetchedDocuments
  <2>4. /\ calls' = [calls EXCEPT ![d] = Tail(calls[d])]
        /\ queue' = [queue EXCEPT ![d] = Append(queue[d], w)]
        /\ view' = [view EXCEPT ![d] = newView]
        /\ events' = [events EXCEPT ![d] = es]
    BY <1>3 DEF Persist
  <2> HIDE DEF w, newView, es
  <2>5. events' \in [Devices -> Seq(Event)] /\ FetchedDocuments'
    BY <2>3, <2>4, EventsPreserved
  <2>6. TypeOK'
    BY <1>3, <2>1, <2>2, <2>4, <2>5 DEF Persist, TypeInv, TypeOK, screen, budget, connection
  <2> QED BY <2>5, <2>6 DEF TypeInv
<1>4. ASSUME NEW d \in Devices, Commit(d) PROVE TypeInv'
  <2>1. Head(queue[d]) \in Write /\ Tail(queue[d]) \in Seq(Write)
    BY <1>4, HeadTailProperties DEF Commit, TypeInv, TypeOK
  <2>2. Apply(Head(queue[d]), docs) \in [Users -> Doc]
    BY <2>1, ApplyType DEF TypeInv, TypeOK
  <2>3. TypeOK'
    BY <1>4, <2>1, <2>2 DEF Commit, TypeInv, TypeOK, memory, screen, budget, connection
  <2>4. FetchedDocuments'
    BY <1>4 DEF Commit, TypeInv, FetchedDocuments, EventOf, memory
  <2> QED BY <2>3, <2>4 DEF TypeInv
<1>18. ASSUME NEW d \in Devices, CommitUnheard(d) PROVE TypeInv'
  <2> DEFINE n == unheard[d] + 1
  <2>1. n \in Nat /\ queue[d][n] \in Write
    <3>1. queue[d] \in Seq(Write) /\ unheard[d] \in Nat /\ unheard[d] < Len(queue[d])
      BY <1>18 DEF CommitUnheard, TypeInv, TypeOK
    <3>2. n \in 1..Len(queue[d])
      BY <3>1, LenProperties
    <3> QED BY <3>1, <3>2, ElementOfSeq
  <2>2. docs' = Apply(queue[d][n], docs) /\ unheard' = [unheard EXCEPT ![d] = n]
    BY <1>18 DEF CommitUnheard
  <2> HIDE DEF n
  <2>3. docs' \in [Users -> Doc] /\ unheard' \in [Devices -> Nat]
    BY <2>1, <2>2, ApplyType DEF TypeInv, TypeOK
  <2>4. losses' \in 0..MaxLosses
    BY <1>18, BoundsAssumption DEF CommitUnheard, TypeInv, TypeOK
  <2>5. UNCHANGED <<disk, running, memory, pushes, taps, kills>>
    BY <1>18 DEF CommitUnheard
  <2> QED
    BY <2>3, <2>4, <2>5 DEF TypeInv, TypeOK, FetchedDocuments, EventOf, disk, memory, screen
<1>19. ASSUME NEW d \in Devices, Reconnect(d) PROVE TypeInv'
  <2>1. unheard' \in [Devices -> Nat]
    BY <1>19 DEF Reconnect, TypeInv, TypeOK
  <2> QED
    BY <1>19, <2>1 DEF Reconnect, TypeInv, TypeOK, FetchedDocuments, EventOf, disk, memory, screen
<1>5. ASSUME NEW d \in Devices, Watch(d) PROVE TypeInv'
  <2> DEFINE newView == Overlay(queue[d], docs)
             es == Append(events[d], UsersEvent(newView))
  <2>1. newView \in [Users -> MaybeDoc]
    <3>1. newView \in [Users -> Doc]
      BY OverlayType DEF TypeInv, TypeOK
    <3> QED BY <3>1 DEF MaybeDoc
  <2>2. view' = [view EXCEPT ![d] = newView] /\ events' = [events EXCEPT ![d] = es]
    BY <1>5 DEF Watch
  <2>3. es \in Seq(EventOf(d))
    <3> HIDE DEF newView
    <3> QED BY <2>1, EventsType, AppendProperties DEF TypeInv, FetchedDocuments
  <2> HIDE DEF newView, es
  <2>4. events' \in [Devices -> Seq(Event)] /\ FetchedDocuments'
    BY <2>2, <2>3, EventsPreserved
  <2>5. TypeOK'
    BY <1>5, <2>1, <2>2, <2>4 DEF Watch, TypeInv, TypeOK, screen, budget, connection
  <2> QED BY <2>4, <2>5 DEF TypeInv
<1>6. ASSUME NEW d \in Devices, FetchDocument(d) PROVE TypeInv'
  <2> DEFINE doc == OwnDocument(d)
             newView == [view[d] EXCEPT ![Owner[d]] = doc]
             snapshots == IF newView = view[d] THEN <<>> ELSE <<UsersEvent(newView)>>
             loaded == <<SessionEvent(Owner[d], doc)>>
  <2>1. doc \in Doc
    <3>1. Overlay(queue[d], docs) \in [Users -> Doc]
      BY OverlayType DEF TypeInv, TypeOK
    <3> QED BY <3>1, PhonesAssumption DEF OwnDocument
  <2> HIDE DEF doc
  <2>2. newView \in [Users -> MaybeDoc]
    BY <2>1 DEF TypeInv, TypeOK, MaybeDoc
  <2>3. snapshots \in Seq(EventOf(d)) /\ loaded \in Seq(EventOf(d))
    <3> HIDE DEF newView
    <3> QED BY <2>1, <2>2, EventsType, TuplesAreSequences
  <2>4. view' = [view EXCEPT ![d] = newView]
    BY <1>6 DEF FetchDocument, doc
  <2>5. \/ events' = [events EXCEPT ![d] = (events[d] \o snapshots) \o loaded]
        \/ events' = [events EXCEPT ![d] = (events[d] \o loaded) \o snapshots]
    BY <1>6 DEF FetchDocument, doc
  <2> HIDE DEF newView, snapshots, loaded
  <2>6. /\ (events[d] \o snapshots) \o loaded \in Seq(EventOf(d))
        /\ (events[d] \o loaded) \o snapshots \in Seq(EventOf(d))
    BY <2>3, ConcatProperties DEF TypeInv, FetchedDocuments
  <2>7. events' \in [Devices -> Seq(Event)] /\ FetchedDocuments'
    BY <2>5, <2>6, EventsPreserved
  <2>8. /\ fetching' = [fetching EXCEPT ![d] = FALSE]
        /\ UNCHANGED <<docs, queue, calls, running, users, session, pairUp, showPairing,
                       pushes, taps, kills, unheard, losses>>
    BY <1>6 DEF FetchDocument, screen, budget, connection
  <2>9. TypeOK'
    BY <2>2, <2>4, <2>7, <2>8 DEF TypeInv, TypeOK
  <2> QED BY <2>7, <2>9 DEF TypeInv
<1>7. ASSUME NEW d \in Devices, FetchOffline(d) PROVE TypeInv'
  <2> DEFINE es == IF view[d][Owner[d]] = Nil THEN events[d]
                   ELSE Append(events[d], SessionEvent(Owner[d], view[d][Owner[d]]))
  <2>1. events' = [events EXCEPT ![d] = es]
    BY <1>7 DEF FetchOffline
  <2>2. view[d][Owner[d]] # Nil => view[d][Owner[d]] \in Doc
    BY PhonesAssumption DEF TypeInv, TypeOK, MaybeDoc
  <2>3. es \in Seq(EventOf(d))
    BY <2>2, EventsType, AppendProperties DEF TypeInv, FetchedDocuments
  <2> HIDE DEF es
  <2>4. events' \in [Devices -> Seq(Event)] /\ FetchedDocuments'
    BY <2>1, <2>3, EventsPreserved
  <2>5. TypeOK'
    BY <1>7, <2>4 DEF FetchOffline, TypeInv, TypeOK, disk, screen, budget, connection
  <2> QED BY <2>4, <2>5 DEF TypeInv
<1>8. ASSUME NEW d \in Devices, DeliverUsers(d) PROVE TypeInv'
  <2> DEFINE collection == Head(events[d]).docs
  <2>1. Head(events[d]) \in EventOf(d) /\ Tail(events[d]) \in Seq(EventOf(d))
    BY <1>8, HeadTailProperties DEF DeliverUsers, TypeInv, FetchedDocuments
  <2>2. collection \in [Users -> MaybeDoc]
    BY <2>1 DEF EventOf, Event
  <2>3. /\ events' = [events EXCEPT ![d] = Tail(events[d])]
        /\ users' = [users EXCEPT ![d] = collection]
        /\ session' = [session EXCEPT ![d] = Refreshed(d, collection)]
    BY <1>8 DEF DeliverUsers
  <2> HIDE DEF collection
  <2>4. Refreshed(d, collection) \in Session \cup {Nil}
    <3>1. collection[Owner[d]] # Nil => collection[Owner[d]] \in Doc
      BY <2>2, PhonesAssumption DEF MaybeDoc
    <3>2. \A doc \in Doc : SessionOf(doc) \in Session
      BY DEF SessionOf, Session, Doc
    <3> QED BY <3>1, <3>2 DEF Refreshed, TypeInv, TypeOK
  <2>5. events' \in [Devices -> Seq(Event)] /\ FetchedDocuments'
    BY <2>1, <2>3, EventsPreserved
  <2>6. pairUp' \in [Devices -> SUBSET Row] /\ showPairing' \in [Devices -> BOOLEAN]
    BY <1>8 DEF DeliverUsers, TypeInv, TypeOK, screen
  <2>7. UNCHANGED <<docs, view, queue, calls, running, fetching, pushes, taps, kills, unheard, losses>>
    BY <1>8 DEF DeliverUsers, disk, budget, connection
  <2>8. TypeOK'
    BY <2>2, <2>3, <2>4, <2>5, <2>6, <2>7 DEF TypeInv, TypeOK
  <2> QED BY <2>5, <2>8 DEF TypeInv
<1>9. ASSUME NEW d \in Devices, DeliverSession(d) PROVE TypeInv'
  <2> DEFINE doc == Head(events[d]).docs[Owner[d]]
  <2>1. Head(events[d]) \in EventOf(d) /\ Tail(events[d]) \in Seq(EventOf(d))
    BY <1>9, HeadTailProperties DEF DeliverSession, TypeInv, FetchedDocuments
  <2>2. doc \in Doc
    BY <1>9, <2>1 DEF DeliverSession, EventOf
  <2>3. SessionOf(doc) \in Session
    BY <2>2 DEF SessionOf, Session, Doc
  <2>4. events' = [events EXCEPT ![d] = Tail(events[d])] /\ session' = [session EXCEPT ![d] = SessionOf(doc)]
    BY <1>9 DEF DeliverSession
  <2>5. events' \in [Devices -> Seq(Event)] /\ FetchedDocuments'
    BY <2>1, <2>4, EventsPreserved
  <2>6. fetching' \in [Devices -> BOOLEAN]
    <3>1. fetching \in [Devices -> BOOLEAN] /\ (d \in Reappearing) \in BOOLEAN
      BY DEF TypeInv, TypeOK
    <3>2. fetching' = fetching \/ fetching' = [fetching EXCEPT ![d] = (d \in Reappearing)]
      BY <1>9 DEF DeliverSession, ScreenAppears
    <3> QED BY <3>1, <3>2
  <2>7. session' \in [Devices -> Session \cup {Nil}]
    BY <2>3, <2>4 DEF TypeInv, TypeOK
  <2>8. UNCHANGED <<docs, view, queue, calls, running, users, pairUp, showPairing, pushes,
                    taps, kills, unheard, losses>>
    BY <1>9 DEF DeliverSession, disk, screen, budget, connection
  <2>9. TypeOK'
    BY <2>5, <2>6, <2>7, <2>8 DEF TypeInv, TypeOK
  <2> QED BY <2>5, <2>9 DEF TypeInv
<1>10. ASSUME NEW d \in Devices, NEW hall \in Halls, MakeRequest(d, hall) PROVE TypeInv'
  <2>1. session[d] # Nil
    BY <1>10 DEF MakeRequest, OnFreshmanView, LoggedIn
  <2>2. calls' \in [Devices -> Seq(Write)] /\ taps' \in 0..MaxTaps
    BY <1>10, WritesType, DispatchType, PhonesAssumption DEF MakeRequest
  <2>3. session' \in [Devices -> Session \cup {Nil}]
    BY <1>10, <2>1, SessionEditType DEF MakeRequest
  <2>4. UNCHANGED <<docs, view, queue, running, events, fetching, users, pairUp, showPairing,
                    pushes, kills, unheard, losses>>
    BY <1>10 DEF MakeRequest, disk, connection, screen
  <2> QED BY <2>2, <2>3, <2>4 DEF TypeInv, TypeOK, FetchedDocuments, EventOf
<1>11. ASSUME NEW d \in Devices, CancelRequest(d) PROVE TypeInv'
  <2>1. session[d] # Nil
    BY <1>11 DEF CancelRequest, OnFreshmanView, LoggedIn
  <2>2. session[d].pairings \in Seq(Users)
    BY <2>1, SessionEditType
  <2>3. calls' \in [Devices -> Seq(Write)] /\ taps' \in 0..MaxTaps
    BY <1>11, <2>2, WritesType, DispatchType, PhonesAssumption DEF CancelRequest
  <2>4. session' \in [Devices -> Session \cup {Nil}]
    BY <1>11, <2>1, SessionEditType DEF CancelRequest
  <2>5. UNCHANGED <<docs, view, queue, running, events, fetching, users, pairUp, showPairing,
                    pushes, kills, unheard, losses>>
    BY <1>11 DEF CancelRequest, disk, connection, screen
  <2> QED BY <2>3, <2>4, <2>5 DEF TypeInv, TypeOK, FetchedDocuments, EventOf
<1>12. ASSUME NEW d \in Devices, NEW uid \in Users, OpenPairUp(d, uid) PROVE TypeInv'
  <2> DEFINE row == [uid |-> uid, diningHall |-> users[d][uid].diningHall]
  <2>1. users[d][uid] \in Doc
    BY <1>12 DEF OpenPairUp, TypeInv, TypeOK, MaybeDoc
  <2>2. row \in Row
    BY <2>1 DEF Row, Doc
  <2>3. pairUp' = [pairUp EXCEPT ![d] = {row}]
    BY <1>12 DEF OpenPairUp
  <2> HIDE DEF row
  <2>4. UNCHANGED <<docs, view, queue, running, calls, events, fetching, users, session,
                    showPairing, pushes, taps, kills, unheard, losses>>
    BY <1>12 DEF OpenPairUp, disk, budget, connection
  <2> QED BY <2>2, <2>3, <2>4 DEF TypeInv, TypeOK, FetchedDocuments, EventOf
<1>13. ASSUME NEW d \in Devices, Pair(d) PROVE TypeInv'
  <2>1. PICK row \in pairUp[d] :
          /\ LoggedIn(d) /\ ~Paired(d)
          /\ Dispatch(d, CreatePairing(Owner[d], row))
          /\ session' = [session EXCEPT ![d].pairings = Append(session[d].pairings, row.uid)]
          /\ pushes' = Notified(d, row.uid, "Pairing Made")
          /\ pairUp' = [pairUp EXCEPT ![d] = {}]
          /\ UNCHANGED <<docs, view, queue, running, events, fetching, users, showPairing, kills, unheard, losses>>
    BY <1>13 DEF Pair, disk, connection
  <2>2. row \in Row /\ row.uid \in Users
    BY DEF TypeInv, TypeOK, Row
  <2>3. session[d] # Nil
    BY <2>1 DEF LoggedIn
  <2>4. calls' \in [Devices -> Seq(Write)] /\ taps' \in 0..MaxTaps
    BY <2>1, <2>2, WritesType, DispatchType, PhonesAssumption
  <2>5. session' \in [Devices -> Session \cup {Nil}]
    <3>1. Append(session[d].pairings, row.uid) \in Seq(Users)
      BY <2>2, <2>3, SessionEditType, AppendProperties
    <3> QED BY <2>1, <2>3, <3>1, SessionEditType
  <2>6. pushes' \subseteq Push
    BY <2>1, <2>2, NotifiedType
  <2>7. pairUp' \in [Devices -> SUBSET Row]
    BY <2>1 DEF TypeInv, TypeOK
  <2> QED BY <2>1, <2>4, <2>5, <2>6, <2>7 DEF TypeInv, TypeOK, FetchedDocuments, EventOf
<1>14. ASSUME NEW d \in Devices, ShowPairing(d) PROVE TypeInv'
  BY <1>14 DEF ShowPairing, TypeInv, TypeOK, FetchedDocuments, EventOf, disk, budget, connection
<1>15. ASSUME NEW d \in Devices, Cancel(d) PROVE TypeInv'
  <2> DEFINE partner == Head(session[d].pairings)
  <2>1. /\ LoggedIn(d) /\ Paired(d)
        /\ pushes' = Notified(d, partner, "Pairing Canceled")
        /\ Dispatch(d, RemovePairing(Owner[d], partner))
        /\ session' = [session EXCEPT ![d].pairings = Tail(session[d].pairings)]
        /\ showPairing' = [showPairing EXCEPT ![d] = FALSE]
        /\ UNCHANGED <<docs, view, queue, running, events, fetching, users, pairUp, kills, unheard, losses>>
    BY <1>15 DEF Cancel, disk, connection
  <2>2. session[d] # Nil /\ session[d].pairings # <<>>
    BY <2>1 DEF Paired
  <2>3. partner \in Users /\ Tail(session[d].pairings) \in Seq(Users)
    BY <2>2, SessionEditType, HeadTailProperties
  <2> HIDE DEF partner
  <2>4. calls' \in [Devices -> Seq(Write)] /\ taps' \in 0..MaxTaps
    BY <2>1, <2>3, WritesType, DispatchType, PhonesAssumption
  <2>5. session' \in [Devices -> Session \cup {Nil}]
    BY <2>1, <2>2, <2>3, SessionEditType
  <2>6. pushes' \subseteq Push
    BY <2>1, <2>3, NotifiedType
  <2> QED BY <2>1, <2>4, <2>5, <2>6 DEF TypeInv, TypeOK, FetchedDocuments, EventOf
<1>16. ASSUME NEW d \in Devices, GoBack(d) PROVE TypeInv'
  BY <1>16 DEF GoBack, TypeInv, TypeOK, FetchedDocuments, EventOf, disk, budget, connection
<1>17. CASE UNCHANGED vars
  BY <1>17 DEF vars, disk, screen, memory, budget, connection, TypeInv, TypeOK, FetchedDocuments, EventOf
<1> QED
  BY <1>1, <1>2, <1>3, <1>4, <1>5, <1>6, <1>7, <1>8, <1>9, <1>10, <1>11, <1>12, <1>13,
     <1>14, <1>15, <1>16, <1>17, <1>18, <1>19 DEF Next, Tap, Fetch, Deliver

\* TypeInv is an invariant of the specification.
LEMMA TypeInvariance == Spec => []TypeInv
BY InitType, NextType, PTL DEF Spec

\* Every value stays what the code takes it for, after any number of taps, crashes and
\* late callbacks: in particular the arrays only hold uids, a row that was opened is a
\* user and the writes address documents.
THEOREM TypeCorrect == Spec => []TypeOK
BY TypeInvariance, PTL DEF TypeInv

----------------------------------------------------------------------------
(* No duplicates.                                                          *)

\* Documents without a repeated pairing.
UniqueDoc == {doc \in Doc : IsInjective(doc.pairings)}

\* NoDuplicatePairings, as a type: the server's documents and those of every view.
UniqueInv ==
  /\ docs \in [Users -> UniqueDoc]
  /\ view \in [Devices -> [Users -> UniqueDoc \cup {Nil}]]

\* A write repeats no pairing, and neither does a queue of writes.
LEMMA UniqueKept ==
  /\ \A w \in Write, x \in [Users -> UniqueDoc] : Apply(w, x) \in [Users -> UniqueDoc]
  /\ \A w \in Write, x \in [Users -> UniqueDoc \cup {Nil}] :
       Apply(w, x) \in [Users -> UniqueDoc \cup {Nil}]
  /\ \A ws \in Seq(Write), x \in [Users -> UniqueDoc] : Overlay(ws, x) \in [Users -> UniqueDoc]
<1>1. ASSUME NEW w \in Write, NEW doc \in UniqueDoc PROVE Patched(doc, w) \in UniqueDoc
  <2>1. Patched(doc, w) \in Doc
    BY PatchedType DEF UniqueDoc
  <2>2. IsInjective(Transformed(doc.pairings, w.arrayUnion, w.arrayRemove))
    <3>1. /\ doc.pairings \in Seq(Users) /\ IsInjective(doc.pairings)
          /\ w.arrayUnion \in SUBSET Users /\ w.arrayRemove \in SUBSET Users
      BY DEF UniqueDoc, Doc, Write
    <3> QED BY <3>1, TransformedProperties
  <2>3. Patched(doc, w).pairings = Transformed(doc.pairings, w.arrayUnion, w.arrayRemove)
    BY DEF Patched
  <2> QED BY <2>1, <2>2, <2>3 DEF UniqueDoc
<1>2. \A w \in Write, x \in [Users -> UniqueDoc] : Apply(w, x) \in [Users -> UniqueDoc]
  BY <1>1 DEF Apply, Write
<1>3. \A w \in Write, x \in [Users -> UniqueDoc \cup {Nil}] :
        Apply(w, x) \in [Users -> UniqueDoc \cup {Nil}]
  BY <1>1 DEF Apply, Write
<1>4. \A ws \in Seq(Write), x \in [Users -> UniqueDoc] : Overlay(ws, x) \in [Users -> UniqueDoc]
  BY <1>2, OverlayStaysIn
<1> QED BY <1>2, <1>3, <1>4

\* Only the worker and the server change documents.
LEMMA QuietSteps ==
  ASSUME [Next]_vars,
         ~\E d \in Devices : \/ Persist(d) \/ Commit(d) \/ CommitUnheard(d)
                             \/ Watch(d) \/ FetchDocument(d)
  PROVE  UNCHANGED <<docs, view, queue>>
<1>1. ASSUME NEW d \in Devices,
             \/ Launch(d) \/ Die(d) \/ FetchOffline(d) \/ DeliverUsers(d) \/ DeliverSession(d)
             \/ Reconnect(d)
      PROVE  UNCHANGED <<docs, view, queue>>
  BY <1>1 DEF Launch, Die, Reconnect, FetchOffline, DeliverUsers, DeliverSession, disk
<1>2. ASSUME NEW d \in Devices, Tap(d) PROVE UNCHANGED <<docs, view, queue>>
  BY <1>2 DEF Tap, MakeRequest, CancelRequest, OpenPairUp, Pair, ShowPairing, Cancel, GoBack, disk
<1>3. CASE UNCHANGED vars
  BY <1>3 DEF vars, disk
<1> QED BY <1>1, <1>2, <1>3 DEF Next, Fetch, Deliver

\* A write that the server applies is one of the queue.
LEMMA AppliedWrites ==
  ASSUME TypeInv, NEW d \in Devices, Commit(d) \/ CommitUnheard(d)
  PROVE  \E i \in 1..Len(queue[d]) : docs' = Apply(queue[d][i], docs)
<1>0. queue[d] \in Seq(Write) /\ Len(queue[d]) \in Nat /\ unheard[d] \in Nat
  BY LenProperties DEF TypeInv, TypeOK
<1>1. CASE Commit(d)
  <2>1. queue[d] # <<>> /\ docs' = Apply(Head(queue[d]), docs)
    BY <1>1 DEF Commit
  <2>2. 1 \in 1..Len(queue[d]) /\ Head(queue[d]) = queue[d][1]
    BY <1>0, <2>1, EmptySeq
  <2> QED BY <2>1, <2>2
<1>2. CASE CommitUnheard(d)
  <2>1. unheard[d] < Len(queue[d]) /\ docs' = Apply(queue[d][unheard[d] + 1], docs)
    BY <1>2 DEF CommitUnheard
  <2>2. unheard[d] + 1 \in 1..Len(queue[d])
    BY <1>0, <2>1
  <2> QED BY <2>1, <2>2
<1> QED BY <1>1, <1>2

\* Every step keeps the pairings free of duplicates.
LEMMA NextUnique == TypeInv /\ UniqueInv /\ [Next]_vars => UniqueInv'
<1> SUFFICES ASSUME TypeInv, UniqueInv, [Next]_vars PROVE UniqueInv'
  OBVIOUS
<1>1. ASSUME NEW d \in Devices, Persist(d) PROVE UniqueInv'
  <2>1. Head(calls[d]) \in Write
    BY <1>1, HeadTailProperties DEF Persist, TypeInv, TypeOK
  <2>2. Apply(Head(calls[d]), view[d]) \in [Users -> UniqueDoc \cup {Nil}]
    BY <2>1, UniqueKept DEF UniqueInv
  <2>3. docs' = docs /\ view' = [view EXCEPT ![d] = Apply(Head(calls[d]), view[d])]
    BY <1>1 DEF Persist
  <2> QED BY <2>2, <2>3 DEF UniqueInv
<1>2. ASSUME NEW d \in Devices, Commit(d) \/ CommitUnheard(d) PROVE UniqueInv'
  <2>1. PICK i \in 1..Len(queue[d]) : docs' = Apply(queue[d][i], docs)
    BY <1>2, AppliedWrites
  <2>2. queue[d][i] \in Write
    BY ElementOfSeq DEF TypeInv, TypeOK
  <2>3. Apply(queue[d][i], docs) \in [Users -> UniqueDoc]
    BY <2>2, UniqueKept DEF UniqueInv
  <2>4. view' = view
    BY <1>2 DEF Commit, CommitUnheard, disk
  <2> QED BY <2>1, <2>3, <2>4 DEF UniqueInv
<1>3. ASSUME NEW d \in Devices PROVE Overlay(queue[d], docs) \in [Users -> UniqueDoc]
  BY UniqueKept DEF TypeInv, TypeOK, UniqueInv
<1>4. ASSUME NEW d \in Devices, Watch(d) PROVE UniqueInv'
  <2>1. docs' = docs /\ view' = [view EXCEPT ![d] = Overlay(queue[d], docs)]
    BY <1>4 DEF Watch
  <2> QED BY <1>3, <2>1 DEF UniqueInv
<1>5. ASSUME NEW d \in Devices, FetchDocument(d) PROVE UniqueInv'
  <2>1. OwnDocument(d) \in UniqueDoc
    BY <1>3, PhonesAssumption DEF OwnDocument
  <2>2. docs' = docs /\ view' = [view EXCEPT ![d] = [view[d] EXCEPT ![Owner[d]] = OwnDocument(d)]]
    BY <1>5 DEF FetchDocument
  <2> QED BY <2>1, <2>2 DEF UniqueInv
<1>6. CASE UNCHANGED <<docs, view, queue>>
  BY <1>6 DEF UniqueInv
<1> QED BY <1>1, <1>2, <1>4, <1>5, <1>6, QuietSteps

\* UniqueInv is an invariant.
LEMMA UniqueInvariance == Spec => []UniqueInv
<1>1. Init => UniqueInv
  <2>1. NewDoc \in UniqueDoc
    BY DEF NewDoc, UniqueDoc, Doc, IsInjective
  <2>2. Init => docs \in [Users -> UniqueDoc]
    BY <2>1 DEF Init
  <2>3. Init => view \in [Devices -> [Users -> UniqueDoc \cup {Nil}]]
    BY <2>2 DEF Init, NoDocs
  <2> QED BY <2>2, <2>3 DEF UniqueInv
<1> QED BY <1>1, NextUnique, TypeInvariance, PTL DEF Spec

\* The pairings of a document never name a user twice, on the server or in the view of
\* a phone, however often pair() runs on a session that a late snapshot set back.
THEOREM NoDuplicates == Spec => []NoDuplicatePairings
<1>1. UniqueInv => NoDuplicatePairings
  BY DEF UniqueInv, UniqueDoc, NoDuplicatePairings
<1> QED BY <1>1, UniqueInvariance, PTL

----------------------------------------------------------------------------
(* Who may write what to the document of a freshman.                       *)

\* The writes a phone may send: none adds a freshman to a freshman's pairings, and one
\* that sets the dining hall of a freshman comes from that freshman.
ProperWrite(d) ==
  {w \in Write : w.uid \in Freshmen =>
     /\ w.arrayUnion \cap Freshmen = {}
     /\ w.diningHall # {} => w.uid = Owner[d]}

\* On top of the two properties: pending writes are proper, and PairUpView is only on
\* a giver's screen, because its row was opened in the list of requests.
RolesInv ==
  /\ \A d \in Devices : queue[d] \in Seq(ProperWrite(d)) /\ calls[d] \in Seq(ProperWrite(d))
  /\ \A d \in Devices : pairUp[d] # {} => ~IsFreshman(d)
  /\ FreshmenPairWithGivers

\* The operations of FirebaseSession send proper writes; createPairing is a giver's.
LEMMA ProperWrites ==
  ASSUME NEW d \in Devices, Owner[d] \in Users
  PROVE  /\ \A hall \in Halls : <<SetRequest(Owner[d], hall, TRUE)>> \in Seq(ProperWrite(d))
         /\ \A ps \in Seq(Users) : CancelMealRequest(Owner[d], ps) \in Seq(ProperWrite(d))
         /\ ~IsFreshman(d) =>
              \A row \in Row : CreatePairing(Owner[d], row) \in Seq(ProperWrite(d))
         /\ \A other \in Users : RemovePairing(Owner[d], other) \in Seq(ProperWrite(d))
<1>1. \A u, v \in Users : DropPairing(u, v) \in ProperWrite(d)
  BY DEF ProperWrite, Write, DropPairing
<1>2. \A u \in Users : SetRequesting(u, FALSE) \in ProperWrite(d) /\ SetRequesting(u, TRUE) \in ProperWrite(d)
  BY DEF ProperWrite, Write, SetRequesting
<1>3. ASSUME NEW hall \in Halls PROVE <<SetRequest(Owner[d], hall, TRUE)>> \in Seq(ProperWrite(d))
  <2>1. SetRequest(Owner[d], hall, TRUE) \in ProperWrite(d)
    BY DEF ProperWrite, Write, SetRequest
  <2> QED BY <2>1, TuplesAreSequences
<1>4. ASSUME NEW ps \in Seq(Users) PROVE CancelMealRequest(Owner[d], ps) \in Seq(ProperWrite(d))
  <2> DEFINE me == Owner[d]
             first == <<SetRequest(me, NoHall, FALSE)>>
             unpair == IF ps = <<>> THEN <<>>
                       ELSE <<DropPairing(Head(ps), me), DropPairing(me, Head(ps))>>
             last == <<SetRequesting(me, FALSE)>>
  <2>1. SetRequest(me, NoHall, FALSE) \in ProperWrite(d)
    BY DEF ProperWrite, Write, SetRequest
  <2>2. first \in Seq(ProperWrite(d)) /\ last \in Seq(ProperWrite(d))
    BY <1>2, <2>1, TuplesAreSequences
  <2>3. unpair \in Seq(ProperWrite(d))
    <3>1. CASE ps = <<>>
      BY <3>1
    <3>2. CASE ps # <<>>
      <4>1. Head(ps) \in Users
        BY <3>2, HeadTailProperties
      <4> QED BY <1>1, <3>2, <4>1, TuplesAreSequences
    <3> QED BY <3>1, <3>2
  <2>4. CancelMealRequest(me, ps) = (first \o unpair) \o last
    BY DEF CancelMealRequest
  <2> HIDE DEF first, unpair, last
  <2> QED BY <2>2, <2>3, <2>4, ConcatProperties
<1>5. ASSUME ~IsFreshman(d), NEW row \in Row
      PROVE  CreatePairing(Owner[d], row) \in Seq(ProperWrite(d))
  <2>1. row.uid \in Users /\ row.diningHall \in Halls \cup {NoHall} /\ Owner[d] \notin Freshmen
    BY <1>5 DEF Row, IsFreshman
  <2>2. PairWith(Owner[d], row.uid, row.diningHall) \in ProperWrite(d)
    BY <2>1 DEF ProperWrite, Write, PairWith
  <2>3. AddPairing(row.uid, Owner[d]) \in ProperWrite(d)
    BY <2>1 DEF ProperWrite, Write, AddPairing
  <2> QED BY <1>2, <2>1, <2>2, <2>3, TuplesAreSequences DEF CreatePairing
<1>6. ASSUME NEW other \in Users PROVE RemovePairing(Owner[d], other) \in Seq(ProperWrite(d))
  BY <1>1, <1>2, TuplesAreSequences DEF RemovePairing
<1> QED BY <1>3, <1>4, <1>5, <1>6

\* A proper write keeps freshmen apart.
LEMMA ProperKeepsApart ==
  ASSUME TypeInv, FreshmenPairWithGivers, NEW d \in Devices, NEW w \in ProperWrite(d)
  PROVE  \A u \in Freshmen : ToSet(Apply(w, docs)[u].pairings) \cap Freshmen = {}
<1> SUFFICES ASSUME NEW u \in Freshmen
             PROVE  ToSet(Apply(w, docs)[u].pairings) \cap Freshmen = {}
  OBVIOUS
<1>0. /\ u \in Users /\ docs \in [Users -> Doc] /\ w.uid \in Users
      /\ ToSet(docs[u].pairings) \cap Freshmen = {}
  BY PhonesAssumption DEF TypeInv, TypeOK, FreshmenPairWithGivers, ProperWrite, Write
<1>1. CASE docs[w.uid] = Nil \/ w.uid # u
  BY <1>0, <1>1 DEF Apply
<1>2. CASE docs[w.uid] # Nil /\ w.uid = u
  <2>1. Apply(w, docs)[u].pairings = Transformed(docs[u].pairings, w.arrayUnion, w.arrayRemove)
    BY <1>0, <1>2 DEF Apply, Patched
  <2>2. /\ docs[u].pairings \in Seq(Users)
        /\ w.arrayUnion \in SUBSET Users /\ w.arrayRemove \in SUBSET Users
    BY <1>0 DEF Doc, ProperWrite, Write
  <2>3. ToSet(Apply(w, docs)[u].pairings) \subseteq ToSet(docs[u].pairings) \cup w.arrayUnion
    BY <2>1, <2>2, TransformedProperties
  <2>4. w.arrayUnion \cap Freshmen = {}
    BY <1>2 DEF ProperWrite
  <2> QED BY <1>0, <2>3, <2>4
<1> QED BY <1>1, <1>2

\* A phone with proper writes gets more of them from a tap, and nothing else changes
\* the documents or the queues.
LEMMA DispatchProper ==
  ASSUME TypeInv, RolesInv, NEW d \in Devices, NEW writes \in Seq(ProperWrite(d)),
         Dispatch(d, writes), UNCHANGED <<docs, queue>>
  PROVE  /\ \A e \in Devices : queue'[e] \in Seq(ProperWrite(e)) /\ calls'[e] \in Seq(ProperWrite(e))
         /\ FreshmenPairWithGivers'
<1>1. calls[d] \o writes \in Seq(ProperWrite(d))
  BY ConcatProperties DEF RolesInv
<1>2. calls' = [calls EXCEPT ![d] = calls[d] \o writes]
  BY DEF Dispatch
<1> QED BY <1>1, <1>2 DEF RolesInv, TypeInv, TypeOK, FreshmenPairWithGivers

\* A step that leaves documents and pending writes alone.
LEMMA RolesUntouched ==
  ASSUME RolesInv, UNCHANGED <<docs, queue, calls>>,
         \A d \in Devices : pairUp'[d] # {} => ~IsFreshman(d)
  PROVE  RolesInv'
BY DEF RolesInv, FreshmenPairWithGivers, ProperWrite, IsFreshman

\* Every step keeps the roles of freshmen and givers.
LEMMA NextRoles == TypeInv /\ RolesInv /\ [Next]_vars => RolesInv'
<1> SUFFICES ASSUME TypeInv, RolesInv, [Next]_vars PROVE RolesInv'
  OBVIOUS
<1>0. /\ pairUp \in [Devices -> SUBSET Row]
      /\ \A d \in Devices : pairUp[d] # {} => ~IsFreshman(d)
      /\ \A d \in Devices : Owner[d] \in Users
  BY PhonesAssumption DEF TypeInv, TypeOK, RolesInv
<1>1. ASSUME NEW d \in Devices, Launch(d) \/ Watch(d) \/ FetchDocument(d) \/ FetchOffline(d)
                                 \/ DeliverSession(d) \/ ShowPairing(d) \/ Reconnect(d)
      PROVE  RolesInv'
  <2>1. UNCHANGED <<docs, queue, calls, pairUp>>
    BY <1>1 DEF Launch, Watch, FetchDocument, FetchOffline, DeliverSession, ShowPairing,
                Reconnect, disk, memory, screen
  <2> QED BY <1>0, <2>1, RolesUntouched
<1>2. ASSUME NEW d \in Devices, Die(d) PROVE RolesInv'
  <2>1. /\ UNCHANGED <<docs, queue>>
        /\ calls' = [calls EXCEPT ![d] = <<>>]
        /\ pairUp' = [pairUp EXCEPT ![d] = {}]
    BY <1>2 DEF Die, disk
  <2>2. \A e \in Devices : pairUp'[e] # {} => ~IsFreshman(e)
    BY <1>0, <2>1
  <2>3. \A e \in Devices : calls'[e] \in Seq(ProperWrite(e))
    <3>1. <<>> \in Seq(ProperWrite(d))
      OBVIOUS
    <3> QED BY <2>1, <3>1 DEF RolesInv, TypeInv, TypeOK
  <2> QED BY <2>1, <2>2, <2>3 DEF RolesInv, FreshmenPairWithGivers, ProperWrite, IsFreshman
<1>3. ASSUME NEW d \in Devices, Persist(d) PROVE RolesInv'
  <2>1. /\ UNCHANGED <<docs, pairUp>>
        /\ calls[d] # <<>>
        /\ calls' = [calls EXCEPT ![d] = Tail(calls[d])]
        /\ queue' = [queue EXCEPT ![d] = Append(queue[d], Head(calls[d]))]
    BY <1>3 DEF Persist, screen
  <2>2. Head(calls[d]) \in ProperWrite(d) /\ Tail(calls[d]) \in Seq(ProperWrite(d))
    BY <2>1, HeadTailProperties DEF RolesInv
  <2>3. Append(queue[d], Head(calls[d])) \in Seq(ProperWrite(d))
    BY <2>2, AppendProperties DEF RolesInv
  <2>4. \A e \in Devices : queue'[e] \in Seq(ProperWrite(e)) /\ calls'[e] \in Seq(ProperWrite(e))
    BY <2>1, <2>2, <2>3 DEF RolesInv, TypeInv, TypeOK
  <2> QED BY <2>1, <2>4 DEF RolesInv, FreshmenPairWithGivers, ProperWrite, IsFreshman
<1>4. ASSUME NEW d \in Devices, Commit(d) \/ CommitUnheard(d) PROVE RolesInv'
  <2>1. PICK i \in 1..Len(queue[d]) : docs' = Apply(queue[d][i], docs)
    BY <1>4, AppliedWrites
  <2>2. queue[d] \in Seq(ProperWrite(d)) /\ queue[d][i] \in ProperWrite(d)
    BY ElementOfSeq DEF RolesInv
  <2>3. FreshmenPairWithGivers'
    <3>1. \A u \in Freshmen : ToSet(Apply(queue[d][i], docs)[u].pairings) \cap Freshmen = {}
      BY <2>2, ProperKeepsApart DEF RolesInv
    <3> QED BY <2>1, <3>1 DEF FreshmenPairWithGivers
  <2>4. UNCHANGED <<calls, pairUp>>
    BY <1>4 DEF Commit, CommitUnheard, memory, screen
  <2>5. \A e \in Devices : queue'[e] \in Seq(ProperWrite(e))
    <3>1. CASE Commit(d)
      <4>1. queue[d] # <<>> /\ queue' = [queue EXCEPT ![d] = Tail(queue[d])]
        BY <3>1 DEF Commit
      <4>2. Tail(queue[d]) \in Seq(ProperWrite(d))
        BY <2>2, <4>1, HeadTailProperties
      <4> QED BY <4>1, <4>2 DEF RolesInv, TypeInv, TypeOK
    <3>2. CASE CommitUnheard(d)
      BY <3>2 DEF CommitUnheard, disk, RolesInv
    <3> QED BY <1>4, <3>1, <3>2
  <2> QED BY <2>3, <2>4, <2>5 DEF RolesInv, ProperWrite, IsFreshman
<1>5. ASSUME NEW d \in Devices, DeliverUsers(d) \/ GoBack(d) PROVE RolesInv'
  <2>1. UNCHANGED <<docs, queue, calls>>
    BY <1>5 DEF DeliverUsers, GoBack, disk
  <2>2. pairUp' = pairUp \/ pairUp' = [pairUp EXCEPT ![d] = {}]
    BY <1>5 DEF DeliverUsers, GoBack, screen
  <2>3. \A e \in Devices : pairUp'[e] # {} => ~IsFreshman(e)
    BY <1>0, <2>2
  <2> QED BY <2>1, <2>3, RolesUntouched
<1>6. ASSUME NEW d \in Devices, NEW uid \in Users, OpenPairUp(d, uid) PROVE RolesInv'
  <2>1. UNCHANGED <<docs, queue, calls>> /\ ~IsFreshman(d)
    BY <1>6 DEF OpenPairUp, OnRequestList, disk
  <2>2. \A e \in Devices : pairUp'[e] # {} => ~IsFreshman(e)
    BY <1>0, <1>6, <2>1 DEF OpenPairUp
  <2> QED BY <2>1, <2>2, RolesUntouched
<1>7. ASSUME NEW d \in Devices, NEW hall \in Halls, MakeRequest(d, hall) PROVE RolesInv'
  <2>1. UNCHANGED <<docs, queue, pairUp>> /\ Dispatch(d, <<SetRequest(Owner[d], hall, TRUE)>>)
    BY <1>7 DEF MakeRequest, disk, screen
  <2>2. <<SetRequest(Owner[d], hall, TRUE)>> \in Seq(ProperWrite(d))
    BY <1>0, ProperWrites
  <2> QED BY <1>0, <2>1, <2>2, DispatchProper DEF RolesInv, ProperWrite, IsFreshman
<1>8. ASSUME NEW d \in Devices, CancelRequest(d) PROVE RolesInv'
  <2>1. /\ UNCHANGED <<docs, queue, pairUp>> /\ session[d] # Nil
        /\ Dispatch(d, CancelMealRequest(Owner[d], session[d].pairings))
    BY <1>8 DEF CancelRequest, OnFreshmanView, LoggedIn, disk, screen
  <2>2. CancelMealRequest(Owner[d], session[d].pairings) \in Seq(ProperWrite(d))
    BY <1>0, <2>1, SessionEditType, ProperWrites
  <2> QED BY <1>0, <2>1, <2>2, DispatchProper DEF RolesInv, ProperWrite, IsFreshman
<1>9. ASSUME NEW d \in Devices, Pair(d) PROVE RolesInv'
  <2>1. PICK row \in pairUp[d] : /\ UNCHANGED <<docs, queue>>
                                 /\ Dispatch(d, CreatePairing(Owner[d], row))
                                 /\ pairUp' = [pairUp EXCEPT ![d] = {}]
    BY <1>9 DEF Pair, disk
  <2>2. row \in Row /\ ~IsFreshman(d)
    BY <1>0
  <2>3. CreatePairing(Owner[d], row) \in Seq(ProperWrite(d))
    BY <1>0, <2>2, ProperWrites
  <2>4. \A e \in Devices : pairUp'[e] # {} => ~IsFreshman(e)
    BY <1>0, <2>1
  <2> QED BY <2>1, <2>3, <2>4, DispatchProper DEF RolesInv, ProperWrite, IsFreshman
<1>10. ASSUME NEW d \in Devices, Cancel(d) PROVE RolesInv'
  <2>1. /\ UNCHANGED <<docs, queue, pairUp>> /\ session[d] # Nil /\ session[d].pairings # <<>>
        /\ Dispatch(d, RemovePairing(Owner[d], Head(session[d].pairings)))
    BY <1>10 DEF Cancel, Paired, disk
  <2>2. Head(session[d].pairings) \in Users
    BY <2>1, SessionEditType, HeadTailProperties
  <2>3. RemovePairing(Owner[d], Head(session[d].pairings)) \in Seq(ProperWrite(d))
    BY <1>0, <2>2, ProperWrites
  <2> QED BY <1>0, <2>1, <2>3, DispatchProper DEF RolesInv, ProperWrite, IsFreshman
<1>11. CASE UNCHANGED vars
  BY <1>0, <1>11, RolesUntouched DEF vars, disk, memory, screen
<1> QED
  BY <1>1, <1>2, <1>3, <1>4, <1>5, <1>6, <1>7, <1>8, <1>9, <1>10, <1>11
     DEF Next, Tap, Fetch, Deliver

\* RolesInv is an invariant, relative to the type invariant.
LEMMA RolesInvariance == Spec => []RolesInv
<1>1. Init => RolesInv
  <2> SUFFICES ASSUME Init PROVE RolesInv
    OBVIOUS
  <2>1. /\ docs = [u \in Users |-> NewDoc]
        /\ queue = [d \in Devices |-> <<>>]
        /\ calls = [d \in Devices |-> <<>>]
        /\ pairUp = [d \in Devices |-> {}]
    BY DEF Init
  <2>2. FreshmenPairWithGivers
    <3> SUFFICES ASSUME NEW u \in Freshmen PROVE ToSet(docs[u].pairings) \cap Freshmen = {}
      BY DEF FreshmenPairWithGivers
    <3>1. docs[u].pairings = <<>>
      BY <2>1, PhonesAssumption DEF NewDoc
    <3> QED BY <3>1 DEF ToSet
  <2>3. ASSUME NEW d \in Devices
        PROVE  queue[d] \in Seq(ProperWrite(d)) /\ calls[d] \in Seq(ProperWrite(d))
    <3>1. queue[d] = <<>> /\ calls[d] = <<>>
      BY <2>1
    <3> QED BY <3>1
  <2>4. \A d \in Devices : pairUp[d] = {}
    BY <2>1
  <2> QED BY <2>2, <2>3, <2>4 DEF RolesInv
<1> QED BY <1>1, NextRoles, TypeInvariance, PTL DEF Spec

\* Freshmen are never paired with freshmen, whoever is listed again by a cancellation
\* and however stale the row that was opened.
THEOREM FreshmenAndGivers == Spec => []FreshmenPairWithGivers
BY RolesInvariance, PTL DEF RolesInv

----------------------------------------------------------------------------
(* The request of a freshman.                                              *)

\* Only a write to a document that mentions diningHall changes the field.
LEMMA HallKept ==
  ASSUME NEW c \in [Users -> Doc], NEW w \in Write, NEW u \in Users,
         w.uid # u \/ w.diningHall = {}
  PROVE  Apply(w, c)[u].diningHall = c[u].diningHall
<1>1. CASE c[w.uid] = Nil
  BY <1>1 DEF Apply
<1>2. CASE c[w.uid] # Nil
  <2>1. w.uid \in Users
    BY DEF Write
  <2>2. Apply(w, c) = [c EXCEPT ![w.uid] = Patched(c[w.uid], w)]
    BY <1>2 DEF Apply
  <2>3. CASE w.uid # u
    BY <2>1, <2>2, <2>3
  <2>4. CASE w.uid = u /\ w.diningHall = {}
    <3>1. Apply(w, c)[u] = Patched(c[u], w)
      BY <2>1, <2>2, <2>4
    <3>2. Patched(c[u], w).diningHall = Assigned(w.diningHall, c[u].diningHall)
      BY DEF Patched
    <3> QED BY <2>4, <3>1, <3>2 DEF Assigned
  <2> QED BY <2>3, <2>4
<1> QED BY <1>1, <1>2

\* The dining hall of a freshman's request changes on the server only when a write from
\* a phone of that freshman arrives there.
THEOREM RequestsAreOwn == Spec => RequestIsOwn
<1> DEFINE Step == \A u \in Freshmen :
      docs'[u].diningHall # docs[u].diningHall =>
        \E d \in Devices : Owner[d] = u
          /\ \E i \in DOMAIN queue[d] : docs' = Apply(queue[d][i], docs)
<1>1. TypeInv /\ RolesInv /\ [Next]_vars => [Step]_vars
  <2> SUFFICES ASSUME TypeInv, RolesInv, Next, NEW u \in Freshmen,
                      docs'[u].diningHall # docs[u].diningHall
               PROVE  \E d \in Devices : Owner[d] = u
                        /\ \E i \in DOMAIN queue[d] : docs' = Apply(queue[d][i], docs)
    OBVIOUS
  <2>1. PICK d \in Devices : Commit(d) \/ CommitUnheard(d)
    <3>1. docs' # docs
      OBVIOUS
    <3>2. ASSUME NEW d \in Devices, Persist(d) \/ Watch(d) \/ FetchDocument(d)
          PROVE  UNCHANGED docs
      BY <3>2 DEF Persist, Watch, FetchDocument
    <3> QED BY <3>1, <3>2, QuietSteps
  <2>2. PICK i \in 1..Len(queue[d]) : docs' = Apply(queue[d][i], docs)
    BY <2>1, AppliedWrites
  <2>3. queue[d] \in Seq(ProperWrite(d)) /\ queue[d][i] \in ProperWrite(d)
    BY ElementOfSeq DEF RolesInv
  <2>4. queue[d][i].uid = u /\ queue[d][i].diningHall # {}
    <3>1. u \in Users /\ docs \in [Users -> Doc] /\ queue[d][i] \in Write
      BY <2>3, PhonesAssumption DEF TypeInv, TypeOK, ProperWrite
    <3> QED BY <2>2, <3>1, HallKept
  <2>5. Owner[d] = u
    BY <2>3, <2>4 DEF ProperWrite
  <2>6. i \in DOMAIN queue[d]
    BY <2>3, LenProperties
  <2> QED BY <2>2, <2>5, <2>6
<1>2. Spec => [][Step]_vars
  BY <1>1, TypeInvariance, RolesInvariance, PTL DEF Spec
<1> QED BY <1>2 DEF RequestIsOwn

=============================================================================
