-------------------------- MODULE Announcements_proofs -------------------------
(***************************************************************************)
(* Nobody is paired without being told. pair() notifies a user it finds    *)
(* among the users, and the row of the user may be older than they are:    *)
(* the proof is that a phone never forgets a user (KnownInv), so that      *)
(* every write that pairs a freshman follows a notification                *)
(* (AnnouncedInv).                                                         *)
(***************************************************************************)
EXTENDS MealExchange_proofs

----------------------------------------------------------------------------
(* What a phone knows only grows.                                          *)

\* The users that have a document in a collection.
Known(x) == {u \in Users : x[u] # Nil}

\* The snapshots that are waiting, in order, know more and more: from the users that are
\* listed to those of the local view.
Grows(listed, es, viewed) ==
  /\ listed \subseteq viewed
  /\ \A i \in DOMAIN es : es[i].kind = "users" =>
       listed \subseteq Known(es[i].docs) /\ Known(es[i].docs) \subseteq viewed
  /\ \A i, j \in DOMAIN es : i <= j /\ es[i].kind = "users" /\ es[j].kind = "users" =>
       Known(es[i].docs) \subseteq Known(es[j].docs)

\* Snapshots know more and more, and the row of PairUpView is one of a listed user, however
\* old it is.
KnownInv ==
  \A d \in Devices :
    /\ Grows(Known(users[d]), events[d], Known(view[d]))
    /\ \A row \in pairUp[d] : users[d][row.uid] # Nil

\* Snapshots are added behind the others, when the view has grown, and served in order.
LEMMA GrowsOn ==
  ASSUME NEW es \in Seq(Event), NEW listed, NEW viewed, Grows(listed, es, viewed)
  PROVE  /\ \A more : viewed \subseteq more => Grows(listed, es, more)
         /\ \A e \in Event : e.kind = "users" /\ Known(e.docs) = viewed =>
              Grows(listed, Append(es, e), viewed)
         /\ \A e \in Event : e.kind = "session" => Grows(listed, Append(es, e), viewed)
         /\ es # <<>> =>
              Grows(IF Head(es).kind = "users" THEN Known(Head(es).docs) ELSE listed,
                    Tail(es), viewed)
         /\ es # <<>> /\ Head(es).kind = "users" => listed \subseteq Known(Head(es).docs)
<1> DEFINE n == Len(es)
<1>0. n \in Nat /\ DOMAIN es = 1..n
  BY LenProperties
<1>1. ASSUME NEW e \in Event
      PROVE  /\ DOMAIN Append(es, e) = 1..(n + 1)
             /\ \A i \in 1..n : Append(es, e)[i] = es[i]
             /\ Append(es, e)[n + 1] = e
  BY <1>0, AppendProperties, LenProperties
<1>2. ASSUME es # <<>>
      PROVE  /\ Head(es) = es[1] /\ 1 \in 1..n /\ DOMAIN Tail(es) = 1..(n - 1)
             /\ \A i \in 1..(n - 1) : Tail(es)[i] = es[i + 1] /\ i + 1 \in 1..n
  BY <1>0, <1>2, HeadTailProperties, LenProperties, EmptySeq
<1> HIDE DEF n
<1>3. ASSUME NEW more, viewed \subseteq more PROVE Grows(listed, es, more)
  BY <1>3 DEF Grows
<1>4. ASSUME NEW e \in Event, e.kind = "users" => Known(e.docs) = viewed
      PROVE  Grows(listed, Append(es, e), viewed)
  <2>1. ASSUME NEW i \in 1..(n + 1), Append(es, e)[i].kind = "users"
        PROVE  /\ listed \subseteq Known(Append(es, e)[i].docs)
               /\ Known(Append(es, e)[i].docs) \subseteq viewed
    <3>1. CASE i = n + 1
      BY <1>1, <1>4, <2>1, <3>1 DEF Grows
    <3>2. CASE i # n + 1
      BY <1>0, <1>1, <2>1, <3>2 DEF Grows
    <3> QED BY <3>1, <3>2
  <2>2. ASSUME NEW i \in 1..(n + 1), NEW j \in 1..(n + 1), i <= j,
               Append(es, e)[i].kind = "users", Append(es, e)[j].kind = "users"
        PROVE  Known(Append(es, e)[i].docs) \subseteq Known(Append(es, e)[j].docs)
    <3>1. CASE j = n + 1
      BY <1>1, <1>4, <2>1, <2>2, <3>1
    <3>2. CASE j # n + 1
      <4>1. i \in 1..n /\ j \in 1..n
        BY <1>0, <2>2, <3>2
      <4>2. Append(es, e)[i] = es[i] /\ Append(es, e)[j] = es[j]
        BY <1>1, <4>1
      <4>3. es[i].kind = "users" /\ es[j].kind = "users" /\ i \in DOMAIN es /\ j \in DOMAIN es
        BY <1>0, <2>2, <4>1, <4>2
      <4>4. Known(es[i].docs) \subseteq Known(es[j].docs)
        BY <2>2, <4>3 DEF Grows
      <4> QED BY <4>2, <4>4
    <3> QED BY <3>1, <3>2
  <2>3. listed \subseteq viewed /\ DOMAIN Append(es, e) = 1..(n + 1)
    BY <1>1 DEF Grows
  <2> DEFINE longer == Append(es, e)
  <2>4. /\ \A i \in DOMAIN longer : longer[i].kind = "users" =>
              listed \subseteq Known(longer[i].docs) /\ Known(longer[i].docs) \subseteq viewed
        /\ \A i, j \in DOMAIN longer :
              i <= j /\ longer[i].kind = "users" /\ longer[j].kind = "users" =>
                Known(longer[i].docs) \subseteq Known(longer[j].docs)
    BY <2>1, <2>2, <2>3
  <2> HIDE DEF longer
  <2>5. Grows(listed, longer, viewed)
    BY <2>3, <2>4 DEF Grows
  <2> QED BY <2>5 DEF longer
<1>5. ASSUME es # <<>>
      PROVE  /\ Grows(IF Head(es).kind = "users" THEN Known(Head(es).docs) ELSE listed,
                      Tail(es), viewed)
             /\ Head(es).kind = "users" => listed \subseteq Known(Head(es).docs)
  <2> DEFINE now == IF Head(es).kind = "users" THEN Known(Head(es).docs) ELSE listed
  <2>1. now \subseteq viewed /\ (Head(es).kind = "users" => listed \subseteq Known(Head(es).docs))
    BY <1>0, <1>2, <1>5 DEF Grows
  <2>2. ASSUME NEW i \in 1..(n - 1), Tail(es)[i].kind = "users"
        PROVE  now \subseteq Known(Tail(es)[i].docs) /\ Known(Tail(es)[i].docs) \subseteq viewed
    <3>1. i + 1 \in 1..n /\ 1 <= i + 1 /\ Tail(es)[i] = es[i + 1]
      BY <1>0, <1>2, <1>5
    <3> QED BY <1>0, <1>2, <1>5, <2>2, <3>1 DEF Grows
  <2>3. ASSUME NEW i \in 1..(n - 1), NEW j \in 1..(n - 1), i <= j,
               Tail(es)[i].kind = "users", Tail(es)[j].kind = "users"
        PROVE  Known(Tail(es)[i].docs) \subseteq Known(Tail(es)[j].docs)
    <3>1. i + 1 \in 1..n /\ j + 1 \in 1..n /\ i + 1 <= j + 1
      BY <1>0, <1>2, <1>5, <2>3
    <3>2. Tail(es)[i] = es[i + 1] /\ Tail(es)[j] = es[j + 1]
      BY <1>2, <1>5
    <3> QED BY <1>0, <2>3, <3>1, <3>2 DEF Grows
  <2> HIDE DEF now
  <2>4. Grows(now, Tail(es), viewed)
    BY <1>2, <1>5, <2>1, <2>2, <2>3 DEF Grows
  <2> QED BY <2>1, <2>4 DEF now
<1>6. \A e \in Event : e.kind = "session" => e.kind # "users"
  OBVIOUS
<1> QED BY <1>3, <1>4, <1>5, <1>6

\* With nothing waiting.
LEMMA GrowsFromNothing ==
  ASSUME NEW listed, NEW viewed, listed \subseteq viewed
  PROVE  Grows(listed, <<>>, viewed)
BY DEF Grows

\* A write takes no document away, and the server has all of them.
LEMMA WritesKeepDocuments ==
  /\ \A w \in Write, x \in [Users -> MaybeDoc] : Known(Apply(w, x)) = Known(x)
  /\ \A x \in [Users -> Doc] : Known(x) = Users
<1>1. ASSUME NEW w \in Write, NEW x \in [Users -> MaybeDoc], NEW u \in Users
      PROVE  Apply(w, x)[u] = Nil <=> x[u] = Nil
  <2>1. w.uid \in Users
    BY DEF Write
  <2>2. x[u] # Nil => Patched(x[u], w) # Nil
    BY PatchedType, NilIsNoDocument DEF MaybeDoc
  <2> QED BY <2>1, <2>2 DEF Apply
<1>2. \A x \in [Users -> Doc] : Known(x) = Users
  BY NilIsNoDocument DEF Known
<1> QED BY <1>1, <1>2 DEF Known

\* A step of one phone.
LEMMA KnownStep ==
  ASSUME KnownInv, NEW d \in Devices,
         \A e \in Devices \ {d} : /\ users'[e] = users[e] /\ events'[e] = events[e]
                                  /\ view'[e] = view[e] /\ pairUp'[e] = pairUp[e],
         Grows(Known(users'[d]), events'[d], Known(view'[d])),
         \A row \in pairUp'[d] : users'[d][row.uid] # Nil
  PROVE  KnownInv'
<1> SUFFICES ASSUME NEW e \in Devices
             PROVE  /\ Grows(Known(users'[e]), events'[e], Known(view'[e]))
                    /\ \A row \in pairUp'[e] : users'[e][row.uid] # Nil
  BY DEF KnownInv, Grows, Known
<1>1. CASE e = d
  BY <1>1
<1>2. CASE e # d
  BY <1>2 DEF KnownInv
<1> QED BY <1>1, <1>2

\* Every step keeps it.
LEMMA NextKnown == TypeInv /\ KnownInv /\ [Next]_vars => KnownInv'
<1> SUFFICES ASSUME TypeInv, KnownInv, [Next]_vars PROVE KnownInv'
  OBVIOUS
<1>0. ASSUME NEW d \in Devices
      PROVE  /\ events[d] \in Seq(Event)
             /\ view[d] \in [Users -> MaybeDoc]
             /\ Grows(Known(users[d]), events[d], Known(view[d]))
             /\ \A row \in pairUp[d] : users[d][row.uid] # Nil
             /\ Owner[d] \in Users
  BY PhonesAssumption DEF TypeInv, TypeOK, KnownInv
<1>t. /\ events \in [Devices -> Seq(Event)] /\ view \in [Devices -> [Users -> MaybeDoc]]
      /\ users \in [Devices -> [Users -> MaybeDoc]] /\ pairUp \in [Devices -> SUBSET Row]
  BY DEF TypeInv, TypeOK
\* A step that leaves what is known alone.
<1>a. ASSUME NEW d \in Devices, UNCHANGED <<view, events, users>>,
             pairUp' = pairUp \/ pairUp' = [pairUp EXCEPT ![d] = {}]
      PROVE  KnownInv'
  <2>1. \A row \in pairUp'[d] : users'[d][row.uid] # Nil
    BY <1>0, <1>a, <1>t
  <2> QED BY <1>0, <1>a, <1>t, <2>1, KnownStep
\* The worker shows a view that has grown.
<1>b. ASSUME NEW d \in Devices, NEW newView \in [Users -> MaybeDoc], NEW es,
             Grows(Known(users[d]), es, Known(newView)),
             view' = [view EXCEPT ![d] = newView], events' = [events EXCEPT ![d] = es],
             UNCHANGED <<users, pairUp>>
      PROVE  KnownInv'
  <2>1. view'[d] = newView /\ events'[d] = es
    BY <1>b, <1>t
  <2> QED BY <1>0, <1>b, <1>t, <2>1, KnownStep
<1>c. ASSUME NEW x \in [Users -> MaybeDoc]
      PROVE  /\ UsersEvent(x) \in Event /\ UsersEvent(x).kind = "users"
             /\ UsersEvent(x).docs = x
  BY DEF UsersEvent, Event
<1>d. ASSUME NEW d \in Devices, NEW doc \in Doc
      PROVE  SessionEvent(Owner[d], doc) \in Event /\ SessionEvent(Owner[d], doc).kind = "session"
  BY <1>d DEF SessionEvent, Event, NoDocs, MaybeDoc
<1>1. ASSUME NEW d \in Devices, Launch(d) PROVE KnownInv'
  <2> DEFINE es == FirstSnapshot(d)
  <2>1. Grows(Known(users[d]), <<>>, Known(view[d]))
    <3>1. Known(users[d]) \subseteq Known(view[d])
      BY <1>0 DEF Grows
    <3> QED BY <3>1, GrowsFromNothing
  <2>2. Grows(Known(users[d]), es, Known(view[d]))
    <3>1. CASE es = <<>>
      BY <2>1, <3>1
    <3>2. CASE es = <<UsersEvent(view[d])>>
      <4>1. es = Append(<<>>, UsersEvent(view[d])) /\ <<>> \in Seq(Event)
        BY <3>2
      <4>2. /\ UsersEvent(view[d]) \in Event /\ UsersEvent(view[d]).kind = "users"
            /\ UsersEvent(view[d]).docs = view[d]
        BY <1>0, <1>c
      <4>3. Grows(Known(users[d]), Append(<<>>, UsersEvent(view[d])), Known(view[d]))
        BY <2>1, <4>1, <4>2, GrowsOn
      <4> QED BY <4>1, <4>3
    <3> QED BY <3>1, <3>2 DEF FirstSnapshot
  <2>3. events' = [events EXCEPT ![d] = es] /\ view' = [view EXCEPT ![d] = view[d]]
        /\ UNCHANGED <<users, pairUp>>
    BY <1>1, <1>t DEF Launch, disk, screen
  <2> HIDE DEF es
  <2> QED BY <1>0, <1>b, <2>2, <2>3
<1>2. ASSUME NEW d \in Devices, Die(d) PROVE KnownInv'
  <2>1. /\ users' = [users EXCEPT ![d] = NoDocs] /\ events' = [events EXCEPT ![d] = <<>>]
        /\ pairUp' = [pairUp EXCEPT ![d] = {}] /\ view' = view
    BY <1>2 DEF Die, disk
  <2>2. Known(NoDocs) = {}
    BY DEF Known, NoDocs
  <2>3. Grows(Known(users'[d]), events'[d], Known(view'[d]))
    BY <1>t, <2>1, <2>2, GrowsFromNothing
  <2> QED BY <1>t, <2>1, <2>3, KnownStep
<1>3. ASSUME NEW d \in Devices, Persist(d) PROVE KnownInv'
  <2> DEFINE newView == Apply(Head(calls[d]), view[d])
             es == EventsAfter(d, newView)
  <2>1. Head(calls[d]) \in Write
    BY <1>3, HeadTailProperties DEF Persist, TypeInv, TypeOK
  <2>2. newView \in [Users -> MaybeDoc] /\ Known(newView) = Known(view[d])
    BY <1>0, <2>1, ApplyType, WritesKeepDocuments
  <2>3. /\ events' = [events EXCEPT ![d] = es] /\ view' = [view EXCEPT ![d] = newView]
        /\ UNCHANGED <<users, pairUp>>
    BY <1>3 DEF Persist, screen
  <2> HIDE DEF newView
  <2>4. Grows(Known(users[d]), es, Known(newView))
    BY <1>0, <1>c, <2>2, GrowsOn DEF EventsAfter
  <2> HIDE DEF es
  <2> QED BY <1>b, <2>2, <2>3, <2>4
<1>4. ASSUME NEW d \in Devices, Commit(d) \/ CommitUnheard(d) \/ Reconnect(d) PROVE KnownInv'
  <2>1. UNCHANGED <<view, events, users, pairUp>>
    BY <1>4 DEF Commit, CommitUnheard, Reconnect, disk, memory, screen
  <2> QED BY <1>a, <2>1
<1>5. ASSUME NEW d \in Devices, Watch(d) PROVE KnownInv'
  <2> DEFINE newView == Overlay(queue[d], docs)
             es == Append(events[d], UsersEvent(newView))
  <2>1. newView \in [Users -> Doc]
    BY OverlayType DEF TypeInv, TypeOK
  <2>2. /\ events' = [events EXCEPT ![d] = es] /\ view' = [view EXCEPT ![d] = newView]
        /\ UNCHANGED <<users, pairUp>>
    BY <1>5 DEF Watch, screen
  <2> HIDE DEF newView
  <2>3. newView \in [Users -> MaybeDoc] /\ Known(newView) = Users
    BY <2>1, WritesKeepDocuments DEF MaybeDoc
  <2>4. Grows(Known(users[d]), events[d], Users)
    <3>1. Known(view[d]) \subseteq Users
      BY DEF Known
    <3> QED BY <1>0, <3>1, GrowsOn
  <2>5. Grows(Known(users[d]), es, Known(newView))
    BY <1>0, <1>c, <2>3, <2>4, GrowsOn
  <2> HIDE DEF es
  <2> QED BY <1>b, <2>2, <2>3, <2>5
<1>6. ASSUME NEW d \in Devices, FetchDocument(d) PROVE KnownInv'
  <2> DEFINE doc == OwnDocument(d)
             newView == [view[d] EXCEPT ![Owner[d]] = doc]
             snapshots == IF newView = view[d] THEN <<>> ELSE <<UsersEvent(newView)>>
             loaded == SessionEvent(Owner[d], doc)
  <2>1. doc \in Doc
    <3>1. Overlay(queue[d], docs) \in [Users -> Doc]
      BY OverlayType DEF TypeInv, TypeOK
    <3> QED BY <1>0, <3>1 DEF OwnDocument
  <2>2. /\ view' = [view EXCEPT ![d] = newView] /\ UNCHANGED <<users, pairUp>>
        /\ \/ events' = [events EXCEPT ![d] = (events[d] \o snapshots) \o <<loaded>>]
           \/ events' = [events EXCEPT ![d] = (events[d] \o <<loaded>>) \o snapshots]
    BY <1>6 DEF FetchDocument, screen
  <2> HIDE DEF doc
  <2>3. newView \in [Users -> MaybeDoc] /\ Known(view[d]) \subseteq Known(newView)
    BY <1>0, <2>1, NilIsNoDocument DEF MaybeDoc, Known
  <2>4. loaded \in Event /\ loaded.kind = "session"
    BY <1>d, <2>1
  <2> HIDE DEF newView, loaded
  <2>5. ASSUME NEW es \in Seq(Event), Grows(Known(users[d]), es, Known(newView))
        PROVE  /\ es \o snapshots \in Seq(Event)
               /\ Grows(Known(users[d]), es \o snapshots, Known(newView))
    <3>1. CASE snapshots = <<>>
      <4>1. es \o snapshots = es
        BY <3>1
      <4> QED BY <2>5, <4>1
    <3>2. CASE snapshots = <<UsersEvent(newView)>>
      <4>1. UsersEvent(newView) \in Event
        BY <1>c, <2>3
      <4>2. es \o snapshots = Append(es, UsersEvent(newView))
        BY <3>2, <4>1
      <4>3. Append(es, UsersEvent(newView)) \in Seq(Event)
        BY <2>5, <4>1, AppendProperties
      <4>4. UsersEvent(newView).kind = "users" /\ UsersEvent(newView).docs = newView
        BY <1>c, <2>3
      <4>5. Grows(Known(users[d]), Append(es, UsersEvent(newView)), Known(newView))
        BY <2>5, <4>1, <4>4, GrowsOn
      <4> QED BY <4>2, <4>3, <4>5
    <3> QED BY <3>1, <3>2
  <2>6. ASSUME NEW es \in Seq(Event), Grows(Known(users[d]), es, Known(newView))
        PROVE  /\ es \o <<loaded>> \in Seq(Event)
               /\ Grows(Known(users[d]), es \o <<loaded>>, Known(newView))
    <3>1. es \o <<loaded>> = Append(es, loaded)
      BY <2>4
    <3>2. Append(es, loaded) \in Seq(Event)
      BY <2>4, <2>6, AppendProperties
    <3>3. Grows(Known(users[d]), Append(es, loaded), Known(newView))
      BY <2>4, <2>6, GrowsOn
    <3> QED BY <3>1, <3>2, <3>3
  <2> HIDE DEF snapshots
  <2>7. Grows(Known(users[d]), events[d], Known(newView))
    BY <1>0, <2>3, GrowsOn
  <2>8. /\ Grows(Known(users[d]), (events[d] \o snapshots) \o <<loaded>>, Known(newView))
        /\ Grows(Known(users[d]), (events[d] \o <<loaded>>) \o snapshots, Known(newView))
    BY <1>0, <2>5, <2>6, <2>7
  <2> QED BY <1>b, <2>2, <2>3, <2>8
<1>7. ASSUME NEW d \in Devices, FetchOffline(d) PROVE KnownInv'
  <2> DEFINE doc == view[d][Owner[d]]
             es == IF doc = Nil THEN events[d] ELSE Append(events[d], SessionEvent(Owner[d], doc))
  <2>1. /\ events' = [events EXCEPT ![d] = es] /\ view' = [view EXCEPT ![d] = view[d]]
        /\ UNCHANGED <<users, pairUp>>
    BY <1>7, <1>t DEF FetchOffline, disk, screen
  <2>2. doc # Nil => doc \in Doc
    BY <1>0 DEF MaybeDoc
  <2>3. Grows(Known(users[d]), es, Known(view[d]))
    BY <1>0, <1>d, <2>2, GrowsOn
  <2> HIDE DEF es
  <2> QED BY <1>0, <1>b, <2>1, <2>3
<1>8. ASSUME NEW d \in Devices, DeliverUsers(d) PROVE KnownInv'
  <2> DEFINE collection == Head(events[d]).docs
  <2>1. /\ events[d] # <<>> /\ Head(events[d]).kind = "users"
        /\ events' = [events EXCEPT ![d] = Tail(events[d])]
        /\ users' = [users EXCEPT ![d] = collection]
        /\ view' = view
        /\ pairUp' = pairUp \/ pairUp' = [pairUp EXCEPT ![d] = {}]
    BY <1>8 DEF DeliverUsers, disk, screen
  <2>2. /\ Grows(Known(collection), Tail(events[d]), Known(view[d]))
        /\ Known(users[d]) \subseteq Known(collection)
    BY <1>0, <2>1, GrowsOn
  <2>3. users'[d] = collection /\ events'[d] = Tail(events[d]) /\ view'[d] = view[d]
    BY <1>t, <2>1
  <2>4. \A row \in pairUp'[d] : users'[d][row.uid] # Nil
    <3> SUFFICES ASSUME NEW row \in pairUp'[d] PROVE users'[d][row.uid] # Nil
      OBVIOUS
    <3>1. row \in pairUp[d] /\ row.uid \in Users
      BY <1>t, <2>1 DEF Row
    <3>2. row.uid \in Known(users[d])
      BY <1>0, <3>1 DEF Known
    <3> QED BY <2>2, <2>3, <3>2 DEF Known
  <2>5. \A e \in Devices \ {d} : /\ users'[e] = users[e] /\ events'[e] = events[e]
                                 /\ view'[e] = view[e] /\ pairUp'[e] = pairUp[e]
    BY <1>t, <2>1
  <2> HIDE DEF collection
  <2> QED BY <2>2, <2>3, <2>4, <2>5, KnownStep
<1>9. ASSUME NEW d \in Devices, DeliverSession(d) PROVE KnownInv'
  <2>1. /\ events[d] # <<>> /\ Head(events[d]).kind = "session"
        /\ events' = [events EXCEPT ![d] = Tail(events[d])]
        /\ view' = [view EXCEPT ![d] = view[d]] /\ UNCHANGED <<users, pairUp>>
    BY <1>9, <1>t DEF DeliverSession, disk, screen
  <2>2. Grows(Known(users[d]), Tail(events[d]), Known(view[d]))
    BY <1>0, <2>1, GrowsOn
  <2> QED BY <1>0, <1>b, <2>1, <2>2
<1>10. ASSUME NEW d \in Devices, NEW uid \in Users, OpenPairUp(d, uid) PROVE KnownInv'
  <2> DEFINE row == [uid |-> uid, diningHall |-> users[d][uid].diningHall]
  <2>1. users[d][uid] # Nil /\ pairUp' = [pairUp EXCEPT ![d] = {row}]
        /\ UNCHANGED <<view, events, users>>
    BY <1>10 DEF OpenPairUp, disk
  <2>2. \A r \in pairUp'[d] : users'[d][r.uid] # Nil
    BY <1>t, <2>1
  <2> QED BY <1>0, <1>t, <2>1, <2>2, KnownStep
<1>11. ASSUME NEW d \in Devices,
              \/ \E hall \in Halls : MakeRequest(d, hall)
              \/ CancelRequest(d) \/ ShowPairing(d) \/ Cancel(d) \/ Pair(d) \/ GoBack(d)
       PROVE  KnownInv'
  <2>1. UNCHANGED <<view, events, users>> /\ (pairUp' = pairUp \/ pairUp' = [pairUp EXCEPT ![d] = {}])
    BY <1>11 DEF MakeRequest, CancelRequest, ShowPairing, Cancel, Pair, GoBack, disk, screen
  <2> QED BY <1>a, <2>1
<1>12. CASE UNCHANGED vars
  BY <1>12 DEF vars, disk, memory, screen, KnownInv, Grows, Known
<1> QED BY <1>1, <1>2, <1>3, <1>4, <1>5, <1>6, <1>7, <1>8, <1>9, <1>10, <1>11, <1>12
     DEF Next, Tap, Fetch, Deliver

----------------------------------------------------------------------------
(* Who is told.                                                            *)

\* The notification that pair() sends.
Made(u) == [to |-> u, title |-> "Pairing Made"]

\* Writes that pair no freshman who is not among the told.
Announced(told) ==
  {w \in Write : w.uid \in Freshmen /\ w.arrayUnion # {} => Made(w.uid) \in told}

\* PairingAnnounced, and the same of the writes that are on their way.
AnnouncedInv ==
  /\ \A d \in Devices : queue[d] \in Seq(Announced(pushes)) /\ calls[d] \in Seq(Announced(pushes))
  /\ \A u \in Freshmen : docs[u].pairings # <<>> => Made(u) \in pushes

\* A tap other than pair() sends no write that pairs somebody; the writes of createPairing
\* need a notification of the user in the row.
LEMMA AnnouncedWrites ==
  ASSUME NEW told, NEW d \in Devices, Owner[d] \in Users
  PROVE  /\ \A hall \in Halls : <<SetRequest(Owner[d], hall, TRUE)>> \in Seq(Announced(told))
         /\ \A ps \in Seq(Users) : CancelMealRequest(Owner[d], ps) \in Seq(Announced(told))
         /\ \A row \in Row : ~IsFreshman(d) /\ Made(row.uid) \in told =>
              CreatePairing(Owner[d], row) \in Seq(Announced(told))
         /\ \A other \in Users : RemovePairing(Owner[d], other) \in Seq(Announced(told))
<1>1. \A u, v \in Users : DropPairing(u, v) \in Announced(told)
  BY DEF Announced, Write, DropPairing
<1>2. \A u \in Users : SetRequesting(u, FALSE) \in Announced(told) /\ SetRequesting(u, TRUE) \in Announced(told)
  BY DEF Announced, Write, SetRequesting
<1>3. ASSUME NEW hall \in Halls PROVE <<SetRequest(Owner[d], hall, TRUE)>> \in Seq(Announced(told))
  <2>1. SetRequest(Owner[d], hall, TRUE) \in Announced(told)
    BY DEF Announced, Write, SetRequest
  <2> QED BY <2>1, TuplesAreSequences
<1>4. ASSUME NEW ps \in Seq(Users) PROVE CancelMealRequest(Owner[d], ps) \in Seq(Announced(told))
  <2> DEFINE me == Owner[d]
             first == <<SetRequest(me, NoHall, FALSE)>>
             unpair == IF ps = <<>> THEN <<>>
                       ELSE <<DropPairing(Head(ps), me), DropPairing(me, Head(ps))>>
             last == <<SetRequesting(me, FALSE)>>
  <2>1. SetRequest(me, NoHall, FALSE) \in Announced(told)
    BY DEF Announced, Write, SetRequest
  <2>2. first \in Seq(Announced(told)) /\ last \in Seq(Announced(told))
    BY <1>2, <2>1, TuplesAreSequences
  <2>3. unpair \in Seq(Announced(told))
    <3>1. CASE ps = <<>>
      BY <3>1
    <3>2. CASE ps # <<>>
      <4>1. Head(ps) \in Users
        BY <3>2, HeadTailProperties
      <4> QED BY <1>1, <3>2, <4>1, TuplesAreSequences
    <3> QED BY <3>1, <3>2
  <2>4. CancelMealRequest(me, ps) = (first \o unpair) \o last
    BY DEF CancelMealRequest
  <2> HIDE DEF first, unpair, last
  <2> QED BY <2>2, <2>3, <2>4, ConcatProperties
<1>5. ASSUME NEW row \in Row, ~IsFreshman(d), Made(row.uid) \in told
      PROVE  CreatePairing(Owner[d], row) \in Seq(Announced(told))
  <2>1. row.uid \in Users /\ row.diningHall \in Halls \cup {NoHall} /\ Owner[d] \notin Freshmen
    BY <1>5 DEF Row, IsFreshman
  <2>2. PairWith(Owner[d], row.uid, row.diningHall) \in Announced(told)
    BY <2>1 DEF Announced, Write, PairWith
  <2>3. AddPairing(row.uid, Owner[d]) \in Announced(told)
    BY <1>5, <2>1 DEF Announced, Write, AddPairing
  <2> QED BY <1>2, <2>1, <2>2, <2>3, TuplesAreSequences DEF CreatePairing
<1>6. ASSUME NEW other \in Users PROVE RemovePairing(Owner[d], other) \in Seq(Announced(told))
  BY <1>1, <1>2, TuplesAreSequences DEF RemovePairing
<1> QED BY <1>3, <1>4, <1>5, <1>6

\* A notification that was sent stays sent.
LEMMA AnnouncedGrows ==
  ASSUME pushes \subseteq pushes'
  PROVE  \A q \in Seq(Announced(pushes)) : q \in Seq(Announced(pushes'))
<1>1. Announced(pushes) \subseteq Announced(pushes')
  BY DEF Announced, Made
<1> QED BY <1>1, SeqMonotonic

\* A write that was announced pairs nobody in silence.
LEMMA ApplyAnnounced ==
  ASSUME TypeInv, AnnouncedInv, NEW w \in Announced(pushes), NEW u \in Freshmen,
         Apply(w, docs)[u].pairings # <<>>
  PROVE  Made(u) \in pushes
<1>0. /\ u \in Users /\ docs \in [Users -> Doc] /\ w.uid \in Users
      /\ docs[u].pairings \in Seq(Users)
      /\ w.arrayUnion \in SUBSET Users /\ w.arrayRemove \in SUBSET Users
      /\ docs[u].pairings # <<>> => Made(u) \in pushes
  BY PhonesAssumption DEF TypeInv, TypeOK, Announced, AnnouncedInv, Write, Doc
<1>1. CASE docs[w.uid] = Nil \/ w.uid # u
  BY <1>0, <1>1 DEF Apply
<1>2. CASE docs[w.uid] # Nil /\ w.uid = u
  <2> DEFINE after == Transformed(docs[u].pairings, w.arrayUnion, w.arrayRemove)
  <2>1. Apply(w, docs)[u].pairings = after
    BY <1>0, <1>2 DEF Apply, Patched
  <2>2. after \in Seq(Users) /\ ToSet(after) \subseteq ToSet(docs[u].pairings) \cup w.arrayUnion
    BY <1>0, TransformedProperties
  <2>3. after # <<>>
    BY <2>1
  <2> HIDE DEF after
  <2>4. after[1] \in ToSet(after)
    <3>1. 1 \in DOMAIN after
      BY <2>2, <2>3, LenProperties, EmptySeq
    <3> QED BY <3>1 DEF ToSet
  <2>5. CASE w.arrayUnion # {}
    BY <1>2, <2>5 DEF Announced
  <2>6. CASE w.arrayUnion = {}
    <3>1. docs[u].pairings # <<>>
      BY <2>2, <2>4, <2>6 DEF ToSet
    <3> QED BY <1>0, <3>1
  <2> QED BY <2>5, <2>6
<1> QED BY <1>1, <1>2

\* Every step keeps it.
LEMMA NextAnnounced ==
  TypeInv /\ RolesInv /\ KnownInv /\ AnnouncedInv /\ [Next]_vars => AnnouncedInv'
<1> SUFFICES ASSUME TypeInv, RolesInv, KnownInv, AnnouncedInv, [Next]_vars PROVE AnnouncedInv'
  OBVIOUS
<1>0. /\ calls \in [Devices -> Seq(Write)] /\ queue \in [Devices -> Seq(Write)]
      /\ pairUp \in [Devices -> SUBSET Row]
      /\ \A d \in Devices : Owner[d] \in Users
      /\ \A d \in Devices : queue[d] \in Seq(Announced(pushes)) /\ calls[d] \in Seq(Announced(pushes))
  BY PhonesAssumption DEF TypeInv, TypeOK, AnnouncedInv
\* A step that changes what is on its way.
<1>a. ASSUME pushes \subseteq pushes', UNCHANGED docs,
             \A d \in Devices : queue'[d] \in Seq(Announced(pushes')) /\ calls'[d] \in Seq(Announced(pushes'))
      PROVE  AnnouncedInv'
  <2>1. \A u \in Freshmen : docs'[u].pairings # <<>> => Made(u) \in pushes'
    BY <1>a DEF AnnouncedInv
  <2> QED BY <1>a, <2>1 DEF AnnouncedInv, Made
\* A tap that sends writes.
<1>b. ASSUME NEW d \in Devices, NEW writes, writes \in Seq(Announced(pushes')), Dispatch(d, writes),
             UNCHANGED <<docs, queue>>, pushes \subseteq pushes'
      PROVE  AnnouncedInv'
  <2>1. \A e \in Devices : queue[e] \in Seq(Announced(pushes')) /\ calls[e] \in Seq(Announced(pushes'))
    BY <1>0, <1>b, AnnouncedGrows
  <2>2. calls[d] \o writes \in Seq(Announced(pushes'))
    BY <1>b, <2>1, ConcatProperties
  <2>3. calls' = [calls EXCEPT ![d] = calls[d] \o writes]
    BY <1>b DEF Dispatch
  <2> QED BY <1>0, <1>a, <1>b, <2>1, <2>2, <2>3
<1>1. ASSUME UNCHANGED <<docs, queue, calls, pushes>> PROVE AnnouncedInv'
  BY <1>1 DEF AnnouncedInv, Announced, Made
<1>2. ASSUME NEW d \in Devices,
             \/ Launch(d) \/ Reconnect(d) \/ Watch(d) \/ Fetch(d) \/ Deliver(d)
             \/ (\E uid \in Users : OpenPairUp(d, uid)) \/ ShowPairing(d) \/ GoBack(d)
      PROVE  AnnouncedInv'
  <2>1. UNCHANGED <<docs, queue, calls, pushes>>
    BY <1>2 DEF Launch, Reconnect, Watch, Fetch, FetchDocument, FetchOffline, Deliver,
                DeliverUsers, DeliverSession, OpenPairUp, ShowPairing, GoBack, disk, memory
  <2> QED BY <1>1, <2>1
<1>3. ASSUME NEW d \in Devices, Die(d) PROVE AnnouncedInv'
  <2>1. UNCHANGED <<docs, queue, pushes>> /\ calls' = [calls EXCEPT ![d] = <<>>]
    BY <1>3 DEF Die, disk
  <2>2. \A e \in Devices : queue'[e] \in Seq(Announced(pushes)) /\ calls'[e] \in Seq(Announced(pushes))
    BY <1>0, <2>1
  <2>3. \A e \in Devices : queue'[e] \in Seq(Announced(pushes')) /\ calls'[e] \in Seq(Announced(pushes'))
    BY <2>1, <2>2, AnnouncedGrows
  <2> QED BY <1>a, <2>1, <2>3
<1>4. ASSUME NEW d \in Devices, Persist(d) PROVE AnnouncedInv'
  <2>1. /\ UNCHANGED <<docs, pushes>> /\ calls[d] # <<>>
        /\ calls' = [calls EXCEPT ![d] = Tail(calls[d])]
        /\ queue' = [queue EXCEPT ![d] = Append(queue[d], Head(calls[d]))]
    BY <1>4 DEF Persist
  <2>2. Head(calls[d]) \in Announced(pushes) /\ Tail(calls[d]) \in Seq(Announced(pushes))
    BY <1>0, <2>1, HeadTailProperties
  <2>3. Append(queue[d], Head(calls[d])) \in Seq(Announced(pushes))
    BY <1>0, <2>2, AppendProperties
  <2>4. \A e \in Devices : queue'[e] \in Seq(Announced(pushes)) /\ calls'[e] \in Seq(Announced(pushes))
    BY <1>0, <2>1, <2>2, <2>3
  <2>5. \A e \in Devices : queue'[e] \in Seq(Announced(pushes')) /\ calls'[e] \in Seq(Announced(pushes'))
    BY <2>1, <2>4, AnnouncedGrows
  <2> QED BY <1>a, <2>1, <2>5
<1>5. ASSUME NEW d \in Devices, Commit(d) \/ CommitUnheard(d) PROVE AnnouncedInv'
  <2>1. PICK i \in 1..Len(queue[d]) : docs' = Apply(queue[d][i], docs)
    BY <1>5, AppliedWrites
  <2>2. queue[d][i] \in Announced(pushes)
    BY <1>0, ElementOfSeq
  <2>3. UNCHANGED <<calls, pushes>>
    BY <1>5 DEF Commit, CommitUnheard, memory
  <2>4. \A e \in Devices : queue'[e] \in Seq(Announced(pushes))
    <3>1. CASE Commit(d)
      <4>1. queue[d] # <<>> /\ queue' = [queue EXCEPT ![d] = Tail(queue[d])]
        BY <3>1 DEF Commit
      <4>2. Tail(queue[d]) \in Seq(Announced(pushes))
        BY <1>0, <4>1, HeadTailProperties
      <4> QED BY <1>0, <4>1, <4>2
    <3>2. CASE CommitUnheard(d)
      BY <1>0, <3>2 DEF CommitUnheard, disk
    <3> QED BY <1>5, <3>1, <3>2
  <2>5. \A e \in Devices : queue'[e] \in Seq(Announced(pushes')) /\ calls'[e] \in Seq(Announced(pushes'))
    BY <1>0, <2>3, <2>4, AnnouncedGrows
  <2>6. \A u \in Freshmen : docs'[u].pairings # <<>> => Made(u) \in pushes'
    BY <2>1, <2>2, <2>3, ApplyAnnounced
  <2> QED BY <2>5, <2>6 DEF AnnouncedInv, Made
<1>6. ASSUME NEW d \in Devices, NEW hall \in Halls, MakeRequest(d, hall) PROVE AnnouncedInv'
  <2>1. UNCHANGED <<docs, queue, pushes>> /\ Dispatch(d, <<SetRequest(Owner[d], hall, TRUE)>>)
    BY <1>6 DEF MakeRequest, disk
  <2>2. <<SetRequest(Owner[d], hall, TRUE)>> \in Seq(Announced(pushes'))
    BY <1>0, <2>1, AnnouncedWrites, AnnouncedGrows
  <2> QED BY <1>b, <2>1, <2>2
<1>7. ASSUME NEW d \in Devices, CancelRequest(d) PROVE AnnouncedInv'
  <2>1. /\ UNCHANGED <<docs, queue, pushes>> /\ session[d] # Nil
        /\ Dispatch(d, CancelMealRequest(Owner[d], session[d].pairings))
    BY <1>7 DEF CancelRequest, OnFreshmanView, LoggedIn, disk
  <2>2. CancelMealRequest(Owner[d], session[d].pairings) \in Seq(Announced(pushes'))
    BY <1>0, <2>1, SessionEditType, AnnouncedWrites, AnnouncedGrows
  <2> QED BY <1>b, <2>1, <2>2
<1>8. ASSUME NEW d \in Devices, Cancel(d) PROVE AnnouncedInv'
  <2> DEFINE partner == Head(session[d].pairings)
  <2>1. /\ UNCHANGED <<docs, queue>> /\ session[d] # Nil /\ session[d].pairings # <<>>
        /\ Dispatch(d, RemovePairing(Owner[d], partner))
        /\ pushes' = Notified(d, partner, "Pairing Canceled")
    BY <1>8 DEF Cancel, Paired, disk
  <2>2. partner \in Users
    BY <2>1, SessionEditType, HeadTailProperties
  <2> HIDE DEF partner
  <2>3. pushes \subseteq pushes'
    BY <2>1 DEF Notified
  <2>4. RemovePairing(Owner[d], partner) \in Seq(Announced(pushes'))
    BY <1>0, <2>2, <2>3, AnnouncedWrites, AnnouncedGrows
  <2> QED BY <1>b, <2>1, <2>3, <2>4
<1>9. ASSUME NEW d \in Devices, Pair(d) PROVE AnnouncedInv'
  <2>1. PICK row \in pairUp[d] : /\ UNCHANGED <<docs, queue>>
                                 /\ Dispatch(d, CreatePairing(Owner[d], row))
                                 /\ pushes' = Notified(d, row.uid, "Pairing Made")
    BY <1>9 DEF Pair, disk
  <2>2. row \in Row /\ ~IsFreshman(d) /\ users[d][row.uid] # Nil
    BY <1>0 DEF RolesInv, KnownInv
  <2>3. pushes \subseteq pushes' /\ Made(row.uid) \in pushes'
    BY <2>1, <2>2 DEF Notified, Made
  <2>4. CreatePairing(Owner[d], row) \in Seq(Announced(pushes'))
    BY <1>0, <2>2, <2>3, AnnouncedWrites
  <2> QED BY <1>b, <2>1, <2>3, <2>4
<1>10. CASE UNCHANGED vars
  BY <1>1, <1>10 DEF vars, disk, memory
<1> QED BY <1>2, <1>3, <1>4, <1>5, <1>6, <1>7, <1>8, <1>9, <1>10 DEF Next, Tap

\* Users that are known stay known, always.
LEMMA KnownInvariance == Spec => []KnownInv
<1>1. Init => KnownInv
  <2> SUFFICES ASSUME Init PROVE KnownInv
    OBVIOUS
  <2>1. users = view /\ events = [d \in Devices |-> <<>>] /\ pairUp = [d \in Devices |-> {}]
    BY DEF Init
  <2> QED BY <2>1, GrowsFromNothing DEF KnownInv
<1> QED BY <1>1, NextKnown, TypeInvariance, PTL DEF Spec

\* A freshman whose document has a pairing was sent "Pairing Made", for any number of
\* phones, stale rows, late snapshots and resent writes.
THEOREM PairingsAreAnnounced == Spec => []PairingAnnounced
<1>1. Init => AnnouncedInv
  <2> SUFFICES ASSUME Init PROVE AnnouncedInv
    OBVIOUS
  <2>1. /\ docs = [u \in Users |-> NewDoc]
        /\ queue = [d \in Devices |-> <<>>] /\ calls = [d \in Devices |-> <<>>]
    BY DEF Init
  <2>2. \A d \in Devices : queue[d] \in Seq(Announced(pushes)) /\ calls[d] \in Seq(Announced(pushes))
    <3>1. <<>> \in Seq(Announced(pushes))
      BY EmptySeq
    <3> QED BY <2>1, <3>1
  <2>3. \A u \in Freshmen : docs[u].pairings = <<>>
    BY <2>1, PhonesAssumption DEF NewDoc
  <2> QED BY <2>2, <2>3 DEF AnnouncedInv
<1>2. AnnouncedInv => PairingAnnounced
  BY DEF AnnouncedInv, PairingAnnounced, Made
<1> QED BY <1>1, <1>2, KnownInvariance, NextAnnounced, RolesInvariance, TypeInvariance, PTL DEF Spec

=============================================================================
