----------------------------- MODULE MealExchange -----------------------------
(***************************************************************************)
(* The exchange of meal swipes: freshmen ask for a meal, the other users   *)
(* ("givers") pick a request from a list and are paired with its author,   *)
(* and either side may call it off.                                        *)
(*                                                                         *)
(* The only shared state is the collection "users" on the Firestore        *)
(* server. Every device runs the same app on three threads of control:     *)
(*                                                                         *)
(*   - the main queue: taps and the callbacks of FirebaseSession, which    *)
(*     own users, session and what is on the screen;                       *)
(*   - the Firestore worker: it takes the writes the main queue dispatched *)
(*     (calls), persists them in the mutation queue (queue), applies them  *)
(*     at once to the local view of the collection (view) and dispatches a *)
(*     callback to the main queue (events) whenever that view changes;     *)
(*   - the network: it sends the mutation queue to the server in order and *)
(*     brings the server's documents back.                                 *)
(*                                                                         *)
(* A view and a mutation queue are on disk and survive the process; calls, *)
(* events and everything the main queue owns do not.                       *)
(***************************************************************************)
EXTENDS UserDocuments

CONSTANTS
  Freshmen,    \* the users ContentView shows FreshmanView to: hasSwipes is set
  Devices,     \* the phones
  Owner,       \* the account that is signed in on each phone
  Started,     \* phones whose app is running and in sync at the start; the
               \* others are fresh installations that were never launched
  Reappearing, \* phones on which ContentView appears again when its screen changes
  Cancelling,  \* users who make use of the cancel buttons
  MaxTaps,     \* bound: taps that send writes
  MaxKills,    \* bound: processes ended by the system or the user
  MaxLosses,   \* bound: connections that fail after the server applied a write
  MaxEvents    \* bound: callbacks waiting for the main queue of one phone

ASSUME PhonesAssumption ==
  /\ Freshmen \subseteq Users
  /\ Owner \in [Devices -> Users]
  /\ Started \subseteq Devices
  /\ Reappearing \subseteq Devices
  /\ Cancelling \subseteq Users

ASSUME BoundsAssumption ==
  MaxTaps \in Nat /\ MaxKills \in Nat /\ MaxLosses \in Nat /\ MaxEvents \in Nat

VARIABLES
  docs,         \* the collection on the server
  view,         \* per phone: the cached collection with the queued writes applied
  queue,        \* per phone: persisted writes the server has not acknowledged
  calls,        \* per phone: writes on their way to the Firestore worker
  events,       \* per phone: callbacks on their way to the main queue
  running,      \* per phone: the process exists
  fetching,     \* per phone: the getDocument call of listen() is outstanding
  users,        \* per phone: FirebaseSession.users, Nil for a uid not in the array
  session,      \* per phone: FirebaseSession.session
  pairUp,       \* per phone: the user of the PairUpView on top of the list, if any
  showPairing,  \* per phone: showPairing of FreshmanView or RequestList
  pushes,       \* notifications whose request to FCM was started so far
  unheard,      \* per phone: writes the server applied over a failed connection
  taps, kills, losses  \* how much of the bounds is used

disk == <<view, queue>>
screen == <<pairUp, showPairing>>
memory == <<calls, events, fetching, users, session, screen>>
connection == <<unheard, losses>>
budget == <<taps, kills, connection>>
vars == <<docs, disk, running, memory, pushes, budget>>

----------------------------------------------------------------------------
(* State.                                                                  *)

\* The part of a User that is read from FirebaseSession.session.
Session == [diningHall : Halls \cup {NoHall}, pairings : Seq(Users)]

\* The User that PairUpView keeps: a copy from the time the row was drawn.
Row == [uid : Users, diningHall : Halls \cup {NoHall}]

\* A snapshot of the collection, or the result of getDocument.
Event == [kind : {"users", "session"}, docs : [Users -> MaybeDoc]]

Push == [to : Users, title : {"Pairing Made", "Pairing Canceled"}]

\* nil is not a User.
ASSUME NilIsNoSession == Nil \notin Session

NoDocs == [u \in Users |-> Nil]

SessionOf(doc) == [diningHall |-> doc.diningHall, pairings |-> doc.pairings]

UsersEvent(collection) == [kind |-> "users", docs |-> collection]
SessionEvent(uid, doc) == [kind |-> "session", docs |-> [NoDocs EXCEPT ![uid] = doc]]

Init ==
  /\ docs = [u \in Users |-> NewDoc]
  /\ view = [d \in Devices |-> IF d \in Started THEN docs ELSE NoDocs]
  /\ queue = [d \in Devices |-> <<>>]
  /\ calls = [d \in Devices |-> <<>>]
  /\ events = [d \in Devices |-> <<>>]
  /\ running = [d \in Devices |-> d \in Started]
  /\ fetching = [d \in Devices |-> d \in Started \cap Reappearing]
  /\ users = view
  /\ session = [d \in Devices |-> IF d \in Started THEN SessionOf(NewDoc) ELSE Nil]
  /\ pairUp = [d \in Devices |-> {}]
  /\ showPairing = [d \in Devices |-> FALSE]
  /\ pushes = {}
  /\ unheard = [d \in Devices |-> 0]
  /\ taps = 0
  /\ kills = 0
  /\ losses = 0

IsFreshman(d) == Owner[d] \in Freshmen

Paired(d) == session[d] # Nil /\ session[d].pairings # <<>>

\* findUser(id: session.pairings[0]) has an answer.
PartnerFound(d) == Paired(d) /\ users[d][Head(session[d].pairings)] # Nil

(***************************************************************************)
(* Drawing the screen in this state ends the process. RequestList forces   *)
(* the partner of every pairing, whether or not it is shown; the sheet of  *)
(* FreshmanView forces pairings[0] and the partner while it is presented.  *)
(***************************************************************************)
Trapping(d) ==
  /\ running[d]
  /\ IF IsFreshman(d) THEN showPairing[d] /\ ~PartnerFound(d)
                      ELSE Paired(d) /\ ~PartnerFound(d)

\* The main queue of the phone takes callbacks and taps.
Responsive(d) == running[d] /\ ~Trapping(d)

HasRoom(d) == Len(events[d]) < MaxEvents

----------------------------------------------------------------------------
(* The process.                                                            *)

\* Mutant of FirstSnapshot: the listener waits for the server.
NoFirstSnapshot(d) == <<>>

\* The listener on "users" first reports what is cached.
FirstSnapshot(d) == IF view[d] = NoDocs THEN <<>> ELSE <<UsersEvent(view[d])>>

\* SceneDelegate creates the FirebaseSession with its listener; ContentView.setUp calls
\* listen(), which asks for the document of the account.
Launch(d) ==
  /\ ~running[d]
  /\ running' = [running EXCEPT ![d] = TRUE]
  /\ fetching' = [fetching EXCEPT ![d] = TRUE]
  /\ events' = [events EXCEPT ![d] = FirstSnapshot(d)]
  /\ UNCHANGED <<docs, disk, calls, users, session, screen, pushes, budget>>

\* The process ends: killed in the background, or by a trap. What is not on disk
\* is gone.
Die(d) ==
  /\ running[d]
  /\ \/ Trapping(d) /\ UNCHANGED kills
     \/ kills < MaxKills /\ kills' = kills + 1
  /\ running' = [running EXCEPT ![d] = FALSE]
  /\ calls' = [calls EXCEPT ![d] = <<>>]
  /\ events' = [events EXCEPT ![d] = <<>>]
  /\ fetching' = [fetching EXCEPT ![d] = FALSE]
  /\ users' = [users EXCEPT ![d] = NoDocs]
  /\ session' = [session EXCEPT ![d] = Nil]
  /\ pairUp' = [pairUp EXCEPT ![d] = {}]
  /\ showPairing' = [showPairing EXCEPT ![d] = FALSE]
  /\ unheard' = [unheard EXCEPT ![d] = 0]
  /\ UNCHANGED <<docs, disk, pushes, taps, losses>>

----------------------------------------------------------------------------
(* The Firestore client of a phone and the server.                         *)

\* Mutant of EventsAfter: a callback only if the document of the account changes.
EventsForOwn(d, newView) ==
  IF newView[Owner[d]] = view[d][Owner[d]] THEN events[d] ELSE Append(events[d], UsersEvent(newView))

\* The listener on "users" gets a callback only if the view it shows changes.
EventsAfter(d, newView) ==
  IF newView = view[d] THEN events[d] ELSE Append(events[d], UsersEvent(newView))

\* The worker takes a write: into the mutation queue, and into the local view.
Persist(d) ==
  LET newView == Apply(Head(calls[d]), view[d])
  IN  /\ running[d] /\ calls[d] # <<>> /\ HasRoom(d)
      /\ calls' = [calls EXCEPT ![d] = Tail(@)]
      /\ queue' = [queue EXCEPT ![d] = Append(@, Head(calls[d]))]
      /\ view' = [view EXCEPT ![d] = newView]
      /\ events' = [events EXCEPT ![d] = EventsAfter(d, newView)]
      /\ UNCHANGED <<docs, running, fetching, users, session, screen, pushes, budget>>

\* The server applies the oldest write of a phone and the phone learns of it: the
\* write moves from the mutation queue to the cached document, under the same view.
Commit(d) ==
  /\ running[d] /\ queue[d] # <<>> /\ unheard[d] = 0
  /\ docs' = Apply(Head(queue[d]), docs)
  /\ queue' = [queue EXCEPT ![d] = Tail(@)]
  /\ UNCHANGED <<view, running, memory, pushes, budget>>

\* The connection of a phone has failed, and the server still applies writes that it
\* was sent over it: the phone does not hear of them.
CommitUnheard(d) ==
  /\ running[d] /\ unheard[d] < Len(queue[d])
  /\ \/ unheard[d] > 0 /\ UNCHANGED losses
     \/ unheard[d] = 0 /\ losses < MaxLosses /\ losses' = losses + 1
  /\ unheard' = [unheard EXCEPT ![d] = @ + 1]
  /\ docs' = Apply(queue[d][unheard[d] + 1], docs)
  /\ UNCHANGED <<disk, running, memory, pushes, taps, kills>>

\* The write stream is open again, and the mutation queue is sent from its start: the
\* writes that the phone has not heard of will be applied a second time.
Reconnect(d) ==
  /\ running[d] /\ unheard[d] > 0
  /\ unheard' = [unheard EXCEPT ![d] = 0]
  /\ UNCHANGED <<docs, disk, running, memory, pushes, taps, kills, losses>>

\* The watch stream brings the collection up to date.
Watch(d) ==
  LET newView == Overlay(queue[d], docs)
  IN  /\ running[d] /\ HasRoom(d) /\ newView # view[d]
      /\ view' = [view EXCEPT ![d] = newView]
      /\ events' = [events EXCEPT ![d] = Append(@, UsersEvent(newView))]
      /\ UNCHANGED <<docs, queue, calls, running, fetching, users, session, screen,
                     pushes, budget>>

\* The document of the account as the server has it, with the queued writes applied.
OwnDocument(d) == Overlay(queue[d], docs)[Owner[d]]

\* The watch stream answers getDocument. Its target is the document of the account
\* alone, which also enters the view of the listener on "users"; the two callbacks
\* are raised in either order.
FetchDocument(d) ==
  LET uid == Owner[d]
      doc == OwnDocument(d)
      newView == [view[d] EXCEPT ![uid] = doc]
      snapshots == IF newView = view[d] THEN <<>> ELSE <<UsersEvent(newView)>>
  IN  /\ running[d] /\ fetching[d] /\ HasRoom(d)
      /\ fetching' = [fetching EXCEPT ![d] = FALSE]
      /\ view' = [view EXCEPT ![d] = newView]
      /\ \/ events' = [events EXCEPT ![d] = (@ \o snapshots) \o <<SessionEvent(uid, doc)>>]
         \/ events' = [events EXCEPT ![d] = (@ \o <<SessionEvent(uid, doc)>>) \o snapshots]
      /\ UNCHANGED <<docs, queue, calls, running, users, session, screen, pushes, budget>>

\* Without a connection getDocument is answered from the cache; a document that is
\* not cached is an error, and listen() only prints "Document does not exist".
FetchOffline(d) ==
  LET uid == Owner[d]
  IN  /\ running[d] /\ fetching[d] /\ HasRoom(d)
      /\ fetching' = [fetching EXCEPT ![d] = FALSE]
      /\ events' = [events EXCEPT ![d] =
                      IF view[d][uid] = Nil THEN @
                      ELSE Append(@, SessionEvent(uid, view[d][uid]))]
      /\ UNCHANGED <<docs, disk, calls, running, users, session, screen, pushes, budget>>

----------------------------------------------------------------------------
(* Callbacks of FirebaseSession on the main queue.                         *)

\* Mutant of Refreshed: the listener leaves the session alone.
NotRefreshed(d, collection) == session[d]

\* The session after a snapshot: replaced if the collection has the account's document.
Refreshed(d, collection) ==
  IF session[d] = Nil \/ collection[Owner[d]] = Nil
  THEN session[d] ELSE SessionOf(collection[Owner[d]])

\* The snapshot listener rebuilds users and refreshes the session. On a giver's
\* phone the rows are drawn anew, which may pop the view above the list.
DeliverUsers(d) ==
  LET collection == Head(events[d]).docs
  IN  /\ Responsive(d) /\ events[d] # <<>> /\ Head(events[d]).kind = "users"
      /\ events' = [events EXCEPT ![d] = Tail(@)]
      /\ users' = [users EXCEPT ![d] = collection]
      /\ session' = [session EXCEPT ![d] = Refreshed(d, collection)]
      /\ \/ UNCHANGED screen
         \/ /\ ~IsFreshman(d)
            /\ pairUp' = [pairUp EXCEPT ![d] = {}]
            /\ showPairing' = [showPairing EXCEPT ![d] = FALSE]
      /\ UNCHANGED <<docs, disk, calls, running, fetching, pushes, budget>>

\* ContentView calls listen() when it appears and, where SwiftUI takes the modifier of its
\* Group to be about the screen in it, again when the screen changes: a second getDocument.
ScreenAppears(d) == fetching' = [fetching EXCEPT ![d] = d \in Reappearing]

\* The callback of getDocument in listen() sets the session; with the first one,
\* FreshmanView or RequestList appears in place of LoginView.
DeliverSession(d) ==
  /\ Responsive(d) /\ events[d] # <<>> /\ Head(events[d]).kind = "session"
  /\ events' = [events EXCEPT ![d] = Tail(@)]
  /\ session' = [session EXCEPT ![d] = SessionOf(Head(events[d]).docs[Owner[d]])]
  /\ IF session[d] = Nil THEN ScreenAppears(d) ELSE UNCHANGED fetching
  /\ UNCHANGED <<docs, disk, calls, running, users, screen, pushes, budget>>

----------------------------------------------------------------------------
(* Taps. A tap that sends writes dispatches them to the worker in order.   *)

Dispatch(d, writes) ==
  /\ taps < MaxTaps
  /\ taps' = taps + 1
  /\ calls' = [calls EXCEPT ![d] = @ \o writes]

\* ContentView shows FreshmanView or RequestList to a user with a session.
LoggedIn(d) == Responsive(d) /\ session[d] # Nil
OnFreshmanView(d) == LoggedIn(d) /\ IsFreshman(d) /\ ~showPairing[d]

\* Mutant of OnRequestList: the list is shown to freshmen too.
OnAnyList(d) == LoggedIn(d) /\ ~showPairing[d] /\ pairUp[d] = {}

OnRequestList(d) == LoggedIn(d) /\ ~IsFreshman(d) /\ ~showPairing[d] /\ pairUp[d] = {}

\* FreshmanView.makeRequest: the form is there while no request is.
MakeRequest(d, hall) ==
  /\ OnFreshmanView(d) /\ session[d].diningHall = NoHall
  /\ Dispatch(d, <<SetRequest(Owner[d], hall, TRUE)>>)
  /\ session' = [session EXCEPT ![d].diningHall = hall]
  /\ UNCHANGED <<docs, disk, running, events, fetching, users, screen, pushes, kills, connection>>

\* FirebaseSession.cancelMealRequest: only the first pairing is dropped.
CancelMealRequest(me, pairings) ==
  <<SetRequest(me, NoHall, FALSE)>>
    \o (IF pairings = <<>> THEN <<>>
        ELSE <<DropPairing(Head(pairings), me), DropPairing(me, Head(pairings))>>)
    \o <<SetRequesting(me, FALSE)>>

\* FreshmanView.cancelRequest: the pairings of the session stay, and no notification
\* is sent.
CancelRequest(d) ==
  /\ OnFreshmanView(d) /\ session[d].diningHall # NoHall /\ Owner[d] \in Cancelling
  /\ Dispatch(d, CancelMealRequest(Owner[d], session[d].pairings))
  /\ session' = [session EXCEPT ![d].diningHall = NoHall]
  /\ UNCHANGED <<docs, disk, running, events, fetching, users, screen, pushes, kills, connection>>

\* A giver opens a row of the list: anyone listed, the giver too.
OpenPairUp(d, uid) ==
  /\ OnRequestList(d)
  /\ users[d][uid] # Nil
  /\ users[d][uid].currentlyRequesting
  /\ pairUp' = [pairUp EXCEPT ![d] =
                  {[uid |-> uid, diningHall |-> users[d][uid].diningHall]}]
  /\ UNCHANGED <<docs, disk, running, calls, events, fetching, users, session,
                 showPairing, pushes, budget>>

\* Mutant of CreatePairing: the documents of the two updates are swapped.
CreatePairingSwapped(me, row) ==
  <<PairWith(row.uid, me, row.diningHall), AddPairing(me, row.uid),
    SetRequesting(row.uid, FALSE)>>

\* FirebaseSession.createPairing.
CreatePairing(me, row) ==
  <<PairWith(me, row.uid, row.diningHall), AddPairing(row.uid, me),
    SetRequesting(row.uid, FALSE)>>

\* Mutant of Notified: the sender looks for a user who is listed.
NotifiedIfListed(d, uid, title) ==
  IF users[d][uid] = Nil \/ ~users[d][uid].currentlyRequesting
  THEN pushes ELSE pushes \cup {[to |-> uid, title |-> title]}

\* A notification is sent to the token of a user among the users.
Notified(d, uid, title) ==
  IF users[d][uid] = Nil THEN pushes ELSE pushes \cup {[to |-> uid, title |-> title]}

\* PairUpView.pair: what counts is the session on this phone and the row as it was.
Pair(d) ==
  \E row \in pairUp[d] :
    /\ LoggedIn(d) /\ ~Paired(d)
    /\ Dispatch(d, CreatePairing(Owner[d], row))
    /\ session' = [session EXCEPT ![d].pairings = Append(@, row.uid)]
    /\ pushes' = Notified(d, row.uid, "Pairing Made")
    /\ pairUp' = [pairUp EXCEPT ![d] = {}]
    /\ UNCHANGED <<docs, disk, running, events, fetching, users, showPairing, kills, connection>>

\* "View your pairing!" of RequestList, "View your current pairing" of FreshmanView.
ShowPairing(d) ==
  /\ LoggedIn(d) /\ Paired(d) /\ ~showPairing[d] /\ pairUp[d] = {}
  /\ IsFreshman(d) => session[d].diningHall # NoHall
  /\ showPairing' = [showPairing EXCEPT ![d] = TRUE]
  /\ UNCHANGED <<docs, disk, running, calls, events, fetching, users, session, pairUp,
                 pushes, budget>>

\* Mutant of RemovePairing: the other half of the pairing stays.
RemoveOwnHalf(me, other) == <<DropPairing(me, other), SetRequesting(other, TRUE)>>

\* FirebaseSession.removePairing: the other user is listed again, whoever cancels.
RemovePairing(me, other) ==
  <<DropPairing(me, other), DropPairing(other, me), SetRequesting(other, TRUE)>>

\* PairedUpRequest.cancel, from either side.
Cancel(d) ==
  LET partner == Head(session[d].pairings)
  IN  /\ LoggedIn(d) /\ showPairing[d] /\ Paired(d) /\ Owner[d] \in Cancelling
      /\ pushes' = Notified(d, partner, "Pairing Canceled")
      /\ Dispatch(d, RemovePairing(Owner[d], partner))
      /\ session' = [session EXCEPT ![d].pairings = Tail(@)]
      /\ showPairing' = [showPairing EXCEPT ![d] = FALSE]
      /\ UNCHANGED <<docs, disk, running, events, fetching, users, pairUp, kills, connection>>

\* Back from a pushed view, or a sheet pulled down.
GoBack(d) ==
  /\ LoggedIn(d) /\ (pairUp[d] # {} \/ showPairing[d])
  /\ pairUp' = [pairUp EXCEPT ![d] = {}]
  /\ showPairing' = [showPairing EXCEPT ![d] = FALSE]
  /\ UNCHANGED <<docs, disk, running, calls, events, fetching, users, session, pushes,
                 budget>>

----------------------------------------------------------------------------

Tap(d) ==
  \/ \E hall \in Halls : MakeRequest(d, hall)
  \/ CancelRequest(d)
  \/ \E uid \in Users : OpenPairUp(d, uid)
  \/ Pair(d)
  \/ ShowPairing(d)
  \/ Cancel(d)
  \/ GoBack(d)

Fetch(d) == FetchDocument(d) \/ FetchOffline(d)

Deliver(d) == DeliverUsers(d) \/ DeliverSession(d)

Next == \E d \in Devices :
  \/ Launch(d) \/ Die(d)
  \/ Persist(d) \/ Commit(d) \/ CommitUnheard(d) \/ Reconnect(d) \/ Watch(d) \/ Fetch(d)
  \/ Deliver(d)
  \/ Tap(d)

Spec == Init /\ [][Next]_vars

(***************************************************************************)
(* The worker and the main queue serve what is waiting for them, and       *)
(* Firestore reconnects and retries for as long as the app runs. Nobody    *)
(* has to tap, to launch the app or to end it.                             *)
(***************************************************************************)
Fairness == \A d \in Devices :
  /\ WF_vars(Persist(d))
  /\ WF_vars(Commit(d))
  /\ WF_vars(Reconnect(d))
  /\ WF_vars(Watch(d))
  /\ WF_vars(Fetch(d))
  /\ WF_vars(Deliver(d))

FairSpec == Spec /\ Fairness

----------------------------------------------------------------------------
(* Properties.                                                             *)

TypeOK ==
  /\ docs \in [Users -> Doc]
  /\ view \in [Devices -> [Users -> MaybeDoc]]
  /\ queue \in [Devices -> Seq(Write)]
  /\ calls \in [Devices -> Seq(Write)]
  /\ events \in [Devices -> Seq(Event)]
  /\ running \in [Devices -> BOOLEAN]
  /\ fetching \in [Devices -> BOOLEAN]
  /\ users \in [Devices -> [Users -> MaybeDoc]]
  /\ session \in [Devices -> Session \cup {Nil}]
  /\ pairUp \in [Devices -> SUBSET Row]
  /\ showPairing \in [Devices -> BOOLEAN]
  /\ pushes \subseteq Push
  /\ unheard \in [Devices -> Nat]
  /\ taps \in 0..MaxTaps
  /\ kills \in 0..MaxKills
  /\ losses \in 0..MaxLosses

\* Nothing is on its way between the main queue and the worker of a phone.
Idle(d) == calls[d] = <<>> /\ events[d] = <<>>

\* Once the callbacks and the dispatched writes of a running app are served, its
\* user list is the local view and its session is the account's own document in
\* it. Taps change the session ahead of the document (createPairing, removeFirst,
\* diningHall), late snapshots and late answers of getDocument set it back: whatever the
\* order, the local edits must come out as the writes do.
SessionMatchesView ==
  \A d \in Devices : running[d] /\ Idle(d) =>
    /\ users[d] = view[d]
    /\ session[d] # Nil => session[d] = SessionOf(view[d][Owner[d]])

\* No user is twice in a pairings array, on the server or on a phone, although
\* PairUpView.pair may run twice against a session that a late snapshot, or a late answer
\* of getDocument, set back.
NoDuplicatePairings ==
  /\ \A u \in Users : IsInjective(docs[u].pairings)
  /\ \A d \in Devices, u \in Users :
       view[d][u] # Nil => IsInjective(view[d][u].pairings)

\* Freshmen are only ever paired with givers, and never with each other: ContentView shows
\* the list of requests to givers alone, and a cancellation, by whichever side, lists
\* users (givers as well) but takes nobody to another screen.
FreshmenPairWithGivers ==
  \A u \in Freshmen : ToSet(docs[u].pairings) \cap Freshmen = {}

\* Unless the system kills an app, a freshman whose document has a pairing has been
\* sent "Pairing Made". pair() only notifies a user it finds among the users, and the
\* row may be older than they are: a snapshot, of a phone that has just been installed
\* or trapped, must never take a user away who was listed before. Of notifications it is
\* only recorded that there was one: this is about a freshman's first pairing.
PairingAnnounced ==
  kills = 0 => \A u \in Freshmen :
    docs[u].pairings # <<>> => [to |-> u, title |-> "Pairing Made"] \in pushes

\* RequestList forces findUser(id: session.pairings[0])! as soon as the session has a
\* pairing. For a giver who uses one phone the partner is always among the users, although
\* session and users are filled by different callbacks: what the phone wrote it has read
\* from the list, and after a restart the cached collection is reported before the document.
PartnerIsKnown ==
  \A d \in Devices :
    ~IsFreshman(d) /\ Paired(d) /\ (\A e \in Devices \ {d} : Owner[e] # Owner[d]) =>
      PartnerFound(d)

\* Only a write from one of the freshman's own phones changes the dining hall of the
\* request: the hall that createPairing writes goes to the giver's document.
RequestIsOwn ==
  [][\A u \in Freshmen :
       docs'[u].diningHall # docs[u].diningHall =>
         \E d \in Devices : Owner[d] = u
           /\ \E i \in DOMAIN queue[d] : docs' = Apply(queue[d][i], docs)]_vars

\* The collection once the server has every write of a phone.
Settled(d) == Overlay(queue[d] \o calls[d], docs)

\* The two halves of a pairing, in two documents and two writes, stand or fall
\* together: with the writes of a giver's phone applied, the giver has a user among
\* the pairings exactly if that user has the giver. It is true while only givers
\* cancel and no process ends between two writes.
PairingsAgree ==
  \A d \in Devices : ~IsFreshman(d) =>
    LET collection == Settled(d)
    IN  \A u \in Users : u \in ToSet(collection[Owner[d]].pairings)
                            <=> Owner[d] \in ToSet(collection[u].pairings)

\* The account of every giver's phone, and the collection with the phone's writes settled.
GiversCollections == {<<Owner[d], Settled(d)>> : d \in {e \in Devices : ~IsFreshman(e)}}

\* The two halves of the pairings of a giver in a collection.
Halves(me, collection) ==
  {<<me, u>> : u \in ToSet(collection[me].pairings)}
    \cup {<<u, me>> : u \in {v \in Users : me \in ToSet(collection[v].pairings)}}

Exchange == INSTANCE Pairings WITH
  Givers <- Users \ Freshmen,
  requests <- {u \in Freshmen : docs[u].diningHall # NoHall},
  pairings <- UNION {Halves(c[1], c[2]) : c \in GiversCollections}

\* The three writes of a tap, the queues, late snapshots and other phones
\* notwithstanding, a pairing is made or called off at once and for both sides, one in a
\* step, and only with a freshman who has made a request: the exchange implements the
\* atomic one. As PairingsAgree, it needs that only givers cancel and that no
\* process ends between two writes.
ImplementsPairings == Exchange!Spec

\* When the users stop tapping, every phone whose app keeps running ends up showing
\* the server's documents, its session included.
PhonesConverge ==
  <>[](\A d \in Devices : Responsive(d) =>
         /\ users[d] = docs
         /\ session[d] # Nil => session[d] = SessionOf(docs[Owner[d]]))

----------------------------------------------------------------------------
(* What the screens tell their users, and the program does not guarantee.  *)

\* Every write of every phone is on the server, and every phone has heard of it.
Calm ==
  \A d \in Devices : running[d] /\ Idle(d) /\ queue[d] = <<>> /\ view[d] = docs

\* PairUpView: "You can only pair with one person at a time as of now."
OnePairingAtATime == \A u \in Users : Len(docs[u].pairings) <= 1

\* PairedUpRequest says "Your request has been canceled!" on a sheet that is open
\* when the pairing goes: FreshmanView has something to draw for it.
SheetOutlivesPairing ==
  \A d \in Devices : running[d] /\ IsFreshman(d) /\ showPairing[d] => PartnerFound(d)

\* RequestList says "Not yet paired!" or "View your pairing!" to a giver. With everything
\* delivered, nobody believes to be paired with the one, and the partner of the other does.
PairingIsMutual ==
  Calm => \A d \in Devices : ~IsFreshman(d) /\ session[d] # Nil =>
    IF Paired(d) THEN Owner[d] \in ToSet(docs[Head(session[d].pairings)].pairings)
                 ELSE \A u \in Users : Owner[d] \notin ToSet(docs[u].pairings)

\* FreshmanView says "No Request Made!" or "Current Request" to a freshman. With everything
\* delivered, the one is not in the list of requests; the other is, or is paired.
RequestIsShown ==
  Calm => \A d \in Devices : IsFreshman(d) /\ session[d] # Nil =>
    IF session[d].diningHall = NoHall THEN ~docs[Owner[d]].currentlyRequesting
                                      ELSE docs[Owner[d]].currentlyRequesting \/ Paired(d)

=============================================================================
