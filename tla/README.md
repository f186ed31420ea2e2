# Verification of the meal swipe exchange

TLA+ models, TLC runs and TLAPS proofs for the iOS app in
`src/mealSwipeExchange/mealSwipeExchange` (called "the app" below; file names without a
path are in that directory). Students with spare meal swipes ("givers") look at a list of
requests made by students without ("freshmen"), pair up with one of them, and either side
may call the pairing or the request off. All shared state is one Firestore collection;
there is no code of the project's own on a server.

`hasSwipes` in the code is not what it suggests: `SignUp.signUp` stores `hasSwipes = true` for
the users who answer "No" to the picker that sets `receiveSwipes` (`SignUp.swift:79-82`,
`105-109`), and `ContentView` shows `FreshmanView`, the form for requests, to the users with
`hasSwipes = true`. The models say `Freshmen` for the latter, whatever the form asked them.

## The system

### Components

| Component | State | Operations | Correct when |
|---|---|---|---|
| `FirebaseSession` | `session: User?`, `users: [User]` (main queue) | `requestMeal`, `cancelMealRequest`, `createPairing`, `removePairing`, snapshot listener of `init`, `listen`, `logIn`, `logOut`, `signUp`, `findUser` | the session ends up as the account's own document; the halves of a pairing agree; arrays have no duplicates |
| `FreshmanView` | `showPairing`, typed hall and date | `makeRequest`, `cancelRequest`, sheet with the pairing | what it says ("No Request Made!", "Current Request") is so |
| `RequestList` | `showPairing`, `searchText` | rows to `PairUpView`, link to `PairedUpRequest`, "Not yet paired!" | only givers see it; the forced partner exists |
| `PairUpView` | the `User` of the row, copied when it was drawn | `pair` | one pairing at a time |
| `PairedUpRequest` | the partner | `cancel` | shows that a pairing is gone |
| `ContentView` | - | routes by `session` and `hasSwipes`; calls `listen` | |
| `LoginView`, `SignUp` | the form | sign in, reset, create account and document | a new account gets its document and then its session |
| `AppDelegate` | `userID` | writes the registration token to `document(userID)` | the token is in the document of the account that is signed in |
| `PushNotificationSender` | - | one POST to FCM | a paired freshman is told |
| Firestore client (vendored, `Pods/FirebaseFirestore`) | cached documents, a mutation queue per account, active listeners | local writes, ordered commits, watch stream, `getDocument`, change of user | no write is lost; the queue is that of the user who is signed in |
| Firebase Auth (vendored, `Pods/FirebaseAuth`) | `currentUser`, keychain, listeners | sign in, create, sign out, notify | everybody it tells of the user ends up with the same one |
| Firestore, FCM and Auth servers | the collection `users` | external | |

The unit and UI tests, `src/test`, `src/test2` and the playground are templates of Xcode
without content. The repository has no documents; the texts on the screens and the force
unwrappings (`!`) are what it says about itself. `SignUp.swift:92` has an unterminated
string literal (`"Sign Up')`), so the sources as committed do not compile; the models take
the line as the title it stands for.

### Interaction

On a phone three threads of control share the exchange. Taps and callbacks run on the main
queue and own `users`, `session` and the screens. A tap *edits the session at once* and
*dispatches* one to four independent writes to the Firestore worker. The worker persists each
write in the mutation queue, applies it to the local view and dispatches a snapshot
callback to the main queue. The network sends the queue to the server in order and brings
back what others wrote. A callback therefore may have been overtaken by taps, and a tap
may rest on documents that other phones have long changed.

Which account a phone is used with is known in four places that learn of it one after the
other: Auth changes `currentUser` on its work queue, notifies its listeners and Firestore
from the main queue, the listener asks for the document, and the answer sets the session
and `AppDelegate.userID`. Each hop is a queue, and taps come in between.

### Hard behaviours

Stale rows and sessions behind a guard; pairs of documents changed by separate writes;
snapshots delivered after a later local edit; processes that end between two writes and
come back with a queue on disk; two phones of one account; `getDocument` racing the
snapshot listener; views that force a value that a callback may take away; writes the
server applied without the phone hearing of it, which are sent again; answers that set a
session after it was closed; writes queued for a user who has left. The complete
list, with lines, is under `hazards` in `PROJECT.json`.

## Modules

| Module | What |
|---|---|
| `UserDocuments` | documents, the five shapes of write the app sends, and what a write or a queue of writes does to a collection |
| `MealExchange` | phones, their Firestore clients and the server: the core of the system, with its properties |
| `Pairings` | the abstract exchange: a giver makes or calls off a pairing in one step, for both sides |
| `MCMealExchange` | who owns which phone in the small instances |
| `AccountSession` | one phone and its accounts: Auth, the listeners, Firestore's mutation queues, the session, the registration token |
| `MCAccountSession` | the accounts of the small instances |
| `UserDocuments_proofs` | lemmas about writes and overlays |
| `MealExchange_proofs` | inductive invariants and theorems of `MealExchange` |
| `Announcements_proofs` | the proof of `PairingAnnounced`: a phone never forgets a user |
| `SessionView_proofs` | the proof of `SessionMatchesView`: callbacks catch up with the view, edits of the session with their writes |
| `Partners_proofs` | the proof of `PartnerIsKnown`: nobody mentions a giver before the giver's phone has the whole collection |
| `Halves_proofs` | the proof of `PairingsAgree`: only a giver's phone writes the giver's halves, and it writes both |
| `Pairings_proofs` | the proof of `ImplementsPairings`, step by step |
| `AccountSession_proofs` | inductive invariants and theorems of `AccountSession` |

`MealExchange` extends `UserDocuments` and instantiates `Pairings` for the refinement.
`MealExchange` and `AccountSession` are two views of the same app: the first has many
phones and keeps each on one account, with what the pairings need of a document; the
second has one phone and many accounts and keeps of a document whether it exists and its
token. What they share is `FirebaseSession.session`, set by the `getDocument` callback.

### State of `MealExchange` and the code

| Variable | Code |
|---|---|
| `docs` | collection `users` on the server |
| `view` | the local view of the collection in Firestore's cache: cached documents with the queued writes applied (`local_documents_view.cc`) |
| `queue` | Firestore's persisted mutation queue |
| `calls` | writes enqueued on the worker by `FirestoreClient::WriteMutations` |
| `events` | callbacks dispatched to the main queue: snapshots of `users`, results of `getDocument` |
| `running`, `fetching` | the process exists; the `getDocument` of `listen()` is outstanding |
| `users`, `session` | the properties of `FirebaseSession` |
| `pairUp`, `showPairing` | `PairUpView` on top of the list, with its row; the `@State` of `RequestList` or `FreshmanView` |
| `pushes` | notifications whose request to FCM was started (`task.resume()`) |
| `unheard` | writes at the head of the queue that the server applied over a connection that failed (`RemoteStore::write_pipeline_` before the results come) |
| `taps`, `kills`, `losses` | how much of the bounds is used |

### Actions and the code

`MakeRequest` (`FreshmanView.makeRequest`, `requestMeal`), `CancelRequest`
(`cancelMealRequest`), `OpenPairUp` (a row of `RequestList`), `Pair` (`PairUpView.pair`,
`createPairing`), `ShowPairing`, `Cancel` (`PairedUpRequest.cancel`, `removePairing`) and
`GoBack` are taps, each one atomic on the main queue. `DeliverUsers` and `DeliverSession`
are the two callbacks of `FirebaseSession`; with the first session the screen changes, and
`ContentView.onAppear` may ask for the document a second time (`ScreenAppears`). `Persist`, `Commit`,
`CommitUnheard`, `Reconnect`, `Watch`, `FetchDocument` and `FetchOffline` are Firestore. `Launch` is `SceneDelegate` and `listen()`; `Die` is the
end of a process, by the system at any time or by a trap of Swift when a view is drawn in
a state in which it forces nil (`Trapping`): no callback and no tap comes between.

The server may apply several writes of a phone before the phone learns that the connection
is gone (`CommitUnheard`). When the write stream is open again, the whole pipeline is sent
from its start (`OnWriteStreamHandshakeComplete`), so these writes are applied a second
time, after whatever other phones have written since. The stream token that goes with the
handshake is opaque to the client; the model does not count on the server to recognize a
write by it. As long as the connection is not back the phone hears of no commit.

### State of `AccountSession` and the code

| Variable | Code |
|---|---|
| `registered`, `keys` | the accounts of the Auth server; per account, the `key` of its document, or no document |
| `keychain`, `current` | the user saved by `FIRAuth`, and `_currentUser` |
| `requests` | what the work queue of Auth waits for: the load of the saved user, answers to sign-ins and sign-ups |
| `listeners` | `previousUserID` of each listener that `listen()` has added |
| `main` | blocks on their way to the main queue: notifications, first calls of listeners, completions of sign-ups, answers of `getDocument` |
| `work`, `workerUser`, `pending` | items on their way to the Firestore worker, `SyncEngine::current_user_`, the mutation queues |
| `fetching` | `getDocument` calls without an answer |
| `session`, `userID` | of `FirebaseSession` and `AppDelegate` |
| `registering`, `token` | registrations for notifications without an answer; the token of the phone, numbered |

`Launch` starts the process; Auth loads the saved user before or after Firestore and
`listen()` come to it. `LogIn` and `SignUp` are the buttons of the forms, `Authenticate`
and `RequestFails` the answers, `LogOut` is `FirebaseSession.logOut`.
`DeliverFirst` and
`DeliverChanged` call the listeners: a notification tells Firestore the user it was
raised for, and makes the listeners read `currentUser` as it is by then. `DeliverSignedUp`
is the completion in `SignUp.signUp`, `DeliverDocument` the callback in `listen()`.
`DidRegister`, `DidFailToRegister` and `DidReceiveRegistrationToken` are `AppDelegate`.
`Work` is the worker, `Send` the server applying or rejecting the oldest write of the
queue in use, `Fetch` and `FetchFails` the answers of `getDocument`. `Die` is the end of
the process, also by `currentUser!` of nobody.

### Abstractions

- Names, phone numbers, dates and tokens are left out; they are written once or only shown.
  A hall is one of a small set or the empty text.
- In `MealExchange` every account has its document from the start, and a phone stays signed
  in to one account; `AccountSession` is about both.
- The acknowledgement of a write reaches the phone together with the commit, unless the
  connection fails (`CommitUnheard`). The local view
  does not change by it: `AcknowledgeBatch` moves the write from the queue to the cached
  document. The server never rejects a write (the project has no rules in the repository).
- `Watch` brings the whole collection, as of one moment, which is what a Firestore snapshot
  is. The result of `getDocument` is newer than the snapshot and only has one document; it
  also enters the view of the collection listener.
- `User.id` is a new `UUID()` in every snapshot, so `ForEach` draws all rows anew; whether
  SwiftUI pops the view above them is left open (both are steps of `DeliverUsers`).
- `onAppear` of the `Group` in `ContentView` may or may not run again when another screen
  appears in it (SwiftUI does not say). In `AccountSession` both are steps
  (`ScreenAppears`). In `MealExchange` it is a property of a phone, the constant
  `Reappearing`: on these phones `listen()` asks for the document again once the session is
  set, and the answer may come at any time after that, also after taps. A phone of
  `Started` that is in `Reappearing` begins with that second call outstanding.
- APNs and InstanceID are one answer (`DidRegister`): the address is
  read when the second one comes. Loading the saved user is a request like the others, and
  always the first that is served. Of two sign-ins the answers come in any order.
- The worker takes its items one at a time, and queues are kept per user, for nobody as
  well. The rules of the database are not in the repository; writes of nobody are accepted.
- The search text only hides rows: opening any listed row covers it.
- `pushes` only grows: `PairingAnnounced` is about the first pairing of each freshman, and is
  met by a notification of an earlier pairing when a freshman is paired again.
- A handler is one step. The worker may persist its first writes while it still runs, and
  the system may kill the process in between, which equals a kill after the tap with the
  same writes persisted, except for the notification: `pushes` may have one that was never
  started. `PairingAnnounced` therefore speaks of behaviours without kills. Whether a
  request to FCM that was started arrives is not modelled; its failure is ignored by the code.

## Runs

`f1`, `f2` are freshmen, `g1`, `g2` givers, `p1` to `p3` their phones. Every run of
`MealExchange` has one hall and the bounds of its cfg: `MaxTaps` taps that write, `MaxKills`
processes killed, `MaxLosses` connections lost, `MaxEvents` callbacks waiting per phone. A
full cycle (request, pair, cancel) takes three taps; the fourth starts the next one on what
the first left behind. One waiting callback is enough for one that is late; a second, in
`restarts`, for a late one and a current one. In the instances of `AccountSession`, `a` and
`b` are accounts, a fault is a killed process or a failing call, and three taps make up a
sign-in, a sign-out and another sign-in, with whatever the first two left on its way; a
second listener is enough for one answer to be late, and two tokens for one to be stale.
`Cancelling` restricts who uses the cancel buttons; `Started` says which phones run from the
start. `agreement` treats the two givers, each with the own phone, as interchangeable
(`GiversAlike`), and `requests` the two freshmen (`FreshmenAlike`): no definition tells them
apart. `Reappearing` is empty where the table does not name a phone: a second `getDocument` per
phone multiplies the states, and what its answer does to a session late snapshots do as well. Deadlock is not checked: with nobody
tapping, everything delivered and the bounds used up, the system rightly rests.

| Run | Instance | Checks | Result |
|---|---|---|---|
| `exchange` | f1 g1, 4 taps, 1 lost connection | `TypeOK`, `SessionMatchesView`, `NoDuplicatePairings` | holds |
| `requests` | f1 f2 g1, 3 taps, p3 is `Reappearing`, all cancel | `NoDuplicatePairings`, `FreshmenPairWithGivers`, `RequestIsOwn` | holds |
| `restarts` | f1 g1, p2 a fresh installation and `Reappearing`, 3 taps, 1 kill, fair | `SessionMatchesView`, `PairingAnnounced`, `PartnerIsKnown`, `PhonesConverge` | holds |
| `agreement` | f1 g1 g2, 3 taps, givers cancel | `PairingsAgree`, `ImplementsPairings` | holds |
| `accounts` | a, b without a document yet, 3 taps, 2 listeners | `TypeOK`, `TokenHasAddress`, `SignUpHasUser`, `UsersAgree`, `SessionHasDocument`, `ProfileKept` | holds |
| `remembered` | a in the keychain, b new, 2 taps, 2 tokens, 1 fault, fair | `UsersAgree`, `ProfileKept`, `TokenArrives` | holds |
| `two_partners` | f1 f2 g1, 4 taps, nobody cancels | `OnePairingAtATime` | violated |
| `sheet` | f1 g1, 3 taps, g1 cancels | `SheetOutlivesPairing` | violated |
| `not_yet_paired` | f1 g1, 5 taps | `PairingIsMutual` | violated |
| `current_request` | f1 g1, 3 taps, 1 kill | `RequestIsShown` | violated |
| `signed_in` | a b, 2 taps | `SignedIn` | violated |
| `no_document` | b new, 1 tap | `DocumentDoesNotExist` | violated |

What the passing runs show:

- `SessionMatchesView`: every local edit of the session is matched by its writes. A late
  snapshot may set the session back for a while, but when a phone has served what is
  waiting, `users` is its view and `session` its own document in it, also after a restart
  from the cache with writes still queued.
- `NoDuplicatePairings`: running `pair()` twice on such a session does no harm, because
  `arrayUnion` is a union. In `requests` the late answer of getDocument sets the giver's
  session back after a tap, and three taps are enough to pair twice with the same freshman;
  in `exchange` the writes themselves are applied twice.
- `RequestIsOwn`, `FreshmenPairWithGivers`: nobody edits somebody else's request, also with a
  second freshman, and the role that `ContentView` routes by carries over to the pairings. In
  `requests` freshmen cancel too, so that `removePairing` lists the giver, who asked for
  nothing, and whose row can be opened.
- `PairingAnnounced`: `pair()` looks the freshman up among `users` at the time of the tap
  and skips the notification silently if there is none; unless the system kills an app, no
  freshman is paired without it the first time, also on a phone that has only part of the collection.
- `PartnerIsKnown`: `RequestList` forces the partner from the moment the session has a
  pairing, and the session is set by another callback than `users`. For a giver with one
  phone the partner is always there: what the phone wrote it had read from the list, and
  after a restart the cached collection is reported first. The condition is needed: a second,
  freshly installed phone of a paired giver may have its own document before the others.
- `PairingsAgree`: with the writes of a phone settled, a giver names a user exactly if that
  user names the giver. It needs both conditions of the run: it fails as soon as freshmen
  cancel too (`not_yet_paired`) or a process ends between two of the three writes of
  `createPairing` or `removePairing`, which are on disk one by one. No process is killed in
  `agreement`; what a kill between the writes of `removePairing` comes to is what
  `current_request` shows.
- `ImplementsPairings`: under the same two conditions `MealExchange` implements `Pairings`.
  The abstract `pairings` are the halves of each giver's pairings *with the writes of that
  giver's phone settled*, that is, `queue` and `calls` applied to the server's documents; the
  abstract `requests` are the freshmen whose document has a hall. A tap of `pair()` or
  `cancel()` is then one abstract step, and persisting, sending and hearing of its three
  writes are stutters, whatever other phones do in between. `Pairings` does not say that a
  user has one pairing at a time: that is refuted by `two_partners`.
- `UsersAgree`: whichever way loading, sign-ins and sign-outs follow each other, when what
  is on its way has been delivered, the listeners were last called with `currentUser` and
  Firestore works on that user's queue, although a notification tells the two different
  things. `SessionHasDocument` and `ProfileKept`: a profile that `SignUp` has sent reaches
  the server even if another user has the worker by then and the queue it is in rests.
- `TokenHasAddress`: every answer to a registration finds a `userID`; with `userID` cleared
  by `logOut`, as one might expect it to be, `document("")` would end the process.
- `SignUpHasUser`: the completion of a sign-up finds a user, unless a session was open
  meanwhile. It says nothing about which user: if another sign-in was answered in between,
  the profile is written to that account's document, and no text of the app rules it out. The exception is real: a user who signs up while the account in the keychain is
  being loaded, and logs out of the session that opens, meets the trap.
- `TokenArrives`, under weak fairness of what is waiting: Auth's answers (one of them, not
  each), the blocks on the main queue, the registration, the worker, the server and each
  `getDocument`. It is about executions without failing calls, since nothing is tried
  again, and it has a condition, `InOwnQueue`: a stale answer of `getDocument` after
  `logOut` sets the session without a user, a token then goes to the queue of nobody, and
  is sent before or after an older one of the account, or not at all.
- `PhonesConverge`, under weak fairness of `Persist`, `Commit`, `Reconnect`, `Watch`,
  `Fetch` and `Deliver` of every phone: the worker and the main queue are serial dispatch queues that
  serve what is enqueued, and Firestore reconnects and retries while the process runs. No
  fairness is assumed of users or of launching an app.

### Findings

The violated properties are texts of the screens, and a value the screens force:

1. *"You can only pair with one person at a time as of now."* (`PairUpView.swift:22`): a
   snapshot older than the tap sets the session back, and the guard lets the giver pair with
   a second freshman. As the guard looks at the giver only, two givers may also pair with
   the same freshman.
2. *"Your request has been canceled!"* (`PairedUpRequest.swift:37`): on the freshman's
   sheet `pairings[0]` of the empty array is forced first (`FreshmanView.swift:55`).
3. *"Not yet paired!"* (`RequestList.swift:28`): the freshman may still name the giver, when
   cancellations cross a new pairing. No process is killed in this run; with `MaxKills = 1`
   TLC finds a shorter way: the giver's process ends after the first write of
   `createPairing`, and the giver is told of a pairing the freshman knows nothing of.
4. *"Current Request"* (`FreshmanView.swift:43`): the giver cancels, and the process ends when
   two of the three writes of `removePairing` are on disk (`FireBaseSession.swift:81-86`).
   The halves of the pairing are gone, and the third write, which would list the request
   again, is lost. With `MaxKills = 0` TLC finds another way that takes longer but needs no
   failure: when the freshman cancels, `removePairing` lists the giver.
5. *"Sign In"* (`LoginView.swift:35`) and *"Logout"* (`RequestList.swift:40`): an answer of
   `getDocument` that comes late sets the session of an account that is not signed in.
6. *"Document does not exist"* (`FireBaseSession.swift:50`): printed of a document whose
   write has yet to be sent, and the new user has no session until the next launch.

## Proofs

Checked by TLAPS for all values of the constants that satisfy the assumptions
(`HallsAssumption`: the empty text is no hall; `NilIsNoDocument`, `NilIsNoSession`: nil is
neither; `PhonesAssumption`: roles and owners are users; `BoundsAssumption`: the bounds
are numbers, however large; `AccountsAssumption`: nil is neither an account nor a token, and
`never` is neither; its own `BoundsAssumption`: there may be a listener and a token).

Of `MealExchange`:

| Theorem | States | Inductive invariant |
|---|---|---|
| `TypeCorrect` | `Spec => []TypeOK` | `TypeInv`: `TypeOK`, and a waiting result of `getDocument` has the account's document. Without the second part `DeliverSession` would read the fields of nil. |
| `NoDuplicates` | `Spec => []NoDuplicatePairings` | `UniqueInv`: all documents of the server and of the views are free of repetitions; relative to `TypeInv` |
| `FreshmenAndGivers` | `Spec => []FreshmenPairWithGivers` | `RolesInv`: besides the property, every write in `queue` or `calls` of a phone is *proper* (to a freshman's document it adds no freshman and sets no hall but the owner's own), and `PairUpView` is only open on givers' phones. The property alone is not inductive, because the bad write would be on its way long before it commits. |
| `RequestsAreOwn` | `Spec => RequestIsOwn` | the same `RolesInv` and the lemmas that the server only ever applies a write of a queue (`AppliedWrites`), heard of or not, and that only a write that mentions the hall changes it |
| `PairingsAreAnnounced` | `Spec => []PairingAnnounced` | `KnownInv`: the users with a document are more and more from the list on the screen through the waiting snapshots to the local view, and a row of `PairUpView` is one of a listed user. `pair()` therefore finds the user it notifies, even when snapshots have replaced the list under the row. `AnnouncedInv`: every write in `queue` or `calls` that pairs a freshman follows the notification. The proof uses `kills = 0` nowhere: the property has it because the model sends a notification at once, and a request that is lost with its process would not be in `pushes`. |
| `SessionsMatchViews` | `Spec => []SessionMatchesView` | `ScreenInv`: the last snapshot that waits is the local view, and the last callback of either kind has the account's document as it is in the view (`CatchesUp`); with no callback waiting, the session is that document, or one of the writes in `calls` is going to change the view (`Changing`), which brings another snapshot. The property speaks of empty queues only, so it says nothing of what fills them. That an edit is always followed by a write that changes something is where the guards of the taps come in (`TapsChange`): a request is made only without a hall and cancelled only with one, a pairing is made only without one and cancelled only with one. |
| `PartnersAreKnown` | `Spec => []PartnerIsKnown` | `UnmentionedInv`: as long as the local view of a giver's only phone lacks a document, no document, write, callback, session or row anywhere mentions the giver. It is the phone's own rows that bring the giver into the collection, and they come from a full list. `ToldInv`: on that phone, a waiting document with a pairing follows a snapshot of the whole collection, or all users are listed; and a session with a pairing, or an open row, means that all users are listed. Both relative to `KnownInv` (a list that was full stays so) and `ScreenInv` (a running phone with a full view has been, or will be, told of all of it). |
| `HalvesAgree` | `GiversCancel`, `OnePhoneEach` prove `Spec => [](kills = 0 => PairingsAgree)` | `GiversInv`: no giver is listed, and a pending write touches no half of a pairing but those of the giver whose phone sends it. `HalvesInv`: for every giver and freshman, both halves or none are `Bound`: set by the last write of `queue` and `calls` that touches the half, or on the server with no such write. The property speaks of the collection that a whole queue leads to; `OverlayPairings` says that this is what the last write to each half says, so that commits, resent writes and those of other phones come to the same (`BoundKept`) and only the taps count. |
| `PairingsImplemented` | `GiversCancel`, `OnePhoneEach` prove `Spec /\ [](kills = 0) => ImplementsPairings` | all of the above and `AskedInv`: a freshman whose document has no hall is not listed and nobody's partner on the server, nor in anything a giver's phone has seen, shows or waits for; and no pending write is going to change that but the freshman's own, which sets the hall with it. Hence `pair()` is with a freshman who has asked, as the abstract `Pair` demands, however old the row is. |

The hypotheses of the last two, with `kills = 0`, are those of the run `agreement`. `GiversCancel` says that no
freshman is among `Cancelling`, `OnePhoneEach` that the account of a giver's phone is signed in
on no other phone. Both are needed, and so is that no process is killed: freshmen who cancel
break the pairs by what `not_yet_paired` shows; the settled writes of one phone know nothing of
what another phone of the same giver has yet to send; and a process may end with one of two
writes on disk. Neither theorem assumes anything about connections: writes that are applied
twice, behind those of other phones, do not separate the halves, because nobody else writes
them. That a process may end by a trap is no exception to `kills = 0`: `PartnersAreKnown` says
that the phones of these givers meet none.

`Carried` in `Partners_proofs` is what three of these invariants have in common: all documents of
the server and of each phone, in views, lists and callbacks, all pending writes, the sessions
and the rows stay in sets that are closed under each other (`Closed`). `NextCarried` proves
once, for all of Firestore and the callbacks, that a step keeps them; each invariant adds the
commits and the taps.

They rest on lemmas about the writes: `TransformedProperties`, `TransformedMembers` and
`RemovedMember` (what array union and removal keep, add, bound and take away), `ApplyType`,
`OverlayType` and `OverlayStaysIn`: a queue of writes stays in any set of collections that single
writes stay in. `Overlay` is a recursive function; `OverlayRuns` unfolds it into the sequence of
collections it passes through, and inductions along it are carried out in first-order form
(`UpTo`, by a least counterexample).

Of `AccountSession`:

| Theorem | States | Inductive invariant |
|---|---|---|
| `TypeCorrect` | `Spec => []TypeOK` | `TypeOK` itself |
| `TokensHaveAddress` | `Spec => []TokenHasAddress` | `AddressInv`: a registration that is waiting, or a session, has a `userID`; and before there is a `userID`, nobody is signed out while the completion of a sign-up waits. Only the screens of a session log out, so until there was one `currentUser!` finds a user. |
| `SignUpsHaveUser` | `Spec => []SignUpHasUser` | the same `AddressInv` |
| `ProfilesAreKept` | `Spec => ProfileKept` | `TypeOK`; the argument is `ProfileStep`: a step of a running app moves a profile from the worker to a mutation queue on disk, and from there to the server, and drops none |
| `SessionsHaveDocuments` | `Spec => []SessionHasDocument` | `DocumentInv`: besides the session, every answer of `getDocument` among the callbacks is for an account whose profile is on the server or on its way. The answer was right when it was given; `ProfileStep` is why it still is when it is served. |
| `UsersComeToAgree` | `Spec => []UsersAgree` | `UsersInv`: the last user that the callbacks carry to Firestore, else the last among the worker's items, else the worker's own, is `currentUser`; and every listener was last called with it or has a call waiting. The property speaks of empty queues and is not inductive: it needs what is in them. |

`LastInSequence` and `CallbacksHear` say what appending to a queue and serving its head do
to "the last of a kind".

Model-checked only: `PhonesConverge` and `TokenArrives` (liveness under fairness is beyond the
prover), and the violations, which TLC shows by example. Every safety property of a passing run,
the action properties and the refinement are theorems.

## Not modelled, and the plan

Left for later is the composition of `AccountSession` and `MealExchange`: pairings of two
accounts made on one phone, whose writes share the mutation queue of whoever is signed in.

Out of scope: layout and typed texts, the permission prompt, `resetPassword` (the answer is
ignored), `searchUp` (it is the library's `uppercased` and `contains`), `RequestRow`,
`SwiftUIView` (a template), `snapShotExtensions` (unused) and the templates of Xcode. Of the vendored code in `Pods`,
which is nearly all of the repository, only what the app relies on is modelled, at the
interface between them: not the state machines of Firestore's streams, limbo resolution and garbage
collection, Auth's token refresh and other providers, nor gRPC, BoringSSL, Protobuf and leveldb.

## Running

    tlc -config exchange.cfg MCMealExchange
    tlc -config accounts.cfg MCAccountSession
    tlapm MealExchange_proofs.tla
    tlapm Announcements_proofs.tla
    tlapm SessionView_proofs.tla
    tlapm Partners_proofs.tla
    tlapm Halves_proofs.tla
    tlapm Pairings_proofs.tla
    tlapm AccountSession_proofs.tla
