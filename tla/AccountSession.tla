---------------------------- MODULE AccountSession ----------------------------
(***************************************************************************)
(* Signing up, in and out on one phone: who the phone believes is using    *)
(* it. Four parties keep a user of their own and hear of each other's only *)
(* through queues:                                                         *)
(*                                                                         *)
(*   - Firebase Auth: current, changed on its work queue and saved in the  *)
(*     keychain;                                                           *)
(*   - the Firestore worker: workerUser, whose mutation queue it fills and *)
(*     sends; every account has a queue of its own on disk;                *)
(*   - FirebaseSession on the main queue: session, set by the answer of    *)
(*     the getDocument that the authentication listener asked for;         *)
(*   - AppDelegate on the main queue: userID, in whose document it writes  *)
(*     the registration token of the phone.                                *)
(*                                                                         *)
(* The exchange itself, with a phone for every user, is MealExchange; of   *)
(* a document, this module keeps whether it exists and the token in it.    *)
(***************************************************************************)
EXTENDS Naturals, SequencesExt

CONSTANTS
  Accounts,      \* uids, one per email address
  Nil,           \* nil, and the empty text of AppDelegate.userID
  Never,         \* a listener that was not called yet
  Registered,    \* the accounts that have a document at the start
  Remembered,    \* the account in the keychain at the start, or Nil
  MaxTaps,       \* bound: taps
  MaxRequests,   \* bound: sign-ins and sign-ups waiting for an answer
  MaxListeners,  \* bound: authentication listeners
  MaxTokens,     \* bound: registration tokens the phone is given
  MaxFaults      \* bound: processes killed, requests that fail

ASSUME AccountsAssumption ==
  /\ Nil \notin Accounts /\ Nil \notin Nat /\ Never \notin Accounts \cup {Nil}
  /\ Registered \subseteq Accounts
  /\ Remembered \in Registered \cup {Nil}

ASSUME BoundsAssumption ==
  /\ MaxTaps \in Nat /\ MaxRequests \in Nat /\ MaxListeners \in Nat \ {0}
  /\ MaxTokens \in Nat \ {0} /\ MaxFaults \in Nat

VARIABLES
  registered,   \* Auth server: the accounts
  keys,         \* Firestore server: the token in the document of each account
  keychain,     \* disk: the account that is signed in
  pending,      \* disk: per account, and for nobody, the mutation queue
  running,      \* the process exists
  current,      \* Auth: currentUser
  requests,     \* Auth: what its work queue is waiting for
  main,         \* callbacks on their way to the main queue
  listeners,    \* per authentication listener: the user it was last called with
  work,         \* items on their way to the Firestore worker
  workerUser,   \* Firestore: the user of the mutation queue
  fetching,     \* Firestore: per account, getDocument calls without an answer
  session,      \* FirebaseSession: the uid of session
  userID,       \* AppDelegate: userID
  registering,  \* registrations for notifications without an answer
  token,        \* the registration token of the phone
  taps, faults

disk == <<keychain, pending>>
server == <<registered, keys>>
app == <<session, userID>>
device == <<registering, token>>
vars == <<server, disk, running, current, requests, main, listeners, work, workerUser,
          fetching, app, device, taps, faults>>

----------------------------------------------------------------------------
(* State.                                                                  *)

MaybeAccount == Accounts \cup {Nil}

\* The token in a document; SignUp.signUp writes "", here 0. Nil: no document.
Key == (0..MaxTokens) \cup {Nil}

\* A write of the app: the profile of SignUp.signUp, or a token.
Write == [kind : {"set", "key"}, uid : Accounts, token : 0..MaxTokens]

\* For the worker: a change of user, a getDocument, a write.
Item == [kind : {"user"}, uid : MaybeAccount]
          \cup [kind : {"get"}, uid : Accounts] \cup Write

\* For the main queue: a change of currentUser, the completion of a sign-up, a document
\* that exists, the first call of a listener.
Callback == [kind : {"changed"}, uid : MaybeAccount]
              \cup [kind : {"signedUp"}]
              \cup [kind : {"document"}, uid : Accounts]
              \cup [kind : {"first"}, listener : 1..MaxListeners]

Request == [kind : {"load", "signIn", "signUp"}, uid : Accounts]

Init ==
  /\ registered = Registered
  /\ keys = [u \in Accounts |-> IF u \in Registered THEN 0 ELSE Nil]
  /\ keychain = Remembered
  /\ pending = [u \in MaybeAccount |-> <<>>]
  /\ running = FALSE
  /\ current = Nil
  /\ requests = {}
  /\ main = <<>>
  /\ listeners = <<>>
  /\ work = <<>>
  /\ workerUser = Nil
  /\ fetching = [u \in Accounts |-> 0]
  /\ session = Nil
  /\ userID = Nil
  /\ registering = 0
  /\ token = 1
  /\ taps = 0
  /\ faults = 0

----------------------------------------------------------------------------
(* The process.                                                            *)

\* Mutant of Posted: the listeners hear of users, and not that there is none.
PostedIfUser(callbacks, uid) ==
  IF uid = Nil THEN callbacks ELSE Append(callbacks, [kind |-> "changed", uid |-> uid])

\* Auth notifies its listeners of a change from the main queue.
Posted(callbacks, uid) == Append(callbacks, [kind |-> "changed", uid |-> uid])

\* listen(): one more listener, which is first called from the main queue.
Listen(others, callbacks) ==
  /\ Len(others) < MaxListeners
  /\ listeners' = Append(others, Never)
  /\ main' = Append(callbacks, [kind |-> "first", listener |-> Len(others) + 1])

\* ContentView calls listen() when it appears, and, since its modifier is on a Group,
\* may do so when another screen appears in it.
ScreenAppears(callbacks) ==
  \/ main' = callbacks /\ UNCHANGED listeners
  \/ Listen(listeners, callbacks)

\* The app starts on LoginView. Auth has begun to load the user from the keychain, and may
\* be done before Firestore asks for the user or listen() is called.
Launch ==
  /\ ~running
  /\ running' = TRUE
  /\ \/ /\ requests' = IF keychain = Nil THEN {} ELSE {[kind |-> "load", uid |-> keychain]}
        /\ Listen(<<>>, <<>>)
        /\ UNCHANGED <<current, workerUser>>
     \/ /\ keychain # Nil
        /\ current' = keychain
        /\ workerUser' \in {Nil, keychain}
        /\ Listen(<<>>, Posted(<<>>, keychain))
        /\ UNCHANGED requests
  /\ UNCHANGED <<server, disk, work, fetching, app, device, taps, faults>>

\* Auth.auth().currentUser! in the completion of a sign-up ends the process if nobody is
\* signed in.
Trapping == main # <<>> /\ Head(main).kind = "signedUp" /\ current = Nil

\* The process ends, by the system or by a trap.
Die ==
  /\ running
  /\ \/ Trapping /\ UNCHANGED faults
     \/ faults < MaxFaults /\ faults' = faults + 1
  /\ running' = FALSE
  /\ current' = Nil
  /\ requests' = {}
  /\ main' = <<>>
  /\ listeners' = <<>>
  /\ work' = <<>>
  /\ workerUser' = Nil
  /\ fetching' = [u \in Accounts |-> 0]
  /\ session' = Nil
  /\ userID' = Nil
  /\ registering' = 0
  /\ UNCHANGED <<server, disk, token, taps>>

----------------------------------------------------------------------------
(* Firebase Auth.                                                          *)

Tap == running /\ ~Trapping /\ taps < MaxTaps /\ taps' = taps + 1

\* LoginView.logIn and SignUp.signUp: the forms are there while there is no session.
Submit(request) ==
  /\ Tap
  /\ session = Nil
  /\ Cardinality({r \in requests : r.kind # "load"}) < MaxRequests
  /\ requests' = requests \cup {request}
  /\ UNCHANGED <<server, disk, running, current, main, listeners, work, workerUser, fetching,
                 app, device, faults>>

LogIn(u) == u \in registered /\ Submit([kind |-> "signIn", uid |-> u])
SignUp(u) == u \notin registered /\ Submit([kind |-> "signUp", uid |-> u])

\* The work queue of Auth serves the load first and then the answers of the server. The
\* listeners hear of the new user before the completion of the request.
Authenticate(r) ==
  /\ running
  /\ r.kind # "load" => \A s \in requests : s.kind # "load"
  /\ r.kind = "signUp" => r.uid \notin registered
  /\ requests' = requests \ {r}
  /\ registered' = registered \cup {r.uid}
  /\ keychain' = r.uid
  /\ current' = r.uid
  /\ main' = Posted(main, r.uid)
               \o (IF r.kind = "signUp" THEN <<[kind |-> "signedUp"]>> ELSE <<>>)
  /\ UNCHANGED <<keys, pending, running, listeners, work, workerUser, fetching, app, device,
                 taps, faults>>

\* A sign-in or a sign-up fails: the form says so.
RequestFails(r) ==
  /\ running /\ r.kind # "load" /\ faults < MaxFaults
  /\ faults' = faults + 1
  /\ requests' = requests \ {r}
  /\ UNCHANGED <<server, disk, running, current, main, listeners, work, workerUser, fetching,
                 app, device, taps>>

\* Mutant of LoggedOutID: logOut forgets userID as well.
NoID == Nil

\* AppDelegate.userID after logOut: as before.
LoggedOutID == userID

\* FirebaseSession.logOut, from the button of either screen.
LogOut ==
  /\ Tap
  /\ session # Nil
  /\ session' = Nil
  /\ userID' = LoggedOutID
  /\ keychain' = Nil
  /\ current' = Nil
  /\ ScreenAppears(IF current = Nil THEN main ELSE Posted(main, Nil))
  /\ UNCHANGED <<server, pending, running, requests, work, workerUser, fetching, device, faults>>

----------------------------------------------------------------------------
(* Callbacks on the main queue.                                            *)

\* The main queue takes a callback.
Serves(kind) == running /\ main # <<>> /\ Head(main).kind = kind

\* A listener reads currentUser when it is called, and lets the app know if that is
\* another user than before.
Called(l) == listeners[l] # current

\* Mutant of Gets: listen() asks for a document whoever is signed in.
GetsAnyway(called) ==
  [i \in 1..Cardinality(called) |-> [kind |-> "get", uid |-> current]]

\* For each call with a user listen() asks for the document.
Gets(called) ==
  IF current = Nil THEN <<>>
  ELSE [i \in 1..Cardinality(called) |-> [kind |-> "get", uid |-> current]]

DeliverFirst ==
  LET l == Head(main).listener
  IN  /\ Serves("first")
      /\ main' = Tail(main)
      /\ work' = work \o Gets({k \in {l} : Called(k)})
      /\ listeners' = [listeners EXCEPT ![l] = current]
      /\ UNCHANGED <<server, disk, running, current, requests, workerUser, fetching, app,
                     device, taps, faults>>

\* Firestore hears of the user that was current when the notification was raised, the
\* listeners of the one that is.
DeliverChanged ==
  /\ Serves("changed")
  /\ main' = Tail(main)
  /\ work' = Append(work, [kind |-> "user", uid |-> Head(main).uid])
               \o Gets({l \in DOMAIN listeners : Called(l)})
  /\ listeners' = [l \in DOMAIN listeners |-> current]
  /\ UNCHANGED <<server, disk, running, current, requests, workerUser, fetching, app, device,
                 taps, faults>>

\* The completion of SignUp.signUp writes the profile to document(currentUser!.uid).
DeliverSignedUp ==
  /\ Serves("signedUp") /\ current # Nil
  /\ main' = Tail(main)
  /\ work' = Append(work, [kind |-> "set", uid |-> current, token |-> 0])
  /\ UNCHANGED <<server, disk, running, current, requests, listeners, workerUser, fetching, app,
                 device, taps, faults>>

\* The callback of getDocument in listen().
DeliverDocument ==
  LET u == Head(main).uid
  IN  /\ Serves("document")
      /\ session' = u
      /\ userID' = u
      /\ registering' = registering + 1
      /\ IF session = Nil THEN ScreenAppears(Tail(main))
                          ELSE main' = Tail(main) /\ UNCHANGED listeners
      /\ UNCHANGED <<server, disk, running, current, requests, work, workerUser, fetching, token,
                     taps, faults>>

----------------------------------------------------------------------------
(* The registration token.                                                 *)

\* updateData(["key": token]) on document(userID).
WriteKey(t) == work' = Append(work, [kind |-> "key", uid |-> userID, token |-> t])

\* didRegisterForRemoteNotificationsWithDeviceToken and the answer of InstanceID. The
\* document of "" is a trap, which TokenHasAddress rules out.
DidRegister ==
  /\ running /\ registering > 0 /\ userID # Nil
  /\ registering' = registering - 1
  /\ WriteKey(token)
  /\ UNCHANGED <<server, disk, running, current, requests, main, listeners, workerUser, fetching,
                 app, token, taps, faults>>

\* The registration or InstanceID fails: the error is printed.
DidFailToRegister ==
  /\ running /\ registering > 0 /\ faults < MaxFaults
  /\ faults' = faults + 1
  /\ registering' = registering - 1
  /\ UNCHANGED <<server, disk, running, current, requests, main, listeners, work, workerUser,
                 fetching, app, token, taps>>

\* messaging(_:didReceiveRegistrationToken:): the phone is given another token.
DidReceiveRegistrationToken ==
  /\ running /\ token < MaxTokens
  /\ token' = token + 1
  /\ IF userID = Nil THEN UNCHANGED work ELSE WriteKey(token')
  /\ UNCHANGED <<server, disk, running, current, requests, main, listeners, workerUser, fetching,
                 app, registering, taps, faults>>

----------------------------------------------------------------------------
(* The Firestore worker and the server.                                    *)

\* Mutant of QueuesAfter: the queue of the user who leaves is dropped.
QueuesDropped(user) == [pending EXCEPT ![workerUser] = <<>>]

\* A change of user swaps the mutation queue; the old one stays on disk.
QueuesAfter(user) == pending

Work ==
  LET item == Head(work)
  IN  /\ running /\ work # <<>>
      /\ work' = Tail(work)
      /\ \/ /\ item.kind = "user"
            /\ workerUser' = item.uid
            /\ pending' = QueuesAfter(item.uid)
            /\ UNCHANGED fetching
         \/ /\ item.kind = "get"
            /\ fetching' = [fetching EXCEPT ![item.uid] = @ + 1]
            /\ UNCHANGED <<workerUser, pending>>
         \/ /\ item.kind \in {"set", "key"}
            /\ pending' = [pending EXCEPT ![workerUser] = Append(@, item)]
            /\ UNCHANGED <<workerUser, fetching>>
      /\ UNCHANGED <<server, keychain, running, current, requests, main, listeners, app, device,
                     taps, faults>>

\* The token in a document after a write, Nil if there is no document: setData replaces
\* the document, key "" included; updateData fails without it.
Written(key, w) ==
  IF w.kind = "set" THEN 0 ELSE IF key = Nil THEN Nil ELSE w.token

\* The server applies, or rejects, the oldest write of the user of the worker.
Send ==
  LET w == Head(pending[workerUser])
  IN  /\ running /\ pending[workerUser] # <<>>
      /\ keys' = [keys EXCEPT ![w.uid] = Written(@, w)]
      /\ pending' = [pending EXCEPT ![workerUser] = Tail(@)]
      /\ UNCHANGED <<registered, keychain, running, current, requests, main, listeners, work,
                     workerUser, fetching, app, device, taps, faults>>

\* The document that getDocument sees: the server's, or one that a queued write creates.
Exists(u) ==
  \/ keys[u] # Nil
  \/ \E i \in DOMAIN pending[workerUser] :
       pending[workerUser][i].kind = "set" /\ pending[workerUser][i].uid = u

\* getDocument is answered; without a document the callback only prints.
Fetch(u) ==
  /\ running /\ fetching[u] > 0
  /\ fetching' = [fetching EXCEPT ![u] = @ - 1]
  /\ main' = IF Exists(u) THEN Append(main, [kind |-> "document", uid |-> u]) ELSE main
  /\ UNCHANGED <<server, disk, running, current, requests, listeners, work, workerUser, app,
                 device, taps, faults>>

\* getDocument fails, and the callback only prints.
FetchFails(u) ==
  /\ running /\ fetching[u] > 0 /\ faults < MaxFaults
  /\ faults' = faults + 1
  /\ fetching' = [fetching EXCEPT ![u] = @ - 1]
  /\ UNCHANGED <<server, disk, running, current, requests, main, listeners, work, workerUser,
                 app, device, taps>>

----------------------------------------------------------------------------

Deliver == DeliverFirst \/ DeliverChanged \/ DeliverSignedUp \/ DeliverDocument

Next ==
  \/ Launch \/ Die
  \/ \E u \in Accounts : LogIn(u) \/ SignUp(u)
  \/ \E r \in requests : Authenticate(r) \/ RequestFails(r)
  \/ LogOut
  \/ Deliver
  \/ DidRegister \/ DidFailToRegister \/ DidReceiveRegistrationToken
  \/ Work \/ Send
  \/ \E u \in Accounts : Fetch(u) \/ FetchFails(u)

Spec == Init /\ [][Next]_vars

\* The queues are served and the servers answer while the app runs; nobody has to tap,
\* to launch the app or to be given another token.
Fairness ==
  /\ WF_vars(\E r \in requests : Authenticate(r))
  /\ WF_vars(Deliver)
  /\ WF_vars(DidRegister)
  /\ WF_vars(Work)
  /\ WF_vars(Send)
  /\ \A u \in Accounts : WF_vars(Fetch(u))

FairSpec == Spec /\ Fairness

----------------------------------------------------------------------------
(* Properties.                                                             *)

\* Types. Every callback and every queued item names an account or a listener there is.
TypeOK ==
  /\ registered \subseteq Accounts
  /\ keys \in [Accounts -> Key]
  /\ keychain \in MaybeAccount
  /\ pending \in [MaybeAccount -> Seq(Write)]
  /\ running \in BOOLEAN
  /\ current \in MaybeAccount
  /\ requests \subseteq Request
  /\ main \in Seq(Callback)
  /\ listeners \in Seq(MaybeAccount \cup {Never})
  /\ work \in Seq(Item)
  /\ workerUser \in MaybeAccount
  /\ fetching \in [Accounts -> Nat]
  /\ session \in MaybeAccount
  /\ userID \in MaybeAccount
  /\ registering \in Nat
  /\ token \in 1..MaxTokens
  /\ taps \in 0..MaxTaps
  /\ faults \in 0..MaxFaults

\* Whenever the answer to a registration comes, AppDelegate has a user to write the token
\* for: document("") would end the process. Only getDocument registers, after it has set
\* userID, and logOut leaves userID alone.
TokenHasAddress == registering > 0 => userID # Nil

\* The completion of SignUp.signUp forces Auth.auth().currentUser!, which need not be the
\* account it has created. There is a user, unless a session was open in this process: it
\* takes a log-out, from a session opened while the answer of the server was on its way.
SignUpHasUser == Trapping => userID # Nil

\* The parties agree once they have heard of each other: with its queues served, a
\* running app has every authentication listener called with currentUser, and Firestore
\* fills and sends the mutation queue of that user. They are told by a notification that
\* carries one user and makes the listeners read another.
UsersAgree ==
  running /\ main = <<>> /\ work = <<>> =>
    /\ workerUser = current
    /\ \A l \in DOMAIN listeners : listeners[l] = current

HasProfile(q, u) == \E i \in DOMAIN q : q[i].kind = "set" /\ q[i].uid = u

\* The profile of an account is in a mutation queue on disk, if only in that of an account
\* that is signed out.
ProfileQueued(u) == \E v \in MaybeAccount : HasProfile(pending[v], u)

\* The profile of an account is on its way to the server.
ProfileSent(u) == HasProfile(work, u) \/ ProfileQueued(u)

\* The profile that SignUp has sent is not lost by changes of user, and from the time it
\* is on disk not by the end of the process either, until the document is there.
ProfileKept ==
  [][\A u \in Accounts :
       ProfileQueued(u) \/ (ProfileSent(u) /\ running') => ProfileSent(u)' \/ keys'[u] # Nil]_vars

\* A session belongs to an account whose document exists or is on its way: what the
\* screens write into document(session.uid) has a document to go to.
SessionHasDocument == session # Nil => keys[session] # Nil \/ ProfileSent(session)

\* No write to the document of an account is in the mutation queue of another user.
InOwnQueue(u) ==
  \A v \in MaybeAccount \ {u} : \A i \in DOMAIN pending[v] : pending[v][i].uid # u

\* A user who stays signed in ends up with the phone's token in the document, however the
\* token changes before or after userID is set, and whatever tokens wait in the account's
\* mutation queue since the user was last signed in. Calls must not fail, for they are not
\* tried again; and a stale answer of getDocument can have a token queued while nobody, or
\* another, is signed in: that queue is sent out of order with the account's, or not at all.
TokenArrives ==
  \A u \in Accounts :
    [](InOwnQueue(u) /\ faults = 0) /\ <>[](session = u /\ current = u) =>
      <>[](keys[u] = token)

----------------------------------------------------------------------------
(* What the program says of itself, and does not guarantee.                *)

\* LoginView, "Sign In", and RequestList, "Logout": with everything delivered, the screens
\* are those of the account that was signed in last, and of none after it was signed out.
SignedIn ==
  requests = {} /\ main = <<>> /\ work = <<>> /\ (\A u \in Accounts : fetching[u] = 0) =>
    session = Nil \/ session = current

\* listen() prints "Document does not exist": then the account has none, and none is about
\* to be written.
DocumentDoesNotExist ==
  [][\A u \in Accounts :
       fetching'[u] < fetching[u] /\ main' = main /\ UNCHANGED <<running, faults>> =>
         ~ProfileSent(u) /\ ~(current = u /\ \E i \in DOMAIN main : main[i].kind = "signedUp")]_vars

=============================================================================
