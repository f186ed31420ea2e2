--------------------------- MODULE Partners_proofs ----------------------------
(***************************************************************************)
(* findUser(id: session.pairings[0])! never traps on a giver's only phone. *)
(* The session and the users are filled by different callbacks, and right  *)
(* after the installation the phone holds the account's document alone.    *)
(* The proof is that nobody can have mentioned the giver before the phone  *)
(* has held the whole collection (UnmentionedInv): a giver gets into the   *)
(* collection's pairings only by what the phone itself does. From then on  *)
(* a snapshot of the whole collection is always served before a document   *)
(* with a pairing (ToldInv).                                               *)
(***************************************************************************)
EXTENDS Announcements_proofs, SessionView_proofs

----------------------------------------------------------------------------
(* The steps of one phone.                                                 *)

\* What one phone does.
Step(d) ==
  \/ Launch(d) \/ Die(d)
  \/ Persist(d) \/ Commit(d) \/ CommitUnheard(d) \/ Reconnect(d) \/ Watch(d) \/ Fetch(d)
  \/ Deliver(d)
  \/ Tap(d)

\* A phone changes nothing on another one.
LEMMA OthersUntouched ==
  ASSUME TypeInv, NEW d \in Devices, Step(d), NEW e \in Devices \ {d}
  PROVE  /\ view'[e] = view[e] /\ queue'[e] = queue[e] /\ calls'[e] = calls[e]
         /\ events'[e] = events[e] /\ users'[e] = users[e] /\ session'[e] = session[e]
         /\ running'[e] = running[e] /\ pairUp'[e] = pairUp[e]
<1>t. /\ queue \in [Devices -> Seq(Write)] /\ calls \in [Devices -> Seq(Write)]
      /\ events \in [Devices -> Seq(Event)] /\ view \in [Devices -> [Users -> MaybeDoc]]
      /\ users \in [Devices -> [Users -> MaybeDoc]] /\ session \in [Devices -> Session \cup {Nil}]
      /\ pairUp \in [Devices -> SUBSET Row] /\ running \in [Devices -> BOOLEAN]
  BY DEF TypeInv, TypeOK
<1>1. CASE Launch(d) \/ Die(d)
  BY <1>1, <1>t DEF Launch, Die, disk, screen
<1>2. CASE Persist(d) \/ Commit(d) \/ CommitUnheard(d) \/ Reconnect(d)
  BY <1>2, <1>t DEF Persist, Commit, CommitUnheard, Reconnect, disk, memory, screen
<1>3. CASE Watch(d) \/ Fetch(d)
  BY <1>3, <1>t DEF Watch, Fetch, FetchDocument, FetchOffline, disk, screen
<1>4. CASE Deliver(d)
  BY <1>4, <1>t DEF Deliver, DeliverUsers, DeliverSession, disk, screen
<1>5. CASE Tap(d)
  <2>1. CASE (\E hall \in Halls : MakeRequest(d, hall)) \/ CancelRequest(d)
    BY <2>1, <1>t DEF MakeRequest, CancelRequest, Dispatch, disk, screen
  <2>2. CASE (\E uid \in Users : OpenPairUp(d, uid)) \/ ShowPairing(d) \/ GoBack(d)
    BY <2>2, <1>t DEF OpenPairUp, ShowPairing, GoBack, disk
  <2>3. CASE Pair(d) \/ Cancel(d)
    BY <2>3, <1>t DEF Pair, Cancel, Dispatch, disk
  <2> QED BY <1>5, <2>1, <2>2, <2>3 DEF Tap
<1> QED BY <1>1, <1>2, <1>3, <1>4, <1>5 DEF Step
----------------------------------------------------------------------------
(* What collections and writes carry from the taps of one phone to         *)
(* everywhere else.                                                        *)

\* Callbacks that bring collections of S.
Bringing(S) == {e \in Event : e.docs \in S}

\* The server's collection is of T. All collections on a phone d are of S[d], its writes of
\* W[d], the pairings of its session of P[d], and the rows that are open of users in R.
Carried(T, S, W, P, R) ==
  /\ docs \in T
  /\ \A d \in Devices :
       /\ queue[d] \in Seq(W[d]) /\ calls[d] \in Seq(W[d])
       /\ view[d] \in S[d] /\ users[d] \in S[d] /\ events[d] \in Seq(Bringing(S[d]))
       /\ session[d] # Nil => session[d].pairings \in P[d]
       /\ \A row \in pairUp[d] : row.uid \in R

\* Writes lead from S[d] to S[d], so does taking one document from elsewhere, and the accounts'
\* documents have the pairings a session may have.
Closed(S, W, P) ==
  \A d \in Devices :
    /\ S[d] \subseteq [Users -> MaybeDoc] /\ NoDocs \in S[d]
    /\ \A x, y \in S[d], u \in Users : [x EXCEPT ![u] = y[u]] \in S[d]
    /\ \A w \in W[d], x \in S[d] : Apply(w, x) \in S[d]
    /\ \A x \in S[d] : x[Owner[d]] # Nil => x[Owner[d]].pairings \in P[d]

\* The members of an array that is extended or shortened.
LEMMA EditedMembers ==
  ASSUME NEW S, NEW s \in Seq(S)
  PROVE  /\ \A e \in S : ToSet(Append(s, e)) = ToSet(s) \cup {e}
         /\ s # <<>> => Head(s) \in ToSet(s) /\ ToSet(Tail(s)) \subseteq ToSet(s)
<1> DEFINE n == Len(s)
<1>0. n \in Nat /\ DOMAIN s = 1..n /\ ToSet(s) = {s[i] : i \in 1..n}
  BY LenProperties DEF ToSet
<1>1. ASSUME NEW e \in S PROVE ToSet(Append(s, e)) = ToSet(s) \cup {e}
  <2> DEFINE longer == Append(s, e)
  <2>1. /\ DOMAIN longer = 1..(n + 1) /\ \A i \in 1..n : longer[i] = s[i]
        /\ longer[n + 1] = e
    BY <1>0, AppendProperties, LenProperties
  <2> HIDE DEF longer, n
  <2>2. \A i \in 1..(n + 1) : i = n + 1 \/ i \in 1..n
    BY <1>0
  <2>3. \A i \in 1..n : i \in 1..(n + 1)
    BY <1>0
  <2>4. n + 1 \in 1..(n + 1)
    BY <1>0
  <2>5. ToSet(longer) = {longer[i] : i \in 1..(n + 1)}
    BY <2>1 DEF ToSet
  <2> QED BY <1>0, <2>1, <2>2, <2>3, <2>4, <2>5 DEF longer
<1>2. ASSUME s # <<>> PROVE Head(s) \in ToSet(s) /\ ToSet(Tail(s)) \subseteq ToSet(s)
  <2>1. /\ n > 0 /\ Head(s) = s[1] /\ DOMAIN Tail(s) = 1..(n - 1)
        /\ \A i \in 1..(n - 1) : Tail(s)[i] = s[i + 1]
    BY <1>0, <1>2, HeadTailProperties, LenProperties, EmptySeq
  <2> HIDE DEF n
  <2>2. 1 \in 1..n /\ \A i \in 1..(n - 1) : i + 1 \in 1..n
    BY <1>0, <2>1
  <2>3. ToSet(Tail(s)) = {Tail(s)[i] : i \in 1..(n - 1)}
    BY <2>1 DEF ToSet
  <2> QED BY <1>0, <2>1, <2>2, <2>3
<1> QED BY <1>1, <1>2

\* The server changes by the writes it applies alone.
LEMMA ServerSteps ==
  ASSUME [Next]_vars, ~\E d \in Devices : Commit(d) \/ CommitUnheard(d)
  PROVE  UNCHANGED docs
<1>1. ASSUME NEW d \in Devices, Persist(d) \/ Watch(d) \/ FetchDocument(d) PROVE UNCHANGED docs
  BY <1>1 DEF Persist, Watch, FetchDocument
<1> QED BY <1>1, QuietSteps

\* It stays in a set that the writes of the phones stay in.
LEMMA ServerKept ==
  ASSUME TypeInv, [Next]_vars, NEW T, docs \in T, NEW W,
         \A d \in Devices : queue[d] \in Seq(W[d]),
         \A d \in Devices : \A w \in W[d], x \in T : Apply(w, x) \in T
  PROVE  docs' \in T
<1>1. ASSUME NEW d \in Devices, Commit(d) \/ CommitUnheard(d) PROVE docs' \in T
  <2>1. PICK i \in 1..Len(queue[d]) : docs' = Apply(queue[d][i], docs)
    BY <1>1, AppliedWrites
  <2>2. queue[d][i] \in W[d]
    BY ElementOfSeq
  <2> QED BY <2>1, <2>2
<1> QED BY <1>1, ServerSteps

\* It is kept by all of Firestore and the callbacks, if the server and the taps keep it.
LEMMA NextCarried ==
  ASSUME TypeInv, [Next]_vars, NEW T, NEW S, NEW W, NEW P, NEW R,
         Closed(S, W, P), \A d \in Devices : T \subseteq S[d], Carried(T, S, W, P, R), docs' \in T,
         \A d \in Devices : Tap(d) =>
           /\ calls'[d] \in Seq(W[d])
           /\ session'[d] # Nil => session'[d].pairings \in P[d]
           /\ \A row \in pairUp'[d] : row.uid \in R
  PROVE  Carried(T, S, W, P, R)'
<1>t. /\ queue \in [Devices -> Seq(Write)] /\ calls \in [Devices -> Seq(Write)]
      /\ events \in [Devices -> Seq(Event)] /\ view \in [Devices -> [Users -> MaybeDoc]]
      /\ users \in [Devices -> [Users -> MaybeDoc]] /\ session \in [Devices -> Session \cup {Nil}]
      /\ pairUp \in [Devices -> SUBSET Row]
  BY DEF TypeInv, TypeOK
<1>u. \A d \in Devices : docs \in S[d]
  BY DEF Carried
<1>0. ASSUME NEW d \in Devices
      PROVE  /\ Owner[d] \in Users
             /\ queue[d] \in Seq(W[d]) /\ calls[d] \in Seq(W[d])
             /\ view[d] \in S[d] /\ users[d] \in S[d] /\ events[d] \in Seq(Bringing(S[d]))
             /\ session[d] # Nil => session[d].pairings \in P[d]
             /\ \A row \in pairUp[d] : row.uid \in R
  BY PhonesAssumption DEF Carried
<1>k. ASSUME NEW d \in Devices
      PROVE  /\ NoDocs \in S[d] /\ S[d] \subseteq [Users -> MaybeDoc]
             /\ \A x, y \in S[d], u \in Users : [x EXCEPT ![u] = y[u]] \in S[d]
  BY DEF Closed
<1>w. ASSUME NEW d \in Devices
      PROVE  /\ \A w \in W[d], x \in S[d] : Apply(w, x) \in S[d]
             /\ \A ws \in Seq(W[d]), x \in S[d] : Overlay(ws, x) \in S[d]
  <2>1. \A w \in W[d], x \in S[d] : Apply(w, x) \in S[d]
    BY DEF Closed
  <2> QED BY <2>1, OverlayStaysIn
<1>d. ASSUME NEW d \in Devices, NEW x \in S[d], x[Owner[d]] # Nil
      PROVE  SessionOf(x[Owner[d]]).pairings \in P[d]
  BY <1>d DEF Closed, SessionOf
<1>e. ASSUME NEW d \in Devices, NEW x \in S[d] PROVE UsersEvent(x) \in Bringing(S[d])
  BY <1>k DEF UsersEvent, Bringing, Event
<1>f. ASSUME NEW d \in Devices, NEW x \in S[d], NEW u \in Users PROVE SessionEvent(u, x[u]) \in Bringing(S[d])
  <2>1. [NoDocs EXCEPT ![u] = x[u]] \in S[d]
    BY <1>k
  <2> QED BY <1>k, <2>1 DEF SessionEvent, Bringing, Event
\* A step of a phone, by what it leaves there.
<1>s. ASSUME NEW d \in Devices, Step(d),
             queue'[d] \in Seq(W[d]), calls'[d] \in Seq(W[d]),
             view'[d] \in S[d], users'[d] \in S[d], events'[d] \in Seq(Bringing(S[d])),
             session'[d] # Nil => session'[d].pairings \in P[d],
             \A row \in pairUp'[d] : row.uid \in R
      PROVE  Carried(T, S, W, P, R)'
  <2> SUFFICES ASSUME NEW e \in Devices
               PROVE  /\ queue'[e] \in Seq(W[e]) /\ calls'[e] \in Seq(W[e])
                      /\ view'[e] \in S[e] /\ users'[e] \in S[e] /\ events'[e] \in Seq(Bringing(S[e]))
                      /\ session'[e] # Nil => session'[e].pairings \in P[e]
                      /\ \A row \in pairUp'[e] : row.uid \in R
    BY <1>s DEF Carried, Bringing
  <2>1. CASE e = d
    BY <1>s, <2>1
  <2>2. CASE e # d
    <3>1. /\ view'[e] = view[e] /\ queue'[e] = queue[e] /\ calls'[e] = calls[e]
          /\ events'[e] = events[e] /\ users'[e] = users[e] /\ session'[e] = session[e]
          /\ pairUp'[e] = pairUp[e]
      BY <1>s, <2>2, OthersUntouched
    <3> QED BY <1>0, <3>1
  <2> QED BY <2>1, <2>2
\* The worker: the view, the callbacks, and what goes through the queues.
<1>b. ASSUME NEW d \in Devices, Step(d), NEW x \in S[d], NEW es \in Seq(Bringing(S[d])),
             NEW cs \in Seq(W[d]), NEW q \in Seq(W[d]),
             view' = [view EXCEPT ![d] = x], events' = [events EXCEPT ![d] = es],
             calls' = [calls EXCEPT ![d] = cs], queue' = [queue EXCEPT ![d] = q],
             UNCHANGED <<users, session, pairUp>>
      PROVE  Carried(T, S, W, P, R)'
  <2>1. view'[d] = x /\ events'[d] = es /\ calls'[d] = cs /\ queue'[d] = q
    BY <1>b, <1>t
  <2>2. /\ users'[d] \in S[d]
        /\ session'[d] # Nil => session'[d].pairings \in P[d]
        /\ \A row \in pairUp'[d] : row.uid \in R
    BY <1>0, <1>b
  <2> QED BY <1>b, <1>s, <2>1, <2>2
\* The main queue: what the callbacks fill.
<1>c. ASSUME NEW d \in Devices, Step(d), NEW es \in Seq(Bringing(S[d])), NEW us \in S[d],
             NEW s, s # Nil => s.pairings \in P[d], calls'[d] \in Seq(W[d]),
             events' = [events EXCEPT ![d] = es], users' = [users EXCEPT ![d] = us],
             session' = [session EXCEPT ![d] = s],
             pairUp' = pairUp \/ pairUp' = [pairUp EXCEPT ![d] = {}],
             UNCHANGED <<docs, view, queue>>
      PROVE  Carried(T, S, W, P, R)'
  <2>1. events'[d] = es /\ users'[d] = us /\ session'[d] = s
    BY <1>c, <1>t
  <2>2. \A row \in pairUp'[d] : row.uid \in R
    BY <1>0, <1>c, <1>t
  <2>3. queue'[d] \in Seq(W[d]) /\ view'[d] \in S[d]
    BY <1>0, <1>c, <1>u
  <2> QED BY <1>c, <1>s, <2>1, <2>2, <2>3
<1>1. ASSUME NEW d \in Devices, Launch(d) PROVE Carried(T, S, W, P, R)'
  <2> DEFINE es == FirstSnapshot(d)
  <2>1. es \in Seq(Bringing(S[d]))
    <3>1. UsersEvent(view[d]) \in Bringing(S[d])
      BY <1>0, <1>e
    <3> QED BY <3>1, TuplesAreSequences DEF FirstSnapshot
  <2>2. /\ events' = [events EXCEPT ![d] = es] /\ view' = [view EXCEPT ![d] = view[d]]
        /\ calls' = [calls EXCEPT ![d] = calls[d]] /\ queue' = [queue EXCEPT ![d] = queue[d]]
        /\ UNCHANGED <<docs, users, session, pairUp>>
    BY <1>1, <1>t DEF Launch, disk, screen
  <2> HIDE DEF es
  <2>3. Step(d)
    BY <1>1 DEF Step
  <2> QED BY <1>0, <1>b, <1>u, <2>1, <2>2, <2>3
<1>2. ASSUME NEW d \in Devices, Die(d) PROVE Carried(T, S, W, P, R)'
  <2>1. /\ events' = [events EXCEPT ![d] = <<>>] /\ users' = [users EXCEPT ![d] = NoDocs]
        /\ session' = [session EXCEPT ![d] = Nil] /\ calls'[d] = <<>>
        /\ pairUp' = [pairUp EXCEPT ![d] = {}] /\ UNCHANGED <<docs, view, queue>>
    BY <1>2, <1>t DEF Die, disk
  <2>2. <<>> \in Seq(Bringing(S[d])) /\ <<>> \in Seq(W[d])
    BY EmptySeq
  <2>3. Step(d)
    BY <1>2 DEF Step
  <2> QED BY <1>c, <1>k, <2>1, <2>2, <2>3
<1>3. ASSUME NEW d \in Devices, Persist(d) PROVE Carried(T, S, W, P, R)'
  <2> DEFINE w == Head(calls[d])
             newView == Apply(w, view[d])
             es == EventsAfter(d, newView)
  <2>1. /\ calls[d] # <<>>
        /\ view' = [view EXCEPT ![d] = newView] /\ events' = [events EXCEPT ![d] = es]
        /\ calls' = [calls EXCEPT ![d] = Tail(calls[d])]
        /\ queue' = [queue EXCEPT ![d] = Append(queue[d], w)]
        /\ UNCHANGED <<docs, users, session, pairUp>>
    BY <1>3 DEF Persist, screen
  <2>2. w \in W[d] /\ Tail(calls[d]) \in Seq(W[d])
    BY <1>0, <2>1, HeadTailProperties
  <2>3. Append(queue[d], w) \in Seq(W[d])
    BY <1>0, <2>2, AppendProperties
  <2>4. newView \in S[d]
    BY <1>0, <1>w, <2>2
  <2> HIDE DEF w, newView
  <2>5. es \in Seq(Bringing(S[d]))
    <3>1. UsersEvent(newView) \in Bringing(S[d])
      BY <1>e, <2>4
    <3> QED BY <1>0, <3>1, AppendProperties DEF EventsAfter
  <2> HIDE DEF es
  <2>6. Step(d)
    BY <1>3 DEF Step
  <2> QED BY <1>b, <2>1, <2>2, <2>3, <2>4, <2>5, <2>6
<1>4. ASSUME NEW d \in Devices, Commit(d) \/ CommitUnheard(d) PROVE Carried(T, S, W, P, R)'
  <2>1. UNCHANGED <<view, users, calls, events, session, pairUp>>
    BY <1>4 DEF Commit, CommitUnheard, memory, disk, screen
  <2>2. queue'[d] \in Seq(W[d])
    <3>1. CASE Commit(d)
      <4>1. queue[d] # <<>> /\ queue' = [queue EXCEPT ![d] = Tail(queue[d])]
        BY <3>1 DEF Commit
      <4>2. Tail(queue[d]) \in Seq(W[d])
        BY <1>0, <4>1, HeadTailProperties
      <4> QED BY <1>t, <4>1, <4>2
    <3>2. CASE CommitUnheard(d)
      BY <1>0, <3>2 DEF CommitUnheard, disk
    <3> QED BY <1>4, <3>1, <3>2
  <2>3. Step(d)
    BY <1>4 DEF Step
  <2> QED BY <1>0, <1>s, <2>1, <2>2, <2>3
<1>5. ASSUME NEW d \in Devices, Watch(d) PROVE Carried(T, S, W, P, R)'
  <2> DEFINE newView == Overlay(queue[d], docs)
             es == Append(events[d], UsersEvent(newView))
  <2>1. newView \in S[d]
    BY <1>0, <1>u, <1>w
  <2>2. /\ view' = [view EXCEPT ![d] = newView] /\ events' = [events EXCEPT ![d] = es]
        /\ calls' = [calls EXCEPT ![d] = calls[d]] /\ queue' = [queue EXCEPT ![d] = queue[d]]
        /\ UNCHANGED <<docs, users, session, pairUp>>
    BY <1>5, <1>t DEF Watch, screen
  <2> HIDE DEF newView
  <2>3. es \in Seq(Bringing(S[d]))
    BY <1>0, <1>e, <2>1, AppendProperties
  <2> HIDE DEF es
  <2>4. Step(d)
    BY <1>5 DEF Step
  <2> QED BY <1>0, <1>b, <1>u, <2>1, <2>2, <2>3, <2>4
<1>6. ASSUME NEW d \in Devices, FetchDocument(d) PROVE Carried(T, S, W, P, R)'
  <2> DEFINE served == Overlay(queue[d], docs)
             doc == OwnDocument(d)
             newView == [view[d] EXCEPT ![Owner[d]] = doc]
             snapshots == IF newView = view[d] THEN <<>> ELSE <<UsersEvent(newView)>>
             loaded == <<SessionEvent(Owner[d], doc)>>
  <2>1. served \in S[d]
    BY <1>0, <1>u, <1>w
  <2>2. doc = served[Owner[d]]
    BY DEF OwnDocument
  <2>3. /\ view' = [view EXCEPT ![d] = newView]
        /\ \/ events' = [events EXCEPT ![d] = (events[d] \o snapshots) \o loaded]
           \/ events' = [events EXCEPT ![d] = (events[d] \o loaded) \o snapshots]
        /\ calls' = [calls EXCEPT ![d] = calls[d]] /\ queue' = [queue EXCEPT ![d] = queue[d]]
        /\ UNCHANGED <<docs, users, session, pairUp>>
    BY <1>6, <1>t DEF FetchDocument, screen
  <2> HIDE DEF served, doc
  <2>4. newView \in S[d] /\ SessionEvent(Owner[d], doc) \in Bringing(S[d])
    BY <1>0, <1>f, <1>k, <2>1, <2>2
  <2> HIDE DEF newView
  <2>5. UsersEvent(newView) \in Bringing(S[d])
    BY <1>e, <2>4
  <2>6. snapshots \in Seq(Bringing(S[d])) /\ loaded \in Seq(Bringing(S[d]))
    BY <2>4, <2>5, TuplesAreSequences
  <2> HIDE DEF snapshots, loaded
  <2>7. /\ (events[d] \o snapshots) \o loaded \in Seq(Bringing(S[d]))
        /\ (events[d] \o loaded) \o snapshots \in Seq(Bringing(S[d]))
    BY <1>0, <2>6, ConcatProperties
  <2>8. Step(d)
    BY <1>6 DEF Step, Fetch
  <2> QED BY <1>0, <1>b, <1>u, <2>3, <2>4, <2>7, <2>8
<1>7. ASSUME NEW d \in Devices, FetchOffline(d) PROVE Carried(T, S, W, P, R)'
  <2> DEFINE es == IF view[d][Owner[d]] = Nil THEN events[d]
                   ELSE Append(events[d], SessionEvent(Owner[d], view[d][Owner[d]]))
  <2>1. /\ events' = [events EXCEPT ![d] = es] /\ view' = [view EXCEPT ![d] = view[d]]
        /\ calls' = [calls EXCEPT ![d] = calls[d]] /\ queue' = [queue EXCEPT ![d] = queue[d]]
        /\ UNCHANGED <<docs, users, session, pairUp>>
    BY <1>7, <1>t DEF FetchOffline, disk, screen
  <2>2. es \in Seq(Bringing(S[d]))
    BY <1>0, <1>f, AppendProperties
  <2> HIDE DEF es
  <2>3. Step(d)
    BY <1>7 DEF Step, Fetch
  <2> QED BY <1>0, <1>b, <1>u, <2>1, <2>2, <2>3
<1>8. ASSUME NEW d \in Devices, DeliverUsers(d) PROVE Carried(T, S, W, P, R)'
  <2> DEFINE x == Head(events[d]).docs
             s == Refreshed(d, x)
  <2>1. /\ events[d] # <<>>
        /\ events' = [events EXCEPT ![d] = Tail(events[d])] /\ users' = [users EXCEPT ![d] = x]
        /\ session' = [session EXCEPT ![d] = s] /\ calls'[d] = calls[d]
        /\ (pairUp' = pairUp \/ pairUp' = [pairUp EXCEPT ![d] = {}])
        /\ UNCHANGED <<docs, view, queue>>
    BY <1>8 DEF DeliverUsers, disk, screen
  <2>2. x \in S[d] /\ Tail(events[d]) \in Seq(Bringing(S[d]))
    <3>1. Head(events[d]) \in Bringing(S[d]) /\ Tail(events[d]) \in Seq(Bringing(S[d]))
      BY <1>0, <2>1, HeadTailProperties
    <3> QED BY <3>1 DEF Bringing
  <2> HIDE DEF x
  <2>3. s # Nil => s.pairings \in P[d]
    BY <1>0, <1>d, <2>2 DEF Refreshed
  <2> HIDE DEF s
  <2>4. Step(d)
    BY <1>8 DEF Step, Deliver
  <2> QED BY <1>0, <1>c, <2>1, <2>2, <2>3, <2>4
<1>9. ASSUME NEW d \in Devices, DeliverSession(d) PROVE Carried(T, S, W, P, R)'
  <2> DEFINE e == Head(events[d])
             s == SessionOf(e.docs[Owner[d]])
  <2>1. /\ events[d] # <<>> /\ e.kind = "session"
        /\ events' = [events EXCEPT ![d] = Tail(events[d])]
        /\ users' = [users EXCEPT ![d] = users[d]]
        /\ session' = [session EXCEPT ![d] = s] /\ calls'[d] = calls[d]
        /\ UNCHANGED <<docs, view, queue, pairUp>>
    BY <1>9, <1>t DEF DeliverSession, disk, screen
  <2>2. e.docs \in S[d] /\ Tail(events[d]) \in Seq(Bringing(S[d]))
    <3>1. e \in Bringing(S[d]) /\ Tail(events[d]) \in Seq(Bringing(S[d]))
      BY <1>0, <2>1, HeadTailProperties
    <3> QED BY <3>1 DEF Bringing
  <2>3. e.docs[Owner[d]] # Nil
    <3>1. events[d] \in Seq(EventOf(d))
      BY DEF TypeInv, FetchedDocuments
    <3>2. e \in EventOf(d)
      BY <2>1, <3>1, HeadTailProperties
    <3> QED BY <2>1, <3>2, NilIsNoDocument DEF EventOf
  <2> HIDE DEF e
  <2>4. s.pairings \in P[d]
    BY <1>d, <2>2, <2>3
  <2> HIDE DEF s
  <2>5. Step(d)
    BY <1>9 DEF Step, Deliver
  <2> QED BY <1>0, <1>c, <2>1, <2>2, <2>4, <2>5
<1>10. ASSUME NEW d \in Devices, Tap(d) PROVE Carried(T, S, W, P, R)'
  <2>1. UNCHANGED <<docs, view, queue, users, events>>
    BY <1>10 DEF Tap, MakeRequest, CancelRequest, OpenPairUp, Pair, ShowPairing, Cancel, GoBack, disk
  <2>2. Step(d)
    BY <1>10 DEF Step
  <2> QED BY <1>0, <1>10, <1>s, <1>u, <2>1, <2>2
<1>11. ASSUME NEW d \in Devices, Reconnect(d) PROVE Carried(T, S, W, P, R)'
  <2>1. UNCHANGED <<docs, view, queue, users, events, calls, session, pairUp>>
    BY <1>11 DEF Reconnect, disk, memory, screen
  <2>2. Step(d)
    BY <1>11 DEF Step
  <2> QED BY <1>0, <1>s, <1>u, <2>1, <2>2
<1>12. ASSUME UNCHANGED vars PROVE Carried(T, S, W, P, R)'
  <2>1. UNCHANGED <<docs, view, queue, users, events, calls, session, pairUp>>
    BY <1>12 DEF vars, disk, memory, screen
  <2> QED BY <2>1 DEF Carried, Bringing
<1> QED
  BY <1>1, <1>2, <1>3, <1>4, <1>5, <1>6, <1>7, <1>8, <1>9, <1>10, <1>11, <1>12
     DEF Next, Fetch, Deliver

----------------------------------------------------------------------------
(* Nobody has mentioned a user.                                            *)

\* The collection has a document of everybody.
Full(x) == \A u \in Users : x[u] # Nil

\* A document without a pairing and without a request.
Blank(doc) == doc.pairings = <<>> /\ ~doc.currentlyRequesting

\* Collections in which nobody is paired with m, and m is not paired and not listed.
Silent(m) ==
  {x \in [Users -> MaybeDoc] : \A u \in Users : x[u] # Nil =>
     /\ m \notin ToSet(x[u].pairings)
     /\ u = m => Blank(x[u])}

\* Writes that keep it so.
SilentWrite(m) ==
  {w \in Write : /\ m \notin w.arrayUnion
                 /\ w.uid = m => w.arrayUnion = {} /\ TRUE \notin w.currentlyRequesting}

\* Pairings of the session of a phone that keep it so.
SilentPairings(m, d) == {ps \in Seq(Users) : m \notin ToSet(ps) /\ (Owner[d] = m => ps = <<>>)}

\* Nothing on the server or on a phone mentions m.
Unmentioned(m) ==
  Carried(Silent(m), [d \in Devices |-> Silent(m)], [d \in Devices |-> SilentWrite(m)],
          [d \in Devices |-> SilentPairings(m, d)], Users \ {m})

\* A giver's only phone.
OnlyPhone(d) == ~IsFreshman(d) /\ \A e \in Devices \ {d} : Owner[e] # Owner[d]

\* Before the phone has held the whole collection.
UnmentionedInv ==
  \A d \in Devices : OnlyPhone(d) /\ ~Full(view[d]) => Unmentioned(Owner[d])

----------------------------------------------------------------------------
(* A phone that was told of a pairing has been told of everybody.          *)

\* All of the documents, or only that of m, which is blank.
Modest(x, m) == Full(x) \/ \A u \in Users : x[u] # Nil => u = m /\ Blank(x[u])

\* A fetched document of m with a pairing waits behind a snapshot of the whole collection,
\* unless that is listed already.
Tells(es, listed, m) ==
  /\ Modest(listed, m)
  /\ \A i \in DOMAIN es : es[i].kind = "users" => Modest(es[i].docs, m)
  /\ \A i \in DOMAIN es : es[i].kind = "session" /\ es[i].docs[m].pairings # <<>> =>
       \/ Full(listed)
       \/ \E j \in DOMAIN es : j < i /\ es[j].kind = "users" /\ Full(es[j].docs)

\* A session with a pairing, and the row of PairUpView, come with a list of everybody.
ToldInv ==
  \A d \in Devices : OnlyPhone(d) =>
    /\ Modest(view[d], Owner[d])
    /\ Tells(events[d], users[d], Owner[d])
    /\ Paired(d) \/ pairUp[d] # {} => Full(users[d])

----------------------------------------------------------------------------
(* Collections in which nobody mentions m.                                 *)

\* A silent write keeps a document from mentioning m.
LEMMA PatchedSilent ==
  ASSUME NEW m, NEW w \in SilentWrite(m), NEW doc \in Doc, m \notin ToSet(doc.pairings),
         w.uid = m => Blank(doc)
  PROVE  /\ Patched(doc, w) \in Doc
         /\ m \notin ToSet(Patched(doc, w).pairings)
         /\ w.uid = m => Blank(Patched(doc, w))
<1> DEFINE after == Transformed(doc.pairings, w.arrayUnion, w.arrayRemove)
           listed == Assigned(w.currentlyRequesting, doc.currentlyRequesting)
<1>0. /\ w \in Write /\ m \notin w.arrayUnion /\ doc.pairings \in Seq(Users)
      /\ w.arrayUnion \in SUBSET Users /\ w.arrayRemove \in SUBSET Users
      /\ w.currentlyRequesting \in SUBSET BOOLEAN
      /\ w.uid = m => w.arrayUnion = {} /\ TRUE \notin w.currentlyRequesting
  BY DEF SilentWrite, Write, Doc
<1>1. Patched(doc, w) \in Doc
  BY <1>0, PatchedType
<1>2. Patched(doc, w).pairings = after /\ Patched(doc, w).currentlyRequesting = listed
  BY DEF Patched
<1>3. after \in Seq(Users) /\ ToSet(after) \subseteq ToSet(doc.pairings) \cup w.arrayUnion
  BY <1>0, TransformedProperties
<1>4. ASSUME w.uid = m PROVE ~listed
  BY <1>0, <1>4 DEF Assigned, Blank
<1> HIDE DEF after, listed
<1>5. ASSUME w.uid = m PROVE after = <<>>
  <2>1. ToSet(doc.pairings) = {} /\ w.arrayUnion = {}
    BY <1>0, <1>5 DEF Blank, ToSet
  <2>2. ToSet(after) = {}
    BY <1>3, <2>1
  <2>3. ASSUME after # <<>> PROVE FALSE
    <3>1. 1 \in DOMAIN after
      BY <1>3, <2>3, LenProperties, EmptySeq
    <3> QED BY <2>2, <3>1 DEF ToSet
  <2> QED BY <2>3
<1> QED BY <1>0, <1>1, <1>2, <1>3, <1>4, <1>5 DEF Blank

\* So do the writes of a queue, on a collection.
LEMMA SilentKept ==
  ASSUME NEW m
  PROVE  /\ \A w \in SilentWrite(m), x \in Silent(m) : Apply(w, x) \in Silent(m)
         /\ \A ws \in Seq(SilentWrite(m)), x \in Silent(m) : Overlay(ws, x) \in Silent(m)
<1>1. ASSUME NEW w \in SilentWrite(m), NEW x \in Silent(m) PROVE Apply(w, x) \in Silent(m)
  <2>0. x \in [Users -> MaybeDoc] /\ w \in Write /\ w.uid \in Users
    BY DEF Silent, SilentWrite, Write
  <2>1. Apply(w, x) \in [Users -> MaybeDoc]
    BY <2>0, ApplyType
  <2>2. ASSUME NEW u \in Users, Apply(w, x)[u] # Nil
        PROVE  m \notin ToSet(Apply(w, x)[u].pairings) /\ (u = m => Blank(Apply(w, x)[u]))
    <3>1. CASE u # w.uid \/ x[w.uid] = Nil
      <4>1. Apply(w, x)[u] = x[u]
        BY <2>0, <3>1 DEF Apply
      <4> QED BY <2>2, <4>1 DEF Silent
    <3>2. CASE u = w.uid /\ x[w.uid] # Nil
      <4>1. Apply(w, x)[u] = Patched(x[u], w)
        BY <2>0, <3>2 DEF Apply
      <4>2. x[u] \in Doc /\ m \notin ToSet(x[u].pairings) /\ (w.uid = m => Blank(x[u]))
        BY <2>0, <3>2 DEF Silent, MaybeDoc
      <4> QED BY <3>2, <4>1, <4>2, PatchedSilent
    <3> QED BY <3>1, <3>2
  <2> QED BY <2>1, <2>2 DEF Silent
<1>2. ASSUME NEW ws \in Seq(SilentWrite(m)), NEW x \in Silent(m) PROVE Overlay(ws, x) \in Silent(m)
  BY <1>1, OverlayStaysIn
<1> QED BY <1>1, <1>2

\* The operations of FirebaseSession do not mention m, if they are not about m.
LEMMA SilentWrites ==
  ASSUME NEW m, NEW me \in Users
  PROVE  /\ \A hall \in Halls : me # m => <<SetRequest(me, hall, TRUE)>> \in Seq(SilentWrite(m))
         /\ \A ps \in Seq(Users) : CancelMealRequest(me, ps) \in Seq(SilentWrite(m))
         /\ \A row \in Row : me # m /\ row.uid # m =>
              CreatePairing(me, row) \in Seq(SilentWrite(m))
         /\ \A other \in Users : other # m => RemovePairing(me, other) \in Seq(SilentWrite(m))
<1>1. \A u, v \in Users : DropPairing(u, v) \in SilentWrite(m)
  BY DEF SilentWrite, Write, DropPairing
<1>2. \A u \in Users : /\ SetRequesting(u, FALSE) \in SilentWrite(m)
                       /\ u # m => SetRequesting(u, TRUE) \in SilentWrite(m)
  BY DEF SilentWrite, Write, SetRequesting
<1>3. ASSUME NEW hall \in Halls, me # m PROVE <<SetRequest(me, hall, TRUE)>> \in Seq(SilentWrite(m))
  <2>1. SetRequest(me, hall, TRUE) \in SilentWrite(m)
    BY <1>3 DEF SilentWrite, Write, SetRequest
  <2> QED BY <2>1, TuplesAreSequences
<1>4. ASSUME NEW ps \in Seq(Users) PROVE CancelMealRequest(me, ps) \in Seq(SilentWrite(m))
  <2> DEFINE first == <<SetRequest(me, NoHall, FALSE)>>
             unpair == IF ps = <<>> THEN <<>>
                       ELSE <<DropPairing(Head(ps), me), DropPairing(me, Head(ps))>>
             last == <<SetRequesting(me, FALSE)>>
  <2>1. SetRequest(me, NoHall, FALSE) \in SilentWrite(m)
    BY DEF SilentWrite, Write, SetRequest
  <2>2. first \in Seq(SilentWrite(m)) /\ last \in Seq(SilentWrite(m))
    BY <1>2, <2>1, TuplesAreSequences
  <2>3. unpair \in Seq(SilentWrite(m))
    <3>1. CASE ps = <<>>
      BY <3>1
    <3>2. CASE ps # <<>>
      <4>1. Head(ps) \in Users
        BY <3>2, HeadTailProperties
      <4> QED BY <1>1, <3>2, <4>1, TuplesAreSequences
    <3> QED BY <3>1, <3>2
  <2>4. CancelMealRequest(me, ps) = (first \o unpair) \o last
    BY DEF CancelMealRequest
  <2> HIDE DEF first, unpair, last
  <2> QED BY <2>2, <2>3, <2>4, ConcatProperties
<1>5. ASSUME NEW row \in Row, me # m, row.uid # m
      PROVE  CreatePairing(me, row) \in Seq(SilentWrite(m))
  <2>1. row.uid \in Users /\ row.diningHall \in Halls \cup {NoHall}
    BY DEF Row
  <2>2. PairWith(me, row.uid, row.diningHall) \in SilentWrite(m)
    BY <1>5, <2>1 DEF SilentWrite, Write, PairWith
  <2>3. AddPairing(row.uid, me) \in SilentWrite(m)
    BY <1>5, <2>1 DEF SilentWrite, Write, AddPairing
  <2> QED BY <1>2, <2>1, <2>2, <2>3, TuplesAreSequences DEF CreatePairing
<1>6. ASSUME NEW other \in Users, other # m PROVE RemovePairing(me, other) \in Seq(SilentWrite(m))
  BY <1>1, <1>2, <1>6, TuplesAreSequences DEF RemovePairing
<1> QED BY <1>3, <1>4, <1>5, <1>6

----------------------------------------------------------------------------
(* Nobody mentions a giver whose phone has not seen the collection.        *)

\* Silent writes and collections carry nothing else.
LEMMA SilentClosed ==
  ASSUME NEW m
  PROVE  Closed([d \in Devices |-> Silent(m)], [d \in Devices |-> SilentWrite(m)],
                [d \in Devices |-> SilentPairings(m, d)])
<1>1. Silent(m) \subseteq [Users -> MaybeDoc]
  BY DEF Silent
<1>2. NoDocs \in Silent(m)
  BY DEF Silent, NoDocs, MaybeDoc
<1>3. ASSUME NEW x \in Silent(m), NEW y \in Silent(m), NEW u \in Users
      PROVE  [x EXCEPT ![u] = y[u]] \in Silent(m)
  BY DEF Silent
<1>4. \A w \in SilentWrite(m), x \in Silent(m) : Apply(w, x) \in Silent(m)
  BY SilentKept
<1>5. ASSUME NEW d \in Devices, NEW x \in Silent(m), x[Owner[d]] # Nil
      PROVE  x[Owner[d]].pairings \in SilentPairings(m, d)
  <2>1. Owner[d] \in Users /\ x[Owner[d]] \in Doc
    BY <1>5, PhonesAssumption DEF Silent, MaybeDoc
  <2>2. x[Owner[d]].pairings \in Seq(Users)
    BY <2>1 DEF Doc
  <2> QED BY <1>5, <2>1, <2>2 DEF Silent, Blank, SilentPairings
<1> QED BY <1>1, <1>2, <1>3, <1>4, <1>5 DEF Closed

\* As long as the giver's only phone has no row open, no step mentions the giver.
LEMMA NextUnmentioned ==
  ASSUME TypeInv, NEW p \in Devices, OnlyPhone(p), Unmentioned(Owner[p]), pairUp[p] = {}, [Next]_vars
  PROVE  Unmentioned(Owner[p])'
<1> DEFINE m == Owner[p]
           S == [d \in Devices |-> Silent(m)]
           W == [d \in Devices |-> SilentWrite(m)]
           P == [d \in Devices |-> SilentPairings(m, d)]
           Kept(d) == /\ calls'[d] \in Seq(SilentWrite(m))
                      /\ session'[d] # Nil => session'[d].pairings \in SilentPairings(m, d)
                      /\ \A row \in pairUp'[d] : row.uid \in Users \ {m}
<1>t. /\ calls \in [Devices -> Seq(Write)] /\ session \in [Devices -> Session \cup {Nil}]
      /\ pairUp \in [Devices -> SUBSET Row]
  BY DEF TypeInv, TypeOK
<1>0. ASSUME NEW d \in Devices
      PROVE  /\ Owner[d] \in Users /\ calls[d] \in Seq(SilentWrite(m)) /\ users[d] \in Silent(m)
             /\ session[d] # Nil => session[d].pairings \in SilentPairings(m, d)
             /\ \A row \in pairUp[d] : row.uid \in Users \ {m}
  BY PhonesAssumption DEF Unmentioned, Carried
<1>p. ASSUME NEW d \in Devices, Owner[d] = m PROVE d = p /\ ~IsFreshman(d) /\ pairUp[d] = {}
  BY <1>p DEF OnlyPhone
<1>c. Closed(S, W, P) /\ Carried(Silent(m), S, W, P, Users \ {m})
  BY SilentClosed DEF Unmentioned
<1> HIDE DEF m, S, W, P
\* A tap that edits the session and sends writes.
<1>s. ASSUME NEW d \in Devices, NEW writes \in Seq(SilentWrite(m)), Dispatch(d, writes), NEW s,
             s.pairings \in SilentPairings(m, d), session' = [session EXCEPT ![d] = s],
             pairUp' = pairUp \/ pairUp' = [pairUp EXCEPT ![d] = {}]
      PROVE  Kept(d)
  <2>1. calls[d] \o writes \in Seq(SilentWrite(m))
    BY <1>0, <1>s, ConcatProperties
  <2>2. calls'[d] = calls[d] \o writes /\ session'[d] = s
    BY <1>s, <1>t DEF Dispatch
  <2>3. \A row \in pairUp'[d] : row.uid \in Users \ {m}
    BY <1>0, <1>s, <1>t
  <2> QED BY <1>s, <2>1, <2>2, <2>3
<1>1. ASSUME NEW d \in Devices, NEW hall \in Halls, MakeRequest(d, hall) PROVE Kept(d)
  <2> DEFINE s == [session[d] EXCEPT !.diningHall = hall]
  <2>1. /\ session[d] # Nil /\ IsFreshman(d) /\ Dispatch(d, <<SetRequest(Owner[d], hall, TRUE)>>)
        /\ session' = [session EXCEPT ![d] = s] /\ UNCHANGED pairUp
    BY <1>1 DEF MakeRequest, OnFreshmanView, LoggedIn, screen
  <2>2. <<SetRequest(Owner[d], hall, TRUE)>> \in Seq(SilentWrite(m))
    BY <1>0, <1>p, <2>1, SilentWrites
  <2>3. s.pairings \in SilentPairings(m, d)
    BY <1>0, <2>1, SessionEditType DEF Session
  <2> HIDE DEF s, Kept
  <2> QED BY <1>s, <2>1, <2>2, <2>3
<1>2. ASSUME NEW d \in Devices, CancelRequest(d) PROVE Kept(d)
  <2> DEFINE s == [session[d] EXCEPT !.diningHall = NoHall]
             writes == CancelMealRequest(Owner[d], session[d].pairings)
  <2>1. /\ session[d] # Nil /\ Dispatch(d, writes)
        /\ session' = [session EXCEPT ![d] = s] /\ UNCHANGED pairUp
    BY <1>2 DEF CancelRequest, OnFreshmanView, LoggedIn, screen
  <2>2. writes \in Seq(SilentWrite(m))
    BY <1>0, <2>1, SessionEditType, SilentWrites
  <2>3. s.pairings \in SilentPairings(m, d)
    BY <1>0, <2>1, SessionEditType DEF Session
  <2> HIDE DEF s, writes, Kept
  <2> QED BY <1>s, <2>1, <2>2, <2>3
<1>3. ASSUME NEW d \in Devices, NEW uid \in Users, OpenPairUp(d, uid) PROVE Kept(d)
  <2>1. /\ UNCHANGED <<calls, session>>
        /\ users[d][uid] # Nil /\ users[d][uid].currentlyRequesting
        /\ pairUp' = [pairUp EXCEPT ![d] = {[uid |-> uid, diningHall |-> users[d][uid].diningHall]}]
    BY <1>3 DEF OpenPairUp
  <2>2. uid # m
    BY <1>0, <2>1 DEF Silent, Blank
  <2>3. \A row \in pairUp'[d] : row.uid \in Users \ {m}
    BY <1>t, <2>1, <2>2
  <2> QED BY <1>0, <2>1, <2>3
<1>4. ASSUME NEW d \in Devices, Pair(d) PROVE Kept(d)
  <2>1. PICK row \in pairUp[d] :
          /\ session[d] # Nil /\ Dispatch(d, CreatePairing(Owner[d], row))
          /\ session' = [session EXCEPT ![d] =
               [session[d] EXCEPT !.pairings = Append(session[d].pairings, row.uid)]]
          /\ pairUp' = [pairUp EXCEPT ![d] = {}]
    BY <1>4 DEF Pair, LoggedIn
  <2>2. row \in Row /\ row.uid \in Users \ {m} /\ Owner[d] # m
    BY <1>0, <1>p, <1>t, <2>1
  <2>3. CreatePairing(Owner[d], row) \in Seq(SilentWrite(m))
    BY <1>0, <2>2, SilentWrites
  <2> DEFINE ps == Append(session[d].pairings, row.uid)
             s == [session[d] EXCEPT !.pairings = ps]
             writes == CreatePairing(Owner[d], row)
  <2>4. session[d] \in Session /\ session[d].pairings \in Seq(Users) /\ m \notin ToSet(session[d].pairings)
    BY <1>0, <2>1, SessionEditType DEF SilentPairings
  <2>5. ps \in Seq(Users) /\ m \notin ToSet(ps)
    BY <2>2, <2>4, EditedMembers, AppendProperties
  <2> HIDE DEF ps
  <2>6. s.pairings \in SilentPairings(m, d)
    BY <2>2, <2>4, <2>5 DEF Session, SilentPairings
  <2>7. session' = [session EXCEPT ![d] = s] /\ Dispatch(d, writes) /\ writes \in Seq(SilentWrite(m))
    BY <2>1, <2>3 DEF ps
  <2> HIDE DEF s, writes, Kept
  <2> QED BY <1>s, <2>1, <2>6, <2>7
<1>5. ASSUME NEW d \in Devices, ShowPairing(d) \/ GoBack(d) PROVE Kept(d)
  <2>1. UNCHANGED <<calls, session>> /\ (pairUp' = pairUp \/ pairUp' = [pairUp EXCEPT ![d] = {}])
    BY <1>5 DEF ShowPairing, GoBack
  <2>2. \A row \in pairUp'[d] : row.uid \in Users \ {m}
    BY <1>0, <1>t, <2>1
  <2> QED BY <1>0, <2>1, <2>2
<1>6. ASSUME NEW d \in Devices, Cancel(d) PROVE Kept(d)
  <2> DEFINE partner == Head(session[d].pairings)
             ps == Tail(session[d].pairings)
             s == [session[d] EXCEPT !.pairings = ps]
             writes == RemovePairing(Owner[d], partner)
  <2>1. /\ session[d] # Nil /\ session[d].pairings # <<>> /\ Dispatch(d, writes)
        /\ session' = [session EXCEPT ![d] = s] /\ UNCHANGED pairUp
    BY <1>6 DEF Cancel, Paired
  <2>2. /\ session[d] \in Session /\ session[d].pairings \in Seq(Users)
        /\ m \notin ToSet(session[d].pairings) /\ Owner[d] # m
    BY <1>0, <2>1, SessionEditType DEF SilentPairings
  <2>3. partner \in Users /\ partner # m /\ ps \in Seq(Users) /\ m \notin ToSet(ps)
    BY <2>1, <2>2, EditedMembers, HeadTailProperties
  <2> HIDE DEF partner, ps
  <2>4. writes \in Seq(SilentWrite(m))
    BY <1>0, <2>3, SilentWrites
  <2>5. s.pairings \in SilentPairings(m, d)
    BY <2>2, <2>3 DEF Session, SilentPairings
  <2> HIDE DEF s, writes, Kept
  <2> QED BY <1>s, <2>1, <2>4, <2>5
<1>7. ASSUME NEW d \in Devices, Tap(d) PROVE Kept(d)
  BY <1>1, <1>2, <1>3, <1>4, <1>5, <1>6, <1>7 DEF Tap
<1>8. \A d \in Devices : Tap(d) =>
        /\ calls'[d] \in Seq(W[d])
        /\ session'[d] # Nil => session'[d].pairings \in P[d]
        /\ \A row \in pairUp'[d] : row.uid \in Users \ {m}
  BY <1>7 DEF W, P
<1>9. docs' \in Silent(m)
  <2>1. docs \in Silent(m) /\ \A d \in Devices : queue[d] \in Seq(W[d])
    BY <1>c DEF Carried
  <2>2. \A d \in Devices : \A w \in W[d], x \in Silent(m) : Apply(w, x) \in Silent(m)
    BY SilentKept DEF W
  <2> QED BY <2>1, <2>2, ServerKept
<1>10. \A d \in Devices : Silent(m) \subseteq S[d]
  BY DEF S
<1>11. Carried(Silent(m), S, W, P, Users \ {m})'
  BY <1>c, <1>8, <1>9, <1>10, NextCarried
<1> QED BY <1>11 DEF Unmentioned, Silent, SilentWrite, SilentPairings, Blank, Carried, m, S, W, P

----------------------------------------------------------------------------
(* The callbacks of a giver's only phone.                                  *)

\* Everybody is listed, or going to be once the callbacks are served.
Complete(es, listed) ==
  Full(listed) \/ \E j \in DOMAIN es : es[j].kind = "users" /\ Full(es[j].docs)

\* A snapshot, or a fetched document, behind the others.
LEMMA TellsAppended ==
  ASSUME NEW es \in Seq(Event), NEW listed, NEW m, Tells(es, listed, m), NEW e \in Event,
         e.kind = "users" => Modest(e.docs, m),
         e.kind = "session" => e.docs[m].pairings = <<>> \/ Complete(es, listed)
  PROVE  /\ Tells(Append(es, e), listed, m)
         /\ Complete(es, listed) \/ (e.kind = "users" /\ Full(e.docs)) =>
              Complete(Append(es, e), listed)
<1> DEFINE longer == Append(es, e)
           n == Len(es)
<1>1. /\ n \in Nat /\ DOMAIN es = 1..n /\ DOMAIN longer = 1..(n + 1)
      /\ \A i \in 1..n : longer[i] = es[i]
      /\ longer[n + 1] = e
  BY AppendedEvent
<1> HIDE DEF longer, n
<1>2. \A i \in 1..(n + 1) : i = n + 1 \/ i \in 1..n
  BY <1>1
<1>3. ASSUME NEW i \in 1..(n + 1), longer[i].kind = "users" PROVE Modest(longer[i].docs, m)
  BY <1>1, <1>2, <1>3 DEF Tells
<1>4. ASSUME NEW i \in 1..(n + 1), longer[i].kind = "session", longer[i].docs[m].pairings # <<>>
      PROVE  Full(listed) \/ \E j \in 1..(n + 1) : j < i /\ longer[j].kind = "users" /\ Full(longer[j].docs)
  <2>1. CASE i = n + 1
    <3>1. Full(listed) \/ \E j \in 1..n : es[j].kind = "users" /\ Full(es[j].docs)
      BY <1>1, <1>4, <2>1 DEF Complete
    <3>2. \A j \in 1..n : j \in 1..(n + 1) /\ j < i /\ longer[j] = es[j]
      BY <1>1, <2>1
    <3> QED BY <3>1, <3>2
  <2>2. CASE i \in 1..n
    <3>1. Full(listed) \/ \E j \in 1..n : j < i /\ es[j].kind = "users" /\ Full(es[j].docs)
      BY <1>1, <1>4, <2>2 DEF Tells
    <3>2. \A j \in 1..n : j \in 1..(n + 1) /\ longer[j] = es[j]
      BY <1>1
    <3> QED BY <3>1, <3>2
  <2> QED BY <1>2, <2>1, <2>2
<1>5. Tells(longer, listed, m)
  BY <1>1, <1>3, <1>4 DEF Tells
<1>6. Complete(es, listed) \/ (e.kind = "users" /\ Full(e.docs)) => Complete(longer, listed)
  <2>1. n + 1 \in 1..(n + 1) /\ \A j \in 1..n : j \in 1..(n + 1) /\ longer[j] = es[j]
    BY <1>1
  <2> QED BY <1>1, <2>1 DEF Complete
<1> QED BY <1>5, <1>6 DEF longer

\* The callback that is served: a list of everybody is not replaced by a shorter one.
LEMMA TellsServed ==
  ASSUME NEW es \in Seq(Event), NEW listed, NEW m, Tells(es, listed, m), es # <<>>,
         Head(es).kind = "users" /\ Full(listed) => Full(Head(es).docs)
  PROVE  /\ Tells(Tail(es), IF Head(es).kind = "users" THEN Head(es).docs ELSE listed, m)
         /\ Head(es).kind = "users" => Modest(Head(es).docs, m)
         /\ Head(es).kind = "session" /\ Head(es).docs[m].pairings # <<>> => Full(listed)
<1> DEFINE rest == Tail(es)
           n == Len(es)
           now == IF Head(es).kind = "users" THEN Head(es).docs ELSE listed
<1>1. /\ Head(es) = es[1] /\ n \in Nat /\ n > 0 /\ DOMAIN es = 1..n /\ 1 \in 1..n
      /\ DOMAIN rest = 1..(n - 1)
      /\ \A i \in 1..(n - 1) : rest[i] = es[i+1] /\ i + 1 \in 1..n
  BY ServedEvent
<1> HIDE DEF rest, n
<1>2. Head(es).kind = "users" => Modest(Head(es).docs, m)
  BY <1>1 DEF Tells
<1>3. Head(es).kind = "session" /\ Head(es).docs[m].pairings # <<>> => Full(listed)
  <2>1. ~\E j \in 1..n : j < 1
    BY <1>1
  <2> QED BY <1>1, <2>1 DEF Tells
<1>4. Modest(now, m) /\ (Full(listed) => Full(now))
  BY <1>2 DEF Tells
<1>5. \A i \in DOMAIN rest : rest[i].kind = "users" => Modest(rest[i].docs, m)
  BY <1>1 DEF Tells
<1>6. ASSUME NEW i \in 1..(n - 1), rest[i].kind = "session", rest[i].docs[m].pairings # <<>>
      PROVE  Full(now) \/ \E j \in 1..(n - 1) : j < i /\ rest[j].kind = "users" /\ Full(rest[j].docs)
  <2>1. \/ Full(listed)
        \/ \E j \in 1..n : j < i + 1 /\ es[j].kind = "users" /\ Full(es[j].docs)
    BY <1>1, <1>6 DEF Tells
  <2>2. ASSUME NEW j \in 1..n, j < i + 1, es[j].kind = "users", Full(es[j].docs)
        PROVE  Full(now) \/ \E k \in 1..(n - 1) : k < i /\ rest[k].kind = "users" /\ Full(rest[k].docs)
    <3>1. CASE j = 1
      BY <1>1, <2>2, <3>1
    <3>2. CASE j # 1
      <4>1. j - 1 \in 1..(n - 1) /\ j - 1 < i /\ (j - 1) + 1 = j
        BY <1>1, <2>2, <3>2
      <4>2. rest[j - 1] = es[j]
        BY <1>1, <4>1
      <4> QED BY <2>2, <4>1, <4>2
    <3> QED BY <3>1, <3>2
  <2> HIDE DEF now
  <2> QED BY <1>4, <2>1, <2>2
<1> HIDE DEF now
<1>7. Tells(rest, now, m)
  BY <1>1, <1>4, <1>5, <1>6 DEF Tells
<1> QED BY <1>2, <1>3, <1>7 DEF now, rest

\* What a phone that runs will have listed is its view.
LEMMA CompleteView ==
  ASSUME NEW es, NEW listed, NEW viewed, NEW u, CatchesUp(es, listed, viewed, u), Full(viewed)
  PROVE  Complete(es, listed)
BY DEF CatchesUp, Complete

----------------------------------------------------------------------------
(* The steps.                                                              *)

\* Users that are known stay known.
LEMMA FullGrows ==
  ASSUME KnownInv, NEW d \in Devices, events[d] \in Seq(Event)
  PROVE  /\ Full(users[d]) => Full(view[d])
         /\ events[d] # <<>> /\ Head(events[d]).kind = "users" /\ Full(users[d]) =>
              Full(Head(events[d]).docs)
<1>1. \A x : Full(x) <=> Known(x) = Users
  BY DEF Full, Known
<1>2. \A x : Known(x) \subseteq Users
  BY DEF Known
<1>3. Grows(Known(users[d]), events[d], Known(view[d]))
  BY DEF KnownInv
<1>4. Known(users[d]) \subseteq Known(view[d])
  BY <1>3 DEF Grows
<1>5. events[d] # <<>> /\ Head(events[d]).kind = "users" =>
        Known(users[d]) \subseteq Known(Head(events[d]).docs)
  BY <1>3, GrowsOn
<1> QED BY <1>1, <1>2, <1>4, <1>5

\* Every step of a giver's only phone keeps it.
LEMMA ToldStep ==
  ASSUME TypeInv, KnownInv, ScreenInv, UnmentionedInv, ToldInv,
         NEW d \in Devices, OnlyPhone(d), Step(d)
  PROVE  /\ Modest(view'[d], Owner[d])
         /\ Tells(events'[d], users'[d], Owner[d])
         /\ (session'[d] # Nil /\ session'[d].pairings # <<>>) \/ pairUp'[d] # {} => Full(users'[d])
<1> DEFINE m == Owner[d]
           Told == /\ Modest(view'[d], m)
                   /\ Tells(events'[d], users'[d], m)
                   /\ (session'[d] # Nil /\ session'[d].pairings # <<>>) \/ pairUp'[d] # {} =>
                        Full(users'[d])
<1>t. /\ events \in [Devices -> Seq(Event)] /\ view \in [Devices -> [Users -> MaybeDoc]]
      /\ users \in [Devices -> [Users -> MaybeDoc]] /\ session \in [Devices -> Session \cup {Nil}]
      /\ pairUp \in [Devices -> SUBSET Row]
  BY DEF TypeInv, TypeOK
<1>m. m \in Users /\ ~IsFreshman(d)
  BY PhonesAssumption DEF OnlyPhone
<1>v. view[d] \in [Users -> MaybeDoc] /\ events[d] \in Seq(Event)
  BY <1>t
<1>i. /\ Modest(view[d], m) /\ Tells(events[d], users[d], m)
      /\ (session[d] # Nil /\ session[d].pairings # <<>>) \/ pairUp[d] # {} => Full(users[d])
  BY DEF ToldInv, Paired
<1>u. ~Full(view[d]) => Unmentioned(m)
  BY DEF UnmentionedInv
<1>k. /\ Full(users[d]) => Full(view[d])
      /\ events[d] # <<>> /\ Head(events[d]).kind = "users" /\ Full(users[d]) =>
           Full(Head(events[d]).docs)
  BY <1>v, FullGrows
<1>c. running[d] /\ Full(view[d]) => Complete(events[d], users[d])
  <2>1. running[d] => CatchesUp(events[d], users[d], view[d], m)
    BY DEF ScreenInv
  <2> QED BY <2>1, CompleteView
<1>n. Tells(<<>>, NoDocs, m)
  <2>1. Modest(NoDocs, m)
    BY DEF Modest, NoDocs
  <2> QED BY <2>1 DEF Tells
<1>e. ASSUME NEW x \in [Users -> MaybeDoc]
      PROVE  /\ UsersEvent(x) \in Event /\ UsersEvent(x).kind = "users" /\ UsersEvent(x).docs = x
             /\ UsersEvent(x).kind # "session"
  BY DEF UsersEvent, Event
<1>s. ASSUME NEW doc \in Doc
      PROVE  /\ SessionEvent(m, doc) \in Event /\ SessionEvent(m, doc).kind = "session"
             /\ SessionEvent(m, doc).docs[m] = doc /\ SessionEvent(m, doc).kind # "users"
  BY <1>m DEF SessionEvent, Event, NoDocs, MaybeDoc
<1> HIDE DEF m
\* A snapshot of a modest view, behind the others.
<1>a. ASSUME NEW es \in Seq(Event), NEW listed, Tells(es, listed, m),
             NEW x \in [Users -> MaybeDoc], Modest(x, m)
      PROVE  /\ Tells(Append(es, UsersEvent(x)), listed, m)
             /\ Complete(es, listed) => Complete(Append(es, UsersEvent(x)), listed)
             /\ Append(es, UsersEvent(x)) \in Seq(Event)
  <2>1. Append(es, UsersEvent(x)) \in Seq(Event)
    BY <1>a, <1>e, AppendProperties
  <2> DEFINE e == UsersEvent(x)
  <2>2. e \in Event /\ e.kind = "users" /\ e.docs = x /\ e.kind # "session"
    BY <1>a, <1>e
  <2> HIDE DEF e
  <2>3. Tells(Append(es, e), listed, m) /\ (Complete(es, listed) => Complete(Append(es, e), listed))
    BY <1>a, <2>2, TellsAppended
  <2> QED BY <2>1, <2>3 DEF e
\* The fetched document, behind the others.
<1>b. ASSUME NEW es \in Seq(Event), NEW listed, Tells(es, listed, m), NEW doc \in Doc,
             doc.pairings = <<>> \/ Complete(es, listed)
      PROVE  /\ Tells(Append(es, SessionEvent(m, doc)), listed, m)
             /\ Append(es, SessionEvent(m, doc)) \in Seq(Event)
  <2>1. Append(es, SessionEvent(m, doc)) \in Seq(Event)
    BY <1>b, <1>s, AppendProperties
  <2> DEFINE e == SessionEvent(m, doc)
  <2>2. e \in Event /\ e.kind = "session" /\ e.docs[m] = doc /\ e.kind # "users"
    BY <1>b, <1>s
  <2> HIDE DEF e
  <2>3. Tells(Append(es, e), listed, m)
    BY <1>b, <2>2, TellsAppended
  <2> QED BY <2>1, <2>3 DEF e
\* The main queue is not concerned.
<1>w. ASSUME Modest(view'[d], m), Tells(events'[d], users[d], m), UNCHANGED <<users, session, pairUp>>
      PROVE  Told
  BY <1>i, <1>w
<1>1. ASSUME Launch(d) PROVE Told
  <2> DEFINE es == FirstSnapshot(d)
  <2>1. events' = [events EXCEPT ![d] = es] /\ UNCHANGED <<view, users, session, pairUp>>
    BY <1>1 DEF Launch, disk, screen
  <2>2. users[d] = NoDocs
    BY <1>1 DEF Launch, ScreenInv
  <2>3. Tells(es, users[d], m)
    <3>1. CASE es = <<>>
      BY <1>n, <2>2, <3>1
    <3>2. CASE es = <<UsersEvent(view[d])>>
      <4>1. es = Append(<<>>, UsersEvent(view[d])) /\ <<>> \in Seq(Event)
        BY <3>2
      <4> HIDE DEF es
      <4> QED BY <1>a, <1>i, <1>n, <1>v, <2>2, <4>1
    <3> QED BY <3>1, <3>2 DEF FirstSnapshot
  <2> HIDE DEF es
  <2>4. events'[d] = es /\ view'[d] = view[d]
    BY <1>t, <2>1
  <2> QED BY <1>i, <1>w, <2>1, <2>3, <2>4
<1>2. ASSUME Die(d) PROVE Told
  <2>1. /\ view'[d] = view[d] /\ events'[d] = <<>> /\ users'[d] = NoDocs /\ session'[d] = Nil
        /\ pairUp'[d] = {}
    BY <1>2, <1>t DEF Die, disk
  <2> QED BY <1>i, <1>n, <2>1
<1>3. ASSUME Persist(d) PROVE Told
  <2> DEFINE w == Head(calls[d])
             newView == Apply(w, view[d])
             es == EventsAfter(d, newView)
  <2>1. /\ calls[d] # <<>> /\ w \in Write
        /\ view' = [view EXCEPT ![d] = newView] /\ events' = [events EXCEPT ![d] = es]
        /\ UNCHANGED <<users, session, pairUp>>
    BY <1>3, HeadTailProperties DEF Persist, TypeInv, TypeOK, screen
  <2>2. newView \in [Users -> MaybeDoc] /\ Known(newView) = Known(view[d])
    BY <1>v, <2>1, ApplyType, WritesKeepDocuments
  <2>3. Modest(newView, m)
    <3>1. CASE Full(view[d])
      BY <2>2, <3>1 DEF Modest, Full, Known
    <3>2. CASE ~Full(view[d])
      <4>1. Unmentioned(m)
        BY <1>u, <3>2
      <4>2. calls[d] \in Seq(SilentWrite(m)) /\ view[d] \in Silent(m)
        BY <4>1 DEF Unmentioned, Carried
      <4>3. w \in SilentWrite(m)
        BY <2>1, <4>2, HeadTailProperties
      <4>4. newView \in Silent(m)
        BY <4>2, <4>3, SilentKept
      <4> HIDE DEF newView
      <4>5. ASSUME NEW u \in Users, newView[u] # Nil PROVE u = m /\ Blank(newView[u])
        <5>1. view[d][u] # Nil
          BY <2>2, <4>5 DEF Known
        <5>2. u = m
          BY <1>i, <3>2, <5>1 DEF Modest
        <5> QED BY <4>4, <4>5, <5>2 DEF Silent
      <4> QED BY <4>5 DEF Modest
    <3> QED BY <3>1, <3>2
  <2> HIDE DEF newView, w
  <2>4. Tells(es, users[d], m)
    BY <1>a, <1>i, <1>v, <2>2, <2>3 DEF EventsAfter
  <2> HIDE DEF es
  <2>5. view'[d] = newView /\ events'[d] = es
    BY <1>t, <2>1
  <2> QED BY <1>w, <2>1, <2>3, <2>4, <2>5
<1>4. ASSUME Commit(d) \/ CommitUnheard(d) \/ Reconnect(d) PROVE Told
  <2>1. UNCHANGED <<view, events, users, session, pairUp>>
    BY <1>4 DEF Commit, CommitUnheard, Reconnect, disk, memory, screen
  <2> QED BY <1>i, <1>w, <2>1
<1>5. ASSUME Watch(d) PROVE Told
  <2> DEFINE newView == Overlay(queue[d], docs)
  <2>1. newView \in [Users -> Doc]
    BY OverlayType DEF TypeInv, TypeOK
  <2>2. /\ view' = [view EXCEPT ![d] = newView]
        /\ events' = [events EXCEPT ![d] = Append(events[d], UsersEvent(newView))]
        /\ UNCHANGED <<users, session, pairUp>>
    BY <1>5 DEF Watch, screen
  <2> HIDE DEF newView
  <2>3. newView \in [Users -> MaybeDoc] /\ Modest(newView, m)
    BY <2>1, NilIsNoDocument DEF MaybeDoc, Modest, Full
  <2>4. Tells(Append(events[d], UsersEvent(newView)), users[d], m)
    BY <1>a, <1>i, <1>v, <2>3
  <2>5. view'[d] = newView /\ events'[d] = Append(events[d], UsersEvent(newView))
    BY <1>t, <2>2
  <2> QED BY <1>w, <2>2, <2>3, <2>4, <2>5
<1>6. ASSUME FetchDocument(d) PROVE Told
  <2> DEFINE served == Overlay(queue[d], docs)
             doc == OwnDocument(d)
             newView == [view[d] EXCEPT ![m] = doc]
             snapshots == IF newView = view[d] THEN <<>> ELSE <<UsersEvent(newView)>>
             loaded == SessionEvent(m, doc)
  <2>1. served \in [Users -> Doc] /\ doc = served[m]
    BY OverlayType DEF TypeInv, TypeOK, OwnDocument, m
  <2>2. /\ running[d]
        /\ view' = [view EXCEPT ![d] = newView]
        /\ \/ events' = [events EXCEPT ![d] = (events[d] \o snapshots) \o <<loaded>>]
           \/ events' = [events EXCEPT ![d] = (events[d] \o <<loaded>>) \o snapshots]
        /\ UNCHANGED <<users, session, pairUp>>
    BY <1>6 DEF FetchDocument, screen, m
  <2>3. ~Full(view[d]) => Blank(doc)
    <3> SUFFICES ASSUME ~Full(view[d]) PROVE Blank(doc)
      OBVIOUS
    <3>1. Unmentioned(m)
      BY <1>u
    <3>2. queue[d] \in Seq(SilentWrite(m)) /\ docs \in Silent(m)
      BY <3>1 DEF Unmentioned, Carried
    <3>3. served \in Silent(m)
      BY <3>2, SilentKept
    <3> HIDE DEF served, doc
    <3>4. served[m] # Nil
      BY <1>m, <2>1, NilIsNoDocument
    <3> QED BY <1>m, <2>1, <3>3, <3>4 DEF Silent
  <2> HIDE DEF served
  <2>4. doc \in Doc /\ doc # Nil
    BY <1>m, <2>1, NilIsNoDocument
  <2> HIDE DEF doc
  <2>5. newView \in [Users -> MaybeDoc] /\ Modest(newView, m)
    <3>1. newView \in [Users -> MaybeDoc]
      BY <1>v, <2>4 DEF MaybeDoc
    <3>2. \A u \in Users : newView[u] = IF u = m THEN doc ELSE view[d][u]
      BY <1>v
    <3> HIDE DEF newView
    <3>3. CASE Full(view[d])
      BY <2>4, <3>1, <3>2, <3>3 DEF Modest, Full
    <3>4. CASE ~Full(view[d])
      BY <1>i, <2>3, <3>1, <3>2, <3>4 DEF Modest
    <3> QED BY <3>1, <3>3, <3>4
  <2>6. doc.pairings = <<>> \/ Complete(events[d], users[d])
    BY <1>c, <2>2, <2>3 DEF Blank
  <2> HIDE DEF newView
  <2>7. loaded \in Event
    BY <1>s, <2>4
  <2>8. \A es \in Seq(Event) : es \o <<loaded>> = Append(es, loaded)
    BY <2>7, AppendProperties
  <2>9. ASSUME NEW es \in Seq(Event), Tells(es, users[d], m)
        PROVE  /\ es \o snapshots \in Seq(Event) /\ Tells(es \o snapshots, users[d], m)
               /\ Complete(es, users[d]) => Complete(es \o snapshots, users[d])
    <3>1. CASE snapshots = <<>>
      <4>1. es \o snapshots = es
        BY <3>1
      <4> QED BY <2>9, <4>1
    <3>2. CASE snapshots = <<UsersEvent(newView)>>
      <4>1. es \o snapshots = Append(es, UsersEvent(newView))
        BY <1>e, <2>5, <3>2, AppendProperties
      <4> QED BY <1>a, <2>5, <2>9, <4>1
    <3> QED BY <3>1, <3>2
  <2> HIDE DEF snapshots
  <2>10. Tells((events[d] \o snapshots) \o <<loaded>>, users[d], m)
    <3> DEFINE es == events[d] \o snapshots
    <3>1. es \in Seq(Event) /\ Tells(es, users[d], m) /\ (doc.pairings = <<>> \/ Complete(es, users[d]))
      BY <1>i, <1>v, <2>6, <2>9
    <3> HIDE DEF es
    <3>2. Tells(Append(es, loaded), users[d], m)
      BY <1>b, <2>4, <3>1
    <3> QED BY <2>8, <3>1, <3>2 DEF es
  <2>11. Tells((events[d] \o <<loaded>>) \o snapshots, users[d], m)
    <3> DEFINE es == Append(events[d], loaded)
    <3>1. es \in Seq(Event) /\ Tells(es, users[d], m)
      BY <1>b, <1>i, <1>v, <2>4, <2>6
    <3> HIDE DEF es
    <3>2. Tells(es \o snapshots, users[d], m)
      BY <2>9, <3>1
    <3> QED BY <1>v, <2>8, <3>2 DEF es
  <2> HIDE DEF loaded
  <2>12. view'[d] = newView /\ Tells(events'[d], users[d], m)
    BY <1>t, <2>2, <2>10, <2>11
  <2> QED BY <1>w, <2>2, <2>5, <2>12
<1>7. ASSUME FetchOffline(d) PROVE Told
  <2>1. /\ running[d] /\ UNCHANGED <<view, users, session, pairUp>>
        /\ events' = [events EXCEPT ![d] = IF view[d][m] = Nil THEN events[d]
                                           ELSE Append(events[d], SessionEvent(m, view[d][m]))]
    BY <1>7 DEF FetchOffline, disk, screen, m
  <2>2. CASE view[d][m] = Nil
    <3>1. events'[d] = events[d]
      BY <1>t, <2>1, <2>2
    <3> QED BY <1>i, <1>w, <2>1, <3>1
  <2>3. CASE view[d][m] # Nil
    <3> DEFINE doc == view[d][m]
    <3>1. doc \in Doc
      BY <1>m, <1>v, <2>3 DEF MaybeDoc
    <3>2. doc.pairings = <<>> \/ Complete(events[d], users[d])
      BY <1>c, <1>i, <1>m, <2>1, <2>3 DEF Modest, Blank
    <3>3. events'[d] = Append(events[d], SessionEvent(m, doc))
      BY <1>t, <2>1, <2>3
    <3> HIDE DEF doc
    <3>4. Tells(events'[d], users[d], m)
      BY <1>b, <1>i, <1>v, <3>1, <3>2, <3>3
    <3> QED BY <1>i, <1>w, <2>1, <3>4
  <2> QED BY <2>2, <2>3
<1>8. ASSUME DeliverUsers(d) PROVE Told
  <2> DEFINE e == Head(events[d])
  <2>1. /\ events[d] # <<>> /\ e.kind = "users"
        /\ events' = [events EXCEPT ![d] = Tail(events[d])] /\ users' = [users EXCEPT ![d] = e.docs]
        /\ session' = [session EXCEPT ![d] = Refreshed(d, e.docs)] /\ view' = view
        /\ (pairUp' = pairUp \/ pairUp' = [pairUp EXCEPT ![d] = {}])
    BY <1>8 DEF DeliverUsers, disk, screen
  <2>2. /\ Tells(Tail(events[d]), e.docs, m) /\ Modest(e.docs, m)
        /\ Full(users[d]) => Full(e.docs)
    <3>1. (IF e.kind = "users" THEN e.docs ELSE users[d]) = e.docs
      BY <2>1
    <3>2. /\ Tells(Tail(events[d]), IF e.kind = "users" THEN e.docs ELSE users[d], m)
          /\ Modest(e.docs, m)
      BY <1>i, <1>k, <1>v, <2>1, TellsServed
    <3> QED BY <1>k, <2>1, <3>1, <3>2
  <2> HIDE DEF e
  <2>3. /\ events'[d] = Tail(events[d]) /\ users'[d] = e.docs /\ view'[d] = view[d]
        /\ session'[d] = Refreshed(d, e.docs)
        /\ pairUp'[d] # {} => pairUp[d] # {}
    BY <1>t, <2>1
  <2>4. session'[d] # Nil /\ session'[d].pairings # <<>> => Full(e.docs)
    <3>1. CASE session[d] = Nil \/ e.docs[m] = Nil
      <4>1. session'[d] = session[d]
        BY <2>3, <3>1 DEF Refreshed, m
      <4> QED BY <1>i, <2>2, <4>1
    <3>2. CASE session[d] # Nil /\ e.docs[m] # Nil
      <4>1. session'[d].pairings = e.docs[m].pairings
        BY <2>3, <3>2 DEF Refreshed, SessionOf, m
      <4> QED BY <1>m, <2>2, <3>2, <4>1 DEF Modest, Blank
    <3> QED BY <3>1, <3>2
  <2> QED BY <1>i, <2>2, <2>3, <2>4
<1>9. ASSUME DeliverSession(d) PROVE Told
  <2> DEFINE e == Head(events[d])
  <2>1. /\ events[d] # <<>> /\ e.kind = "session"
        /\ events' = [events EXCEPT ![d] = Tail(events[d])]
        /\ session' = [session EXCEPT ![d] = SessionOf(e.docs[m])] /\ UNCHANGED <<view, users, pairUp>>
    BY <1>9 DEF DeliverSession, disk, screen, m
  <2>2. /\ Tells(Tail(events[d]), users[d], m)
        /\ e.docs[m].pairings # <<>> => Full(users[d])
    <3>1. (IF e.kind = "users" THEN e.docs ELSE users[d]) = users[d]
      BY <2>1
    <3>2. /\ Tells(Tail(events[d]), IF e.kind = "users" THEN e.docs ELSE users[d], m)
          /\ e.docs[m].pairings # <<>> => Full(users[d])
      BY <1>i, <1>k, <1>v, <2>1, TellsServed
    <3> QED BY <3>1, <3>2
  <2> HIDE DEF e
  <2>3. /\ events'[d] = Tail(events[d]) /\ users'[d] = users[d] /\ view'[d] = view[d]
        /\ session'[d] = SessionOf(e.docs[m]) /\ pairUp'[d] = pairUp[d]
    BY <1>t, <2>1
  <2>4. session'[d].pairings = e.docs[m].pairings
    BY <2>3 DEF SessionOf
  <2> QED BY <1>i, <2>2, <2>3, <2>4
\* A tap sees the users, and what it edits follows from what was there.
<1>p. ASSUME UNCHANGED <<view, events, users>>,
             session'[d] # Nil /\ session'[d].pairings # <<>> => Full(users[d]),
             pairUp'[d] # {} => Full(users[d])
      PROVE  Told
  BY <1>i, <1>p
<1>10. ASSUME (\E hall \in Halls : MakeRequest(d, hall)) \/ CancelRequest(d) PROVE Told
  BY <1>10, <1>m DEF MakeRequest, CancelRequest, OnFreshmanView
<1>11. ASSUME NEW uid \in Users, OpenPairUp(d, uid) PROVE Told
  <2>1. /\ UNCHANGED <<view, events, users, session>>
        /\ users[d][uid] # Nil /\ users[d][uid].currentlyRequesting
    BY <1>11 DEF OpenPairUp, disk
  <2>2. Full(users[d])
    BY <1>i, <2>1 DEF Tells, Modest, Blank
  <2> QED BY <1>p, <2>1, <2>2
<1>12. ASSUME Pair(d) PROVE Told
  <2>1. pairUp[d] # {} /\ UNCHANGED <<view, events, users>>
    BY <1>12 DEF Pair, disk
  <2> QED BY <1>i, <1>p, <2>1
<1>13. ASSUME ShowPairing(d) \/ GoBack(d) PROVE Told
  <2>1. /\ UNCHANGED <<view, events, users, session>>
        /\ (pairUp' = pairUp \/ pairUp' = [pairUp EXCEPT ![d] = {}])
    BY <1>13 DEF ShowPairing, GoBack, disk
  <2>2. pairUp'[d] # {} => pairUp[d] # {}
    BY <1>t, <2>1
  <2> QED BY <1>i, <1>p, <2>1, <2>2
<1>14. ASSUME Cancel(d) PROVE Told
  <2>1. /\ session[d] # Nil /\ session[d].pairings # <<>>
        /\ UNCHANGED <<view, events, users, pairUp>>
    BY <1>14 DEF Cancel, Paired, disk
  <2> QED BY <1>i, <1>p, <2>1
<1>15. Told
  BY <1>1, <1>2, <1>3, <1>4, <1>5, <1>6, <1>7, <1>8, <1>9, <1>10, <1>11, <1>12, <1>13, <1>14
     DEF Step, Tap, Fetch, Deliver
<1> QED BY <1>15 DEF m

\* Views change by the worker alone.
LEMMA ViewSteps ==
  ASSUME [Next]_vars, ~\E d \in Devices : Persist(d) \/ Watch(d) \/ FetchDocument(d)
  PROVE  UNCHANGED view
<1>1. ASSUME NEW d \in Devices, Commit(d) \/ CommitUnheard(d) PROVE UNCHANGED view
  BY <1>1 DEF Commit, CommitUnheard, disk
<1> QED BY <1>1, QuietSteps

\* A view loses no document.
LEMMA ViewsGrow ==
  ASSUME TypeInv, [Next]_vars, NEW p \in Devices
  PROVE  Known(view[p]) \subseteq Known(view'[p])
<1>t. view \in [Devices -> [Users -> MaybeDoc]] /\ view[p] \in [Users -> MaybeDoc]
  BY DEF TypeInv, TypeOK
<1>1. ASSUME NEW d \in Devices, Persist(d) PROVE Known(view[p]) \subseteq Known(view'[p])
  <2>1. Head(calls[d]) \in Write
    BY <1>1, HeadTailProperties DEF Persist, TypeInv, TypeOK
  <2>2. Known(Apply(Head(calls[d]), view[d])) = Known(view[d])
    BY <1>t, <2>1, WritesKeepDocuments
  <2>3. view' = [view EXCEPT ![d] = Apply(Head(calls[d]), view[d])]
    BY <1>1 DEF Persist
  <2> QED BY <1>t, <2>2, <2>3
<1>2. ASSUME NEW d \in Devices, Watch(d) PROVE Known(view[p]) \subseteq Known(view'[p])
  <2> DEFINE newView == Overlay(queue[d], docs)
  <2>1. Known(newView) = Users
    BY OverlayType, WritesKeepDocuments DEF TypeInv, TypeOK
  <2>2. view' = [view EXCEPT ![d] = newView]
    BY <1>2 DEF Watch
  <2> HIDE DEF newView
  <2>3. view'[p] = view[p] \/ view'[p] = newView
    BY <1>t, <2>2
  <2>4. Known(view[p]) \subseteq Users
    BY DEF Known
  <2> QED BY <2>1, <2>3, <2>4
<1>3. ASSUME NEW d \in Devices, FetchDocument(d) PROVE Known(view[p]) \subseteq Known(view'[p])
  <2> DEFINE doc == OwnDocument(d)
             newView == [view[d] EXCEPT ![Owner[d]] = doc]
  <2>1. doc \in Doc
    <3>1. Overlay(queue[d], docs) \in [Users -> Doc]
      BY OverlayType DEF TypeInv, TypeOK
    <3> QED BY <3>1, PhonesAssumption DEF OwnDocument
  <2>2. view' = [view EXCEPT ![d] = newView]
    BY <1>3 DEF FetchDocument
  <2> HIDE DEF doc
  <2>3. \A u \in Users : view[d][u] # Nil => newView[u] # Nil
    BY <1>t, <2>1, NilIsNoDocument
  <2> HIDE DEF newView
  <2>4. view'[p] = view[p] \/ (p = d /\ view'[p] = newView)
    BY <1>t, <2>2
  <2> QED BY <2>3, <2>4 DEF Known
<1>4. CASE UNCHANGED view
  BY <1>4
<1> QED BY <1>1, <1>2, <1>3, <1>4, ViewSteps

\* What was there once stays: a view that is complete remains so.
LEMMA NextUnmentionedInv ==
  TypeInv /\ KnownInv /\ UnmentionedInv /\ ToldInv /\ [Next]_vars => UnmentionedInv'
<1> SUFFICES ASSUME TypeInv, KnownInv, UnmentionedInv, ToldInv, [Next]_vars,
                    NEW p \in Devices, OnlyPhone(p), ~Full(view'[p])
             PROVE  Unmentioned(Owner[p])'
  BY DEF UnmentionedInv, OnlyPhone, IsFreshman, Full
<1>1. ~Full(view[p])
  <2>1. Known(view[p]) \subseteq Known(view'[p])
    BY ViewsGrow
  <2> QED BY <2>1 DEF Full, Known
<1>2. Unmentioned(Owner[p])
  BY <1>1 DEF UnmentionedInv
<1>3. pairUp[p] = {}
  <2>1. events[p] \in Seq(Event)
    BY DEF TypeInv, TypeOK
  <2> QED BY <1>1, <2>1, FullGrows DEF ToldInv
<1> QED BY <1>2, <1>3, NextUnmentioned

\* And what one phone does leaves the others as they are.
LEMMA NextTold ==
  TypeInv /\ KnownInv /\ ScreenInv /\ UnmentionedInv /\ ToldInv /\ [Next]_vars => ToldInv'
<1> SUFFICES ASSUME TypeInv, KnownInv, ScreenInv, UnmentionedInv, ToldInv, [Next]_vars,
                    NEW p \in Devices, OnlyPhone(p)
             PROVE  /\ Modest(view'[p], Owner[p])
                    /\ Tells(events'[p], users'[p], Owner[p])
                    /\ (session'[p] # Nil /\ session'[p].pairings # <<>>) \/ pairUp'[p] # {} =>
                         Full(users'[p])
  BY DEF ToldInv, OnlyPhone, IsFreshman, Full, Modest, Tells, Blank, Paired
<1>1. CASE Step(p)
  BY <1>1, ToldStep
<1>2. ASSUME /\ view'[p] = view[p] /\ events'[p] = events[p] /\ users'[p] = users[p]
             /\ session'[p] = session[p] /\ pairUp'[p] = pairUp[p]
      PROVE  /\ Modest(view'[p], Owner[p])
             /\ Tells(events'[p], users'[p], Owner[p])
             /\ (session'[p] # Nil /\ session'[p].pairings # <<>>) \/ pairUp'[p] # {} =>
                  Full(users'[p])
  BY <1>2 DEF ToldInv, Paired
<1>3. ASSUME NEW d \in Devices \ {p}, Step(d)
      PROVE  /\ view'[p] = view[p] /\ events'[p] = events[p] /\ users'[p] = users[p]
             /\ session'[p] = session[p] /\ pairUp'[p] = pairUp[p]
  BY <1>3, OthersUntouched
<1>4. CASE UNCHANGED vars
  BY <1>2, <1>4 DEF vars, disk, memory, screen
<1>5. Next => \E d \in Devices : Step(d)
  BY DEF Next, Step
<1> QED BY <1>1, <1>2, <1>3, <1>4, <1>5

\* SignUp creates a document without a pairing and without a request.
LEMMA NewDocument ==
  NewDoc \in Doc /\ NewDoc # Nil /\ NewDoc.pairings = <<>> /\ ~NewDoc.currentlyRequesting
<1>1. NewDoc \in Doc
  BY DEF NewDoc, Doc
<1>2. NewDoc # Nil
  BY <1>1, NilIsNoDocument
<1> QED BY <1>1, <1>2 DEF NewDoc

\* The partner that RequestList forces is among the users on a giver's only phone, for any
\* number of phones, restarts, lost connections and orders of the callbacks.
THEOREM PartnersAreKnown == Spec => []PartnerIsKnown
<1>1. Init => UnmentionedInv
  <2> SUFFICES ASSUME Init, NEW p \in Devices, OnlyPhone(p), ~Full(view[p])
               PROVE  Unmentioned(Owner[p])
    BY DEF UnmentionedInv
  <2>1. PICK m : m = Owner[p]
    OBVIOUS
  <2>2. NewDoc \in Doc /\ NewDoc # Nil /\ NewDoc.pairings = <<>> /\ ~NewDoc.currentlyRequesting
    BY NewDocument
  <2>3. docs = [u \in Users |-> NewDoc]
    BY DEF Init
  <2>4. docs \in Silent(m)
    BY <2>2, <2>3 DEF Silent, MaybeDoc, Blank, ToSet
  <2>5. NoDocs \in Silent(m)
    BY SilentClosed DEF Closed
  <2>6. p \notin Started
    BY <2>2, <2>3 DEF Init, Full
  <2>7. ASSUME NEW d \in Devices
        PROVE  /\ queue[d] = <<>> /\ calls[d] = <<>> /\ events[d] = <<>> /\ pairUp[d] = {}
               /\ view[d] \in Silent(m) /\ users[d] = view[d]
               /\ session[d] # Nil => session[d].pairings = <<>>
    BY <2>2, <2>4, <2>5 DEF Init, SessionOf
  <2>8. ASSUME NEW d \in Devices PROVE <<>> \in SilentPairings(m, d)
    BY DEF SilentPairings, ToSet
  <2>9. /\ <<>> \in Seq(SilentWrite(m))
        /\ <<>> \in Seq(Bringing(Silent(m)))
    BY EmptySeq
  <2>10. Unmentioned(m)
    BY <2>4, <2>7, <2>8, <2>9 DEF Unmentioned, Carried
  <2> QED BY <2>1, <2>10
<1>2. Init => ToldInv
  <2> SUFFICES ASSUME Init, NEW p \in Devices
               PROVE  /\ Modest(view[p], Owner[p])
                      /\ Tells(events[p], users[p], Owner[p])
                      /\ Paired(p) \/ pairUp[p] # {} => Full(users[p])
    BY DEF ToldInv
  <2>1. NewDoc # Nil /\ NewDoc.pairings = <<>>
    BY NewDocument
  <2>2. /\ events[p] = <<>> /\ pairUp[p] = {} /\ users[p] = view[p]
        /\ view[p] = IF p \in Started THEN [u \in Users |-> NewDoc] ELSE NoDocs
        /\ session[p] = IF p \in Started THEN SessionOf(NewDoc) ELSE Nil
    BY DEF Init
  <2>3. ~Paired(p)
    BY <2>1, <2>2 DEF Paired, SessionOf
  <2>4. Modest(view[p], Owner[p])
    BY <2>1, <2>2 DEF Modest, Full, NoDocs
  <2> QED BY <2>2, <2>3, <2>4 DEF Tells
<1>3. TypeInv /\ ToldInv => PartnerIsKnown
  <2> SUFFICES ASSUME TypeInv, ToldInv, NEW d \in Devices, OnlyPhone(d), Paired(d)
               PROVE  PartnerFound(d)
    BY DEF PartnerIsKnown, OnlyPhone
  <2>1. Full(users[d])
    BY DEF ToldInv
  <2>2. session[d].pairings \in Seq(Users) /\ session[d].pairings # <<>>
    BY DEF TypeInv, TypeOK, Paired, Session
  <2>3. Head(session[d].pairings) \in Users
    BY <2>2, HeadTailProperties
  <2> QED BY <2>1, <2>3 DEF PartnerFound, Full
<1> QED BY <1>1, <1>2, <1>3, NextUnmentionedInv, NextTold, KnownInvariance, ScreenInvariance,
           TypeInvariance, PTL DEF Spec

=============================================================================
