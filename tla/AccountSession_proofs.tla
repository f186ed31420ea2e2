------------------------- MODULE AccountSession_proofs -------------------------
(***************************************************************************)
(* Safety of AccountSession for any set of accounts and any bounds: types, *)
(* the user of AppDelegate and of a sign-up (AddressInv), profiles and the *)
(* documents of sessions (ProfileStep, DocumentInv), and the users that    *)
(* the parties have been told of (UsersInv).                               *)
(***************************************************************************)
EXTENDS AccountSession, FiniteSetTheorems, SequenceTheorems, TLAPS

----------------------------------------------------------------------------
(* Types.                                                                  *)

\* Short tuples are sequences.
LEMMA ShortTuples ==
  ASSUME NEW S, NEW a \in S, NEW b \in S
  PROVE  <<>> \in Seq(S) /\ <<a>> \in Seq(S) /\ <<a, b>> \in Seq(S)
OBVIOUS

\* The calls of getDocument for the listeners that are called.
LEMMA GetsType ==
  ASSUME current \in MaybeAccount, NEW called, IsFiniteSet(called)
  PROVE  /\ Gets(called) \in Seq(Item)
         /\ \A i \in DOMAIN Gets(called) : Gets(called)[i].kind = "get"
<1> DEFINE n == Cardinality(called)
           item == [kind |-> "get", uid |-> current]
<1>1. n \in Nat
  BY FS_CardinalityType
<1>2. CASE current = Nil
  BY <1>2 DEF Gets
<1>3. CASE current # Nil
  <2>1. item \in Item /\ item.kind = "get"
    BY <1>3 DEF MaybeAccount, Item
  <2>2. Gets(called) = [i \in 1..n |-> item]
    BY <1>3 DEF Gets
  <2> HIDE DEF n, item
  <2>3. [i \in 1..n |-> item] \in [1..n -> Item]
    BY <2>1
  <2>4. [i \in 1..n |-> item] \in Seq(Item)
    BY <1>1, <2>3, SeqDef
  <2> QED BY <2>1, <2>2, <2>4
<1> QED BY <1>2, <1>3

\* The sets of listeners that one callback or a notification calls are finite.
LEMMA ListenersGet ==
  ASSUME TypeOK, NEW l
  PROVE  LET one == Gets({k \in {l} : Called(k)})
             all == Gets({k \in DOMAIN listeners : Called(k)})
         IN  /\ one \in Seq(Item) /\ \A i \in DOMAIN one : one[i].kind = "get"
             /\ all \in Seq(Item) /\ \A i \in DOMAIN all : all[i].kind = "get"
<1>1. IsFiniteSet({k \in {l} : Called(k)})
  <2>1. IsFiniteSet({l})
    BY FS_Singleton
  <2> QED BY <2>1, FS_Subset
<1>2. IsFiniteSet({k \in DOMAIN listeners : Called(k)})
  <2>1. DOMAIN listeners = 1..Len(listeners) /\ Len(listeners) \in Nat
    BY LenProperties DEF TypeOK
  <2>2. IsFiniteSet(DOMAIN listeners)
    BY <2>1, FS_Interval
  <2> QED BY <2>2, FS_Subset
<1>3. current \in MaybeAccount
  BY DEF TypeOK
<1> QED BY <1>1, <1>2, <1>3, GetsType

\* The callbacks that Auth and listen() raise.
LEMMA CallbacksType ==
  /\ \A u \in MaybeAccount : [kind |-> "changed", uid |-> u] \in Callback
  /\ [kind |-> "signedUp"] \in Callback
  /\ \A u \in Accounts : [kind |-> "document", uid |-> u] \in Callback
  /\ \A l \in 1..MaxListeners : [kind |-> "first", listener |-> l] \in Callback
BY DEF Callback

\* A notification is appended to the callbacks.
LEMMA PostedType ==
  ASSUME NEW callbacks \in Seq(Callback), NEW u \in MaybeAccount
  PROVE  Posted(callbacks, u) \in Seq(Callback)
BY CallbacksType, AppendProperties DEF Posted

\* listen() adds a listener and a callback.
LEMMA ListenType ==
  ASSUME NEW others \in Seq(MaybeAccount \cup {Never}), NEW callbacks \in Seq(Callback),
         Listen(others, callbacks)
  PROVE  main' \in Seq(Callback) /\ listeners' \in Seq(MaybeAccount \cup {Never})
<1>1. Len(others) \in Nat /\ Len(others) < MaxListeners
  BY LenProperties DEF Listen
<1>2. Len(others) + 1 \in 1..MaxListeners
  BY <1>1, BoundsAssumption
<1>3. [kind |-> "first", listener |-> Len(others) + 1] \in Callback
  BY <1>2, CallbacksType
<1> QED BY <1>3, AppendProperties DEF Listen

\* The screen that appears may call listen().
LEMMA AppearsType ==
  ASSUME TypeOK, NEW callbacks \in Seq(Callback), ScreenAppears(callbacks)
  PROVE  main' \in Seq(Callback) /\ listeners' \in Seq(MaybeAccount \cup {Never})
BY ListenType DEF ScreenAppears, TypeOK

\* The callback that is served, and those behind it.
LEMMA HeadOfMain ==
  ASSUME TypeOK, main # <<>>
  PROVE  Head(main) \in Callback /\ Tail(main) \in Seq(Callback)
BY HeadTailProperties DEF TypeOK

\* The initial state has the types.
LEMMA InitType == Init => TypeOK
<1> SUFFICES ASSUME Init PROVE TypeOK
  OBVIOUS
<1>1. registered \subseteq Accounts /\ keychain \in MaybeAccount
  BY AccountsAssumption DEF Init, MaybeAccount
<1>2. keys \in [Accounts -> Key]
  BY BoundsAssumption DEF Init, Key
<1>3. pending \in [MaybeAccount -> Seq(Write)] /\ fetching \in [Accounts -> Nat]
  BY DEF Init
<1>4. requests \subseteq Request /\ main \in Seq(Callback) /\ work \in Seq(Item)
      /\ listeners \in Seq(MaybeAccount \cup {Never})
  BY DEF Init
<1>5. /\ current \in MaybeAccount /\ workerUser \in MaybeAccount
      /\ session \in MaybeAccount /\ userID \in MaybeAccount
  BY DEF Init, MaybeAccount
<1>6. running \in BOOLEAN
  BY DEF Init
<1>7. /\ registering \in Nat /\ token \in 1..MaxTokens
      /\ taps \in 0..MaxTaps /\ faults \in 0..MaxFaults
  BY BoundsAssumption DEF Init
<1> QED BY <1>1, <1>2, <1>3, <1>4, <1>5, <1>6, <1>7 DEF TypeOK

\* Every step keeps the types.
LEMMA NextType == TypeOK /\ [Next]_vars => TypeOK'
<1> SUFFICES ASSUME TypeOK, [Next]_vars PROVE TypeOK'
  OBVIOUS
<1> USE DEF disk, server, app, device
<1>1. CASE Launch
  <2>1. <<>> \in Seq(Callback) /\ <<>> \in Seq(MaybeAccount \cup {Never})
    OBVIOUS
  <2>2. CASE /\ requests' = IF keychain = Nil THEN {} ELSE {[kind |-> "load", uid |-> keychain]}
             /\ Listen(<<>>, <<>>)
             /\ UNCHANGED <<current, workerUser>>
    <3>1. requests' \subseteq Request
      BY <2>2 DEF TypeOK, MaybeAccount, Request
    <3>2. main' \in Seq(Callback) /\ listeners' \in Seq(MaybeAccount \cup {Never})
      BY <2>1, <2>2, ListenType
    <3> QED BY <1>1, <2>2, <3>1, <3>2 DEF Launch, TypeOK
  <2>3. CASE /\ keychain # Nil
             /\ current' = keychain
             /\ workerUser' \in {Nil, keychain}
             /\ Listen(<<>>, Posted(<<>>, keychain))
             /\ UNCHANGED requests
    <3>1. Posted(<<>>, keychain) \in Seq(Callback)
      BY <2>1, PostedType DEF TypeOK
    <3>2. main' \in Seq(Callback) /\ listeners' \in Seq(MaybeAccount \cup {Never})
      BY <2>1, <2>3, <3>1, ListenType
    <3>3. current' \in MaybeAccount /\ workerUser' \in MaybeAccount
      BY <2>3 DEF TypeOK, MaybeAccount
    <3> QED BY <1>1, <2>3, <3>2, <3>3 DEF Launch, TypeOK
  <2> QED BY <1>1, <2>2, <2>3 DEF Launch
<1>2. CASE Die
  <2>1. /\ main' \in Seq(Callback) /\ work' \in Seq(Item)
        /\ listeners' \in Seq(MaybeAccount \cup {Never})
    BY <1>2 DEF Die
  <2>2. /\ current' \in MaybeAccount /\ workerUser' \in MaybeAccount
        /\ session' \in MaybeAccount /\ userID' \in MaybeAccount
        /\ requests' \subseteq Request
    BY <1>2 DEF Die, MaybeAccount
  <2>3. fetching' \in [Accounts -> Nat] /\ registering' \in Nat /\ faults' \in 0..MaxFaults
    BY <1>2, BoundsAssumption DEF Die, TypeOK
  <2>4. running' \in BOOLEAN
    BY <1>2 DEF Die
  <2>5. UNCHANGED <<server, disk, token, taps>>
    BY <1>2 DEF Die
  <2> QED BY <2>1, <2>2, <2>3, <2>4, <2>5 DEF TypeOK
<1>3. ASSUME NEW u \in Accounts, LogIn(u) \/ SignUp(u) PROVE TypeOK'
  <2>1. PICK r \in Request : Submit(r)
    BY <1>3 DEF LogIn, SignUp, Request
  <2>2. requests' \subseteq Request /\ taps' \in 0..MaxTaps
    BY <2>1, BoundsAssumption DEF Submit, Tap, TypeOK
  <2> QED BY <2>1, <2>2 DEF Submit, TypeOK
<1>4. ASSUME NEW r \in requests, Authenticate(r) PROVE TypeOK'
  <2>1. r.uid \in Accounts
    BY DEF TypeOK, Request
  <2> DEFINE completion == IF r.kind = "signUp" THEN <<[kind |-> "signedUp"]>> ELSE <<>>
  <2>2. completion \in Seq(Callback)
    BY CallbacksType, ShortTuples
  <2>3. Posted(main, r.uid) \in Seq(Callback)
    BY <2>1, PostedType DEF TypeOK, MaybeAccount
  <2>4. main' = Posted(main, r.uid) \o completion
    BY <1>4 DEF Authenticate
  <2> HIDE DEF completion
  <2>5. main' \in Seq(Callback)
    BY <2>2, <2>3, <2>4, ConcatProperties
  <2>6. /\ requests' \subseteq Request /\ registered' \subseteq Accounts
        /\ keychain' \in MaybeAccount /\ current' \in MaybeAccount
    BY <1>4, <2>1 DEF Authenticate, TypeOK, MaybeAccount
  <2> QED BY <1>4, <2>5, <2>6 DEF Authenticate, TypeOK
<1>5. ASSUME NEW r \in requests, RequestFails(r) PROVE TypeOK'
  BY <1>5, BoundsAssumption DEF RequestFails, TypeOK
<1>6. CASE LogOut
  <2> DEFINE callbacks == IF current = Nil THEN main ELSE Posted(main, Nil)
  <2>1. callbacks \in Seq(Callback)
    BY PostedType DEF TypeOK, MaybeAccount
  <2>2. ScreenAppears(callbacks)
    BY <1>6 DEF LogOut
  <2> HIDE DEF callbacks
  <2>3. main' \in Seq(Callback) /\ listeners' \in Seq(MaybeAccount \cup {Never})
    BY <2>1, <2>2, AppearsType
  <2>4. /\ session' \in MaybeAccount /\ userID' \in MaybeAccount
        /\ keychain' \in MaybeAccount /\ current' \in MaybeAccount
        /\ taps' \in 0..MaxTaps
    BY <1>6, BoundsAssumption DEF LogOut, LoggedOutID, Tap, TypeOK, MaybeAccount
  <2> QED BY <1>6, <2>3, <2>4 DEF LogOut, TypeOK
<1>7. CASE DeliverFirst
  <2> DEFINE l == Head(main).listener
             gets == Gets({k \in {l} : Called(k)})
  <2>1. main' \in Seq(Callback)
    BY <1>7, HeadOfMain DEF DeliverFirst, Serves
  <2>2. gets \in Seq(Item)
    BY ListenersGet
  <2>3. work' = work \o gets /\ listeners' = [listeners EXCEPT ![l] = current]
    BY <1>7 DEF DeliverFirst
  <2> HIDE DEF l, gets
  <2>4. work' \in Seq(Item)
    BY <2>2, <2>3, ConcatProperties DEF TypeOK
  <2>5. listeners' \in Seq(MaybeAccount \cup {Never})
    <3>1. Len(listeners) \in Nat /\ listeners \in [1..Len(listeners) -> MaybeAccount \cup {Never}]
      BY LenProperties DEF TypeOK
    <3>2. listeners' \in [1..Len(listeners) -> MaybeAccount \cup {Never}]
      BY <2>3, <3>1 DEF TypeOK
    <3> QED BY <3>1, <3>2, SeqDef
  <2> QED BY <1>7, <2>1, <2>4, <2>5 DEF DeliverFirst, TypeOK
<1>8. CASE DeliverChanged
  <2> DEFINE gets == Gets({l \in DOMAIN listeners : Called(l)})
             told == [kind |-> "user", uid |-> Head(main).uid]
  <2>1. Head(main) \in Callback /\ main' \in Seq(Callback) /\ Head(main).kind = "changed"
    BY <1>8, HeadOfMain DEF DeliverChanged, Serves
  <2>2. told \in Item
    BY <2>1 DEF Callback, Item
  <2>3. gets \in Seq(Item)
    BY ListenersGet
  <2>4. /\ work' = Append(work, told) \o gets
        /\ listeners' = [l \in DOMAIN listeners |-> current]
    BY <1>8 DEF DeliverChanged
  <2> HIDE DEF gets, told
  <2>5. work' \in Seq(Item)
    BY <2>2, <2>3, <2>4, AppendProperties, ConcatProperties DEF TypeOK
  <2>6. listeners' \in Seq(MaybeAccount \cup {Never})
    <3>1. DOMAIN listeners = 1..Len(listeners) /\ Len(listeners) \in Nat
      BY LenProperties DEF TypeOK
    <3>2. listeners' \in [1..Len(listeners) -> MaybeAccount \cup {Never}]
      BY <2>4, <3>1 DEF TypeOK
    <3> QED BY <3>1, <3>2, SeqDef
  <2> QED BY <1>8, <2>1, <2>5, <2>6 DEF DeliverChanged, TypeOK
<1>9. CASE DeliverSignedUp
  <2>1. main' \in Seq(Callback)
    BY <1>9, HeadOfMain DEF DeliverSignedUp, Serves
  <2>2. [kind |-> "set", uid |-> current, token |-> 0] \in Item
    BY <1>9, BoundsAssumption DEF DeliverSignedUp, TypeOK, MaybeAccount, Item, Write
  <2>3. work' \in Seq(Item)
    BY <1>9, <2>2, AppendProperties DEF DeliverSignedUp, TypeOK
  <2> QED BY <1>9, <2>1, <2>3 DEF DeliverSignedUp, TypeOK
<1>10. CASE DeliverDocument
  <2>1. /\ Head(main) \in Callback /\ Tail(main) \in Seq(Callback)
        /\ Head(main).kind = "document"
    BY <1>10, HeadOfMain DEF DeliverDocument, Serves
  <2>2. Head(main).uid \in Accounts
    BY <2>1 DEF Callback
  <2>3. main' \in Seq(Callback) /\ listeners' \in Seq(MaybeAccount \cup {Never})
    BY <1>10, <2>1, AppearsType DEF DeliverDocument, TypeOK
  <2>4. session' \in MaybeAccount /\ userID' \in MaybeAccount /\ registering' \in Nat
    <3>1. session' = Head(main).uid /\ userID' = Head(main).uid /\ registering' = registering + 1
      BY <1>10 DEF DeliverDocument
    <3>2. registering \in Nat
      BY DEF TypeOK
    <3> QED BY <2>2, <3>1, <3>2 DEF MaybeAccount
  <2> QED BY <1>10, <2>3, <2>4 DEF DeliverDocument, TypeOK
<1>11. CASE DidRegister
  <2>1. [kind |-> "key", uid |-> userID, token |-> token] \in Item
    BY <1>11, BoundsAssumption DEF DidRegister, TypeOK, MaybeAccount, Item, Write
  <2>2. work' \in Seq(Item) /\ registering' \in Nat
    BY <1>11, <2>1, AppendProperties DEF DidRegister, WriteKey, TypeOK
  <2> QED BY <1>11, <2>2 DEF DidRegister, TypeOK
<1>12. CASE DidFailToRegister
  BY <1>12, BoundsAssumption DEF DidFailToRegister, TypeOK
<1>13. CASE DidReceiveRegistrationToken
  <2>1. token' \in 1..MaxTokens
    BY <1>13, BoundsAssumption DEF DidReceiveRegistrationToken, TypeOK
  <2>2. work' \in Seq(Item)
    <3>1. CASE userID = Nil
      BY <1>13, <3>1 DEF DidReceiveRegistrationToken, TypeOK
    <3>2. CASE userID # Nil
      <4> DEFINE w == [kind |-> "key", uid |-> userID, token |-> token']
      <4>1. w \in Item
        BY <2>1, <3>2, BoundsAssumption DEF TypeOK, MaybeAccount, Item, Write
      <4>2. work' = Append(work, w)
        BY <1>13, <3>2 DEF DidReceiveRegistrationToken, WriteKey
      <4> HIDE DEF w
      <4> QED BY <4>1, <4>2, AppendProperties DEF TypeOK
    <3> QED BY <3>1, <3>2
  <2> QED BY <1>13, <2>1, <2>2 DEF DidReceiveRegistrationToken, TypeOK
<1>14. CASE Work
  <2>1. Head(work) \in Item /\ work' \in Seq(Item)
    BY <1>14, HeadTailProperties DEF Work, TypeOK
  <2>2. CASE Head(work).kind = "user"
    <3>1. Head(work).uid \in MaybeAccount
      BY <2>1, <2>2 DEF Item, Write, MaybeAccount
    <3> QED BY <1>14, <2>1, <2>2, <3>1 DEF Work, QueuesAfter, TypeOK
  <2>3. CASE Head(work).kind = "get"
    <3>1. Head(work).uid \in Accounts
      BY <2>1, <2>3 DEF Item, Write
    <3>2. fetching' = [fetching EXCEPT ![Head(work).uid] = @ + 1] /\ UNCHANGED <<workerUser, pending>>
      BY <1>14, <2>3 DEF Work
    <3>3. fetching' \in [Accounts -> Nat]
      BY <3>1, <3>2 DEF TypeOK
    <3> QED BY <1>14, <2>1, <3>2, <3>3 DEF Work, TypeOK
  <2>4. CASE Head(work).kind \in {"set", "key"}
    <3>1. Head(work) \in Write
      BY <2>1, <2>4 DEF Item
    <3>2. pending' = [pending EXCEPT ![workerUser] = Append(@, Head(work))]
          /\ UNCHANGED <<workerUser, fetching>>
      BY <1>14, <2>4 DEF Work
    <3>3. Append(pending[workerUser], Head(work)) \in Seq(Write)
      BY <3>1, AppendProperties DEF TypeOK
    <3>4. pending' \in [MaybeAccount -> Seq(Write)]
      BY <3>2, <3>3 DEF TypeOK
    <3> QED BY <1>14, <2>1, <3>2, <3>4 DEF Work, TypeOK
  <2> QED BY <1>14, <2>2, <2>3, <2>4 DEF Work
<1>15. CASE Send
  <2> DEFINE w == Head(pending[workerUser])
  <2>1. w \in Write /\ Tail(pending[workerUser]) \in Seq(Write)
    BY <1>15, HeadTailProperties DEF Send, TypeOK
  <2>2. Written(keys[w.uid], w) \in Key
    BY <2>1, BoundsAssumption DEF Written, Write, Key
  <2>3. /\ keys' = [keys EXCEPT ![w.uid] = Written(keys[w.uid], w)]
        /\ pending' = [pending EXCEPT ![workerUser] = Tail(pending[workerUser])]
    BY <1>15 DEF Send
  <2> HIDE DEF w
  <2>4. keys' \in [Accounts -> Key] /\ pending' \in [MaybeAccount -> Seq(Write)]
    BY <2>1, <2>2, <2>3 DEF TypeOK
  <2> QED BY <1>15, <2>4 DEF Send, TypeOK
<1>16. ASSUME NEW u \in Accounts, Fetch(u) PROVE TypeOK'
  <2>1. fetching' \in [Accounts -> Nat]
    BY <1>16 DEF Fetch, TypeOK
  <2>2. main' \in Seq(Callback)
    BY <1>16, CallbacksType, AppendProperties DEF Fetch, TypeOK
  <2> QED BY <1>16, <2>1, <2>2 DEF Fetch, TypeOK
<1>17. ASSUME NEW u \in Accounts, FetchFails(u) PROVE TypeOK'
  <2>1. fetching' \in [Accounts -> Nat] /\ faults' \in 0..MaxFaults
    BY <1>17, BoundsAssumption DEF FetchFails, TypeOK
  <2> QED BY <1>17, <2>1 DEF FetchFails, TypeOK
<1>18. CASE UNCHANGED vars
  BY <1>18 DEF vars, TypeOK
<1> QED
  BY <1>1, <1>2, <1>3, <1>4, <1>5, <1>6, <1>7, <1>8, <1>9, <1>10, <1>11, <1>12, <1>13,
     <1>14, <1>15, <1>16, <1>17, <1>18 DEF Next, Deliver

\* Every value stays what the code takes it for: a callback that is served has the account
\* or the listener it needs, and no write addresses document("").
THEOREM TypeCorrect == Spec => []TypeOK
BY InitType, NextType, PTL DEF Spec

----------------------------------------------------------------------------
(* The address of a token and the user of a profile.                       *)

\* The callbacks other than the completion of a sign-up.
NotSignedUp == {c \in Callback : c.kind # "signedUp"}

\* TokenHasAddress, and what it takes for SignUpHasUser: AppDelegate has a user as soon as
\* a session was open, and before that nobody can have logged out, so that whoever signed
\* up is, or was replaced by, a current user.
AddressInv ==
  /\ registering > 0 => userID # Nil
  /\ session # Nil => userID # Nil
  /\ userID = Nil /\ current = Nil => main \in Seq(NotSignedUp)

\* A step that leaves the users alone, starts no registration and adds no completion.
LEMMA AddressUntouched ==
  ASSUME AddressInv, UNCHANGED <<app, current>>, registering' > 0 => registering > 0,
         main \in Seq(NotSignedUp) => main' \in Seq(NotSignedUp)
  PROVE  AddressInv'
BY DEF AddressInv, app, NotSignedUp, Callback, MaybeAccount

\* Every step keeps it.
LEMMA NextAddress == TypeOK /\ AddressInv /\ [Next]_vars => AddressInv'
<1> SUFFICES ASSUME TypeOK, AddressInv, [Next]_vars PROVE AddressInv'
  OBVIOUS
<1>1. CASE Launch
  <2>1. UNCHANGED <<app, registering>>
    BY <1>1 DEF Launch, device
  <2>2. CASE Listen(<<>>, <<>>) /\ UNCHANGED current
    <3>1. main' = Append(<<>>, [kind |-> "first", listener |-> Len(<<>>) + 1])
      BY <2>2 DEF Listen
    <3>2. [kind |-> "first", listener |-> Len(<<>>) + 1] \in NotSignedUp
      <4>1. Len(<<>>) + 1 \in 1..MaxListeners
        BY BoundsAssumption
      <4> QED BY <4>1 DEF NotSignedUp, Callback
    <3>3. main' \in Seq(NotSignedUp)
      BY <3>1, <3>2
    <3> QED BY <2>1, <2>2, <3>3, AddressUntouched
  <2>3. CASE keychain # Nil /\ current' = keychain
    BY <2>1, <2>3 DEF AddressInv, app
  <2> QED BY <1>1, <2>2, <2>3 DEF Launch
<1>2. CASE Die
  <2>1. main' = <<>> /\ registering' = 0 /\ session' = Nil
    BY <1>2 DEF Die
  <2> QED BY <2>1 DEF AddressInv
<1>3. ASSUME NEW r \in requests, Authenticate(r) PROVE AddressInv'
  <2>1. UNCHANGED <<app, registering>> /\ current' = r.uid
    BY <1>3 DEF Authenticate, device
  <2>2. r.uid # Nil
    BY AccountsAssumption DEF TypeOK, Request
  <2> QED BY <2>1, <2>2 DEF AddressInv, app
<1>4. CASE LogOut
  <2>1. userID' = userID /\ userID # Nil
    BY <1>4 DEF LogOut, LoggedOutID, AddressInv
  <2> QED BY <2>1 DEF AddressInv
<1>5. CASE DeliverFirst \/ DeliverChanged \/ DeliverSignedUp
  <2>1. UNCHANGED <<app, current, registering>> /\ main # <<>> /\ main' = Tail(main)
    BY <1>5 DEF DeliverFirst, DeliverChanged, DeliverSignedUp, Serves, device
  <2>2. main \in Seq(NotSignedUp) => main' \in Seq(NotSignedUp)
    BY <2>1, HeadTailProperties
  <2> QED BY <2>1, <2>2, AddressUntouched
<1>6. CASE DeliverDocument
  <2>1. userID' = Head(main).uid /\ Head(main).uid # Nil
    BY <1>6, HeadOfMain, AccountsAssumption DEF DeliverDocument, Serves, Callback
  <2> QED BY <2>1 DEF AddressInv
<1>7. ASSUME NEW u \in Accounts, Fetch(u) PROVE AddressInv'
  <2>1. UNCHANGED <<app, current, registering>>
    BY <1>7 DEF Fetch, device
  <2>2. [kind |-> "document", uid |-> u] \in NotSignedUp
    BY DEF NotSignedUp, Callback
  <2>3. main \in Seq(NotSignedUp) => main' \in Seq(NotSignedUp)
    BY <1>7, <2>2, AppendProperties DEF Fetch
  <2> QED BY <2>1, <2>3, AddressUntouched
<1>8. CASE DidRegister \/ DidFailToRegister
  <2>1. UNCHANGED <<app, current, main>> /\ registering > 0
    BY <1>8 DEF DidRegister, DidFailToRegister
  <2> QED BY <2>1, AddressUntouched
<1>9. ASSUME \/ \E u \in Accounts : LogIn(u) \/ SignUp(u) \/ FetchFails(u)
             \/ \E r \in requests : RequestFails(r)
             \/ DidReceiveRegistrationToken \/ Work \/ Send \/ UNCHANGED vars
      PROVE  AddressInv'
  <2>1. UNCHANGED <<app, current, main, registering>>
    BY <1>9 DEF LogIn, SignUp, Submit, FetchFails, RequestFails, DidReceiveRegistrationToken,
                Work, Send, vars, device
  <2> QED BY <2>1, AddressUntouched
<1> QED
  BY <1>1, <1>2, <1>3, <1>4, <1>5, <1>6, <1>7, <1>8, <1>9 DEF Next, Deliver

\* AddressInv is an invariant.
LEMMA AddressInvariance == Spec => []AddressInv
<1>1. Init => AddressInv
  BY DEF Init, AddressInv
<1> QED BY <1>1, NextAddress, TypeCorrect, PTL DEF Spec

\* The answer to a registration never finds AppDelegate without a user, whatever taps,
\* kills and failures came before: document("") is not asked for.
THEOREM TokensHaveAddress == Spec => []TokenHasAddress
<1>1. AddressInv => TokenHasAddress
  BY DEF AddressInv, TokenHasAddress
<1> QED BY <1>1, AddressInvariance, PTL

\* The completion of a sign-up forces currentUser of nobody only if a session was open in
\* the process, that is, after a log-out.
THEOREM SignUpsHaveUser == Spec => []SignUpHasUser
<1>1. AddressInv => SignUpHasUser
  <2> SUFFICES ASSUME AddressInv, Trapping, userID = Nil PROVE FALSE
    BY DEF SignUpHasUser
  <2>1. main # <<>> /\ Head(main).kind = "signedUp" /\ main \in Seq(NotSignedUp)
    BY DEF Trapping, AddressInv
  <2>2. Head(main) \in NotSignedUp
    BY <2>1, HeadTailProperties
  <2> QED BY <2>1, <2>2 DEF NotSignedUp
<1> QED BY <1>1, AddressInvariance, PTL

----------------------------------------------------------------------------
(* The profile of a new account.                                           *)

\* The write of a profile in a sequence that grows at its end or loses its head.
LEMMA ProfileInSequence ==
  ASSUME NEW S, NEW q \in Seq(S), NEW u
  PROVE  /\ \A x \in S : HasProfile(q, u) => HasProfile(Append(q, x), u)
         /\ \A x \in S : x.kind = "set" /\ x.uid = u => HasProfile(Append(q, x), u)
         /\ \A r \in Seq(S) : HasProfile(q, u) => HasProfile(q \o r, u)
         /\ q # <<>> /\ HasProfile(q, u) =>
              (Head(q).kind = "set" /\ Head(q).uid = u) \/ HasProfile(Tail(q), u)
<1>1. DOMAIN q = 1..Len(q) /\ Len(q) \in Nat
  BY LenProperties
<1>2. ASSUME NEW x \in S, HasProfile(q, u) PROVE HasProfile(Append(q, x), u)
  <2>1. PICK i \in 1..Len(q) : q[i].kind = "set" /\ q[i].uid = u
    BY <1>1, <1>2 DEF HasProfile
  <2>2. i \in DOMAIN Append(q, x) /\ Append(q, x)[i] = q[i]
    BY <1>1, AppendProperties, LenProperties
  <2> QED BY <2>1, <2>2 DEF HasProfile
<1>3. ASSUME NEW x \in S, x.kind = "set", x.uid = u PROVE HasProfile(Append(q, x), u)
  <2>1. Len(q) + 1 \in DOMAIN Append(q, x) /\ Append(q, x)[Len(q) + 1] = x
    BY <1>1, AppendProperties, LenProperties
  <2> QED BY <1>3, <2>1 DEF HasProfile
<1>4. ASSUME NEW r \in Seq(S), HasProfile(q, u) PROVE HasProfile(q \o r, u)
  <2>1. PICK i \in 1..Len(q) : q[i].kind = "set" /\ q[i].uid = u
    BY <1>1, <1>4 DEF HasProfile
  <2>2. i \in DOMAIN (q \o r) /\ (q \o r)[i] = q[i]
    BY <1>1, ConcatProperties, LenProperties
  <2> QED BY <2>1, <2>2 DEF HasProfile
<1>5. ASSUME q # <<>>, HasProfile(q, u)
      PROVE  (Head(q).kind = "set" /\ Head(q).uid = u) \/ HasProfile(Tail(q), u)
  <2>1. PICK i \in 1..Len(q) : q[i].kind = "set" /\ q[i].uid = u
    BY <1>1, <1>5 DEF HasProfile
  <2>2. CASE i = 1
    <3>1. Head(q) = q[1]
      BY <1>5, HeadTailProperties
    <3> QED BY <2>1, <2>2, <3>1
  <2>3. CASE i # 1
    <3>1. i - 1 \in DOMAIN Tail(q) /\ Tail(q)[i - 1] = q[i]
      BY <1>1, <1>5, <2>3, HeadTailProperties, LenProperties
    <3> QED BY <2>1, <3>1 DEF HasProfile
  <2> QED BY <2>2, <2>3
<1> QED BY <1>2, <1>3, <1>4, <1>5

\* The profile of an account is at the server, or on its way there.
ProfileGiven(u) == keys[u] # Nil \/ ProfileSent(u)

\* A step of a running app loses no profile.
LEMMA ProfileStep ==
  ASSUME TypeOK, Next, running', NEW u \in Accounts, ProfileGiven(u)
  PROVE  ProfileGiven(u)'
<1>0. /\ work \in Seq(Item) /\ keys \in [Accounts -> Key]
      /\ pending \in [MaybeAccount -> Seq(Write)] /\ workerUser \in MaybeAccount
  BY DEF TypeOK
<1>1. ASSUME UNCHANGED <<keys, pending, work>> PROVE ProfileGiven(u)'
  BY <1>1 DEF ProfileGiven, ProfileSent, ProfileQueued, HasProfile
<1>2. ASSUME UNCHANGED <<keys, pending>>, HasProfile(work, u) => HasProfile(work', u)
      PROVE  ProfileGiven(u)'
  BY <1>2 DEF ProfileGiven, ProfileSent, ProfileQueued, HasProfile
<1>3. CASE DeliverFirst
  <2> DEFINE gets == Gets({k \in {Head(main).listener} : Called(k)})
  <2>1. gets \in Seq(Item)
    BY ListenersGet
  <2>2. work' = work \o gets /\ UNCHANGED <<keys, pending>>
    BY <1>3 DEF DeliverFirst, server, disk
  <2> HIDE DEF gets
  <2> QED BY <1>0, <1>2, <2>1, <2>2, ProfileInSequence
<1>4. CASE DeliverChanged
  <2> DEFINE gets == Gets({l \in DOMAIN listeners : Called(l)})
             told == [kind |-> "user", uid |-> Head(main).uid]
  <2>1. told \in Item
    BY <1>4, HeadOfMain DEF DeliverChanged, Serves, Callback, Item
  <2>2. gets \in Seq(Item)
    BY ListenersGet
  <2>3. work' = Append(work, told) \o gets /\ UNCHANGED <<keys, pending>>
    BY <1>4 DEF DeliverChanged, server, disk
  <2> HIDE DEF gets, told
  <2>4. HasProfile(work, u) => HasProfile(Append(work, told), u)
    BY <1>0, <2>1, ProfileInSequence
  <2>5. Append(work, told) \in Seq(Item)
    BY <1>0, <2>1, AppendProperties
  <2>6. HasProfile(work, u) => HasProfile(work', u)
    BY <2>2, <2>3, <2>4, <2>5, ProfileInSequence
  <2> QED BY <1>2, <2>3, <2>6
<1>5. CASE DeliverSignedUp
  <2> DEFINE w == [kind |-> "set", uid |-> current, token |-> 0]
  <2>1. w \in Item
    BY <1>5, BoundsAssumption DEF DeliverSignedUp, TypeOK, MaybeAccount, Item, Write
  <2>2. work' = Append(work, w) /\ UNCHANGED <<keys, pending>>
    BY <1>5 DEF DeliverSignedUp, server, disk
  <2> HIDE DEF w
  <2> QED BY <1>0, <1>2, <2>1, <2>2, ProfileInSequence
<1>6. CASE DidRegister \/ DidReceiveRegistrationToken
  <2>1. UNCHANGED <<keys, pending>>
    BY <1>6 DEF DidRegister, DidReceiveRegistrationToken, server, disk
  <2>2. CASE work' = work
    BY <1>1, <2>1, <2>2
  <2>3. CASE work' # work
    <3>1. userID \in Accounts
      BY <1>6, <2>3 DEF DidRegister, DidReceiveRegistrationToken, TypeOK, MaybeAccount
    <3>2. PICK t \in 0..MaxTokens : work' = Append(work, [kind |-> "key", uid |-> userID, token |-> t])
      <4>1. CASE DidRegister
        <5>1. work' = Append(work, [kind |-> "key", uid |-> userID, token |-> token])
          BY <4>1 DEF DidRegister, WriteKey
        <5>2. token \in 0..MaxTokens
          BY BoundsAssumption DEF TypeOK
        <5> QED BY <5>1, <5>2
      <4>2. CASE DidReceiveRegistrationToken
        <5>1. work' = Append(work, [kind |-> "key", uid |-> userID, token |-> token'])
          BY <2>3, <4>2 DEF DidReceiveRegistrationToken, WriteKey
        <5>2. token' \in 0..MaxTokens
          BY <4>2, BoundsAssumption DEF DidReceiveRegistrationToken, TypeOK
        <5> QED BY <5>1, <5>2
      <4> QED BY <1>6, <4>1, <4>2
    <3>3. [kind |-> "key", uid |-> userID, token |-> t] \in Item
      BY <3>1 DEF Item, Write
    <3> QED BY <1>0, <1>2, <2>1, <3>2, <3>3, ProfileInSequence
  <2> QED BY <2>2, <2>3
<1>7. CASE Work
  <2>1. work # <<>> /\ work' = Tail(work) /\ Head(work) \in Item /\ UNCHANGED keys
    BY <1>0, <1>7, HeadTailProperties DEF Work, server
  <2>2. HasProfile(work, u) =>
          (Head(work).kind = "set" /\ Head(work).uid = u) \/ HasProfile(work', u)
    BY <1>0, <2>1, ProfileInSequence
  <2>3. CASE Head(work).kind \in {"user", "get"}
    <3>1. UNCHANGED pending
      BY <1>7, <2>3 DEF Work, QueuesAfter
    <3> QED BY <1>2, <2>1, <2>2, <2>3, <3>1
  <2>4. CASE Head(work).kind \in {"set", "key"}
    <3> DEFINE q == Append(pending[workerUser], Head(work))
    <3>1. Head(work) \in Write /\ pending' = [pending EXCEPT ![workerUser] = q]
      BY <1>7, <2>1, <2>4 DEF Work, Item
    <3>2. /\ HasProfile(pending[workerUser], u) => HasProfile(q, u)
          /\ Head(work).kind = "set" /\ Head(work).uid = u => HasProfile(q, u)
      BY <1>0, <3>1, ProfileInSequence
    <3> HIDE DEF q
    <3>3. ProfileQueued(u) => ProfileQueued(u)'
      BY <1>0, <3>1, <3>2 DEF ProfileQueued, HasProfile
    <3>4. HasProfile(q, u) => ProfileQueued(u)'
      BY <1>0, <3>1 DEF ProfileQueued, HasProfile
    <3>5. HasProfile(work', u) => ProfileGiven(u)'
      BY DEF ProfileGiven, ProfileSent, HasProfile
    <3> QED BY <2>1, <2>2, <3>2, <3>3, <3>4, <3>5 DEF ProfileGiven, ProfileSent
  <2> QED BY <1>7, <2>3, <2>4 DEF Work
<1>8. CASE Send
  <2> DEFINE q == pending[workerUser]
             w == Head(q)
  <2>0. q # <<>> /\ q \in Seq(Write)
    BY <1>0, <1>8 DEF Send
  <2>1. /\ keys' = [keys EXCEPT ![w.uid] = Written(keys[w.uid], w)]
        /\ pending' = [pending EXCEPT ![workerUser] = Tail(q)]
        /\ UNCHANGED work
    BY <1>8 DEF Send
  <2>2. HasProfile(q, u) => (w.kind = "set" /\ w.uid = u) \/ HasProfile(Tail(q), u)
    BY <2>0, ProfileInSequence
  <2>6. w \in Write /\ w.uid \in Accounts
    <3>1. w \in Write
      BY <2>0, HeadTailProperties
    <3> QED BY <3>1 DEF Write
  <2> HIDE DEF q, w
  <2>3. keys[u] # Nil \/ (w.kind = "set" /\ w.uid = u) => keys'[u] # Nil
    <3>1. 0 # Nil /\ w.token # Nil
      BY <2>6, AccountsAssumption DEF Write
    <3> QED BY <1>0, <2>1, <2>6, <3>1 DEF Written
  <2>4. HasProfile(work, u) => ProfileGiven(u)'
    BY <2>1 DEF ProfileGiven, ProfileSent, HasProfile
  <2>5. ASSUME ProfileQueued(u) PROVE ProfileGiven(u)'
    <3>1. PICK v \in MaybeAccount : HasProfile(pending[v], u)
      BY <2>5 DEF ProfileQueued
    <3>2. CASE v # workerUser
      <4>1. pending'[v] = pending[v]
        BY <1>0, <2>1, <3>2
      <4> QED BY <3>1, <4>1 DEF ProfileGiven, ProfileSent, ProfileQueued, HasProfile
    <3>3. CASE v = workerUser
      <4>1. pending'[v] = Tail(q) /\ HasProfile(q, u)
        BY <1>0, <2>1, <3>1, <3>3 DEF q
      <4>2. CASE HasProfile(Tail(q), u)
        BY <4>1, <4>2 DEF ProfileGiven, ProfileSent, ProfileQueued, HasProfile
      <4>3. CASE w.kind = "set" /\ w.uid = u
        BY <2>3, <4>3 DEF ProfileGiven
      <4> QED BY <2>2, <4>1, <4>2, <4>3
    <3> QED BY <3>2, <3>3
  <2> QED BY <2>3, <2>4, <2>5 DEF ProfileGiven, ProfileSent
<1>9. ASSUME \/ Launch \/ LogOut \/ DeliverDocument \/ DidFailToRegister
             \/ \E v \in Accounts : LogIn(v) \/ SignUp(v) \/ Fetch(v) \/ FetchFails(v)
             \/ \E r \in requests : Authenticate(r) \/ RequestFails(r)
      PROVE  ProfileGiven(u)'
  <2>1. UNCHANGED <<keys, pending, work>>
    BY <1>9 DEF Launch, LogOut, DeliverDocument, DidFailToRegister, LogIn, SignUp, Submit,
                Fetch, FetchFails, Authenticate, RequestFails, server, disk
  <2> QED BY <1>1, <2>1
<1>10. ~Die
  BY DEF Die
<1> QED
  BY <1>3, <1>4, <1>5, <1>6, <1>7, <1>8, <1>9, <1>10 DEF Next, Deliver

\* A step that is not the end of the process leaves it running.
LEMMA OnlyDeathEnds ==
  ASSUME TypeOK, Next, ~Die
  PROVE  running'
<1> USE DEF TypeOK
<1>1. CASE Launch
  BY <1>1 DEF Launch
<1>2. ASSUME NEW u \in Accounts, LogIn(u) \/ SignUp(u) \/ Fetch(u) \/ FetchFails(u) PROVE running'
  BY <1>2 DEF LogIn, SignUp, Submit, Tap, Fetch, FetchFails
<1>3. ASSUME NEW r \in requests, Authenticate(r) \/ RequestFails(r) PROVE running'
  BY <1>3 DEF Authenticate, RequestFails
<1>4. CASE LogOut \/ Work \/ Send
  BY <1>4 DEF LogOut, Tap, Work, Send
<1>5. CASE Deliver
  BY <1>5 DEF Deliver, DeliverFirst, DeliverChanged, DeliverSignedUp, DeliverDocument, Serves
<1>6. CASE DidRegister \/ DidFailToRegister \/ DidReceiveRegistrationToken
  BY <1>6 DEF DidRegister, DidFailToRegister, DidReceiveRegistrationToken
<1> QED
  BY <1>1, <1>2, <1>3, <1>4, <1>5, <1>6 DEF Next

\* What is on disk is only taken from there by the server.
LEMMA QueuedAtDeath ==
  ASSUME TypeOK, Die, NEW u \in Accounts, ProfileQueued(u)
  PROVE  ProfileSent(u)'
BY DEF Die, disk, ProfileSent, ProfileQueued, HasProfile

\* The profile that SignUp.signUp has sent reaches the server, or stays on its way, through
\* changes of user and, once it is on disk, the end of the process.
THEOREM ProfilesAreKept == Spec => ProfileKept
<1> DEFINE Step == \A u \in Accounts :
      ProfileQueued(u) \/ (ProfileSent(u) /\ running') => ProfileSent(u)' \/ keys'[u] # Nil
<1>1. TypeOK /\ [Next]_vars => [Step]_vars
  <2> SUFFICES ASSUME TypeOK, Next, NEW u \in Accounts,
                      ProfileQueued(u) \/ (ProfileSent(u) /\ running')
               PROVE  ProfileSent(u)' \/ keys'[u] # Nil
    OBVIOUS
  <2>1. CASE running'
    BY <2>1, ProfileStep DEF ProfileGiven, ProfileSent
  <2>2. CASE ~running'
    <3>1. ProfileQueued(u)
      BY <2>2
    <3>2. CASE Die
      BY <3>1, <3>2, QueuedAtDeath
    <3>3. CASE ~Die
      BY <2>2, <3>3, OnlyDeathEnds
    <3> QED BY <3>2, <3>3
  <2> QED BY <2>1, <2>2
<1>2. Spec => [][Step]_vars
  BY <1>1, TypeCorrect, PTL DEF Spec
<1> QED BY <1>2 DEF ProfileKept

----------------------------------------------------------------------------
(* The document of a session.                                              *)

\* The callbacks whose document is there, if they have one.
Known == {c \in Callback : c.kind = "document" => ProfileGiven(c.uid)}

\* SessionHasDocument, and the same of every answer of getDocument on its way: it was given
\* for a document of the server or a queued profile, and neither gets lost.
DocumentInv ==
  /\ main \in Seq(Known)
  /\ session # Nil => ProfileGiven(session)

\* Callbacks without a document are raised behind the others.
LEMMA QuietCallbacks ==
  ASSUME TypeOK, NEW K, \A c \in Callback : c.kind # "document" => c \in K, NEW q \in Seq(K)
  PROVE  /\ \A u \in MaybeAccount : Posted(q, u) \in Seq(K)
         /\ q \o <<[kind |-> "signedUp"]>> \in Seq(K)
         /\ \A others \in Seq(MaybeAccount \cup {Never}) : Listen(others, q) => main' \in Seq(K)
         /\ ScreenAppears(q) => main' \in Seq(K)
<1>1. \A u \in MaybeAccount : Posted(q, u) \in Seq(K)
  BY CallbacksType, AppendProperties DEF Posted
<1>2. q \o <<[kind |-> "signedUp"]>> \in Seq(K)
  <2>1. <<[kind |-> "signedUp"]>> \in Seq(K)
    BY CallbacksType, ShortTuples
  <2> QED BY <2>1, ConcatProperties
<1>3. ASSUME NEW others \in Seq(MaybeAccount \cup {Never}), Listen(others, q)
      PROVE  main' \in Seq(K)
  <2>1. Len(others) + 1 \in 1..MaxListeners
    BY <1>3, LenProperties, BoundsAssumption DEF Listen
  <2>2. [kind |-> "first", listener |-> Len(others) + 1] \in K
    BY <2>1, CallbacksType
  <2> QED BY <1>3, <2>2, AppendProperties DEF Listen
<1>4. ScreenAppears(q) => main' \in Seq(K)
  BY <1>3 DEF ScreenAppears, TypeOK
<1> QED BY <1>1, <1>2, <1>3, <1>4

\* Every step keeps it.
LEMMA NextDocument == TypeOK /\ DocumentInv /\ [Next]_vars => DocumentInv'
<1> SUFFICES ASSUME TypeOK, DocumentInv, [Next]_vars PROVE DocumentInv'
  OBVIOUS
<1>1. CASE UNCHANGED vars
  BY <1>1 DEF vars, server, disk, app, DocumentInv, Known, ProfileGiven, ProfileSent, ProfileQueued, HasProfile
<1>2. CASE Die
  <2>1. main' = <<>> /\ session' = Nil
    BY <1>2 DEF Die
  <2> QED BY <2>1 DEF DocumentInv
<1>3. CASE Next /\ ~Die
  <2> DEFINE K == Known'
  <2>1. \A u \in Accounts : ProfileGiven(u) => ProfileGiven(u)'
    BY <1>3, OnlyDeathEnds, ProfileStep
  <2>2. \A c \in Callback : c.kind # "document" => c \in K
    BY DEF Known
  <2>3. main \in Seq(K)
    <3>1. ASSUME NEW c \in Known PROVE c \in K
      <4>1. c.kind = "document" => c.uid \in Accounts
        BY DEF Known, Callback
      <4> QED BY <2>1, <4>1 DEF Known
    <3> HIDE DEF K
    <3>2. Known \subseteq K
      BY <3>1
    <3> QED BY <3>2, SeqMonotonic DEF DocumentInv
  <2>4. main # <<>> => Tail(main) \in Seq(K)
    <3> HIDE DEF K
    <3> QED BY <2>3, HeadTailProperties
  <2>5. SUFFICES main' \in Seq(K) /\ (session' # Nil => ProfileGiven(session)')
    BY DEF DocumentInv
  <2>6. ASSUME session' = session, session' # Nil PROVE ProfileGiven(session)'
    <3>1. session \in Accounts /\ ProfileGiven(session)
      BY <2>6 DEF DocumentInv, TypeOK, MaybeAccount
    <3>2. \A u : u = session => (ProfileGiven(session)' <=> ProfileGiven(u)')
      BY <2>6 DEF ProfileGiven, ProfileSent, ProfileQueued, HasProfile
    <3> QED BY <2>1, <3>1, <3>2
  <2>7. CASE Launch
    <3>1. UNCHANGED session
      BY <2>7 DEF Launch, app
    <3>2. main' \in Seq(K)
      <4> HIDE DEF K
      <4>1. <<>> \in Seq(K) /\ <<>> \in Seq(MaybeAccount \cup {Never}) /\ keychain \in MaybeAccount
        BY DEF TypeOK
      <4>2. Posted(<<>>, keychain) \in Seq(K)
        BY <2>2, <4>1, QuietCallbacks
      <4> QED BY <2>2, <2>7, <4>1, <4>2, QuietCallbacks DEF Launch
    <3> QED BY <2>6, <3>1, <3>2
  <2>8. ASSUME NEW r \in requests, Authenticate(r) PROVE main' \in Seq(K) /\ UNCHANGED session
    <3>1. r.uid \in MaybeAccount
      BY DEF TypeOK, Request, MaybeAccount
    <3>2. UNCHANGED session
      BY <2>8 DEF Authenticate, app
    <3> HIDE DEF K
    <3>3. Posted(main, r.uid) \in Seq(K)
      BY <2>2, <2>3, <3>1, QuietCallbacks
    <3>4. CASE r.kind = "signUp"
      BY <2>2, <2>8, <3>2, <3>3, <3>4, QuietCallbacks DEF Authenticate
    <3>5. CASE r.kind # "signUp"
      <4>1. main' = Posted(main, r.uid) \o <<>>
        BY <2>8, <3>5 DEF Authenticate
      <4> QED BY <3>2, <3>3, <4>1, ConcatProperties
    <3> QED BY <3>4, <3>5
  <2>9. CASE LogOut
    <3>1. session' = Nil
      BY <2>9 DEF LogOut
    <3> DEFINE callbacks == IF current = Nil THEN main ELSE Posted(main, Nil)
    <3> HIDE DEF K
    <3>2. callbacks \in Seq(K)
      BY <2>2, <2>3, QuietCallbacks DEF MaybeAccount
    <3>3. ScreenAppears(callbacks)
      BY <2>9 DEF LogOut
    <3> HIDE DEF callbacks
    <3> QED BY <2>2, <3>1, <3>2, <3>3, QuietCallbacks
  <2>10. CASE DeliverFirst \/ DeliverChanged \/ DeliverSignedUp
    <3>1. UNCHANGED session /\ main # <<>> /\ main' = Tail(main)
      BY <2>10 DEF DeliverFirst, DeliverChanged, DeliverSignedUp, Serves, app
    <3> QED BY <2>4, <2>6, <3>1
  <2>11. CASE DeliverDocument
    <3>1. main # <<>> /\ Head(main).kind = "document" /\ session' = Head(main).uid
      BY <2>11 DEF DeliverDocument, Serves
    <3>2. Head(main) \in Known
      BY <3>1, HeadTailProperties DEF DocumentInv
    <3>3. Head(main).uid \in Accounts /\ ProfileGiven(Head(main).uid)
      BY <3>1, <3>2 DEF Known, Callback
    <3>4. ProfileGiven(session)'
      BY <2>1, <3>1, <3>3 DEF ProfileGiven, ProfileSent, ProfileQueued, HasProfile
    <3>5. main' \in Seq(K)
      <4> HIDE DEF K
      <4> QED BY <2>2, <2>4, <2>11, <3>1, QuietCallbacks DEF DeliverDocument
    <3> QED BY <3>4, <3>5
  <2>12. ASSUME NEW u \in Accounts, Fetch(u) PROVE main' \in Seq(K) /\ UNCHANGED session
    <3>1. UNCHANGED session
      BY <2>12 DEF Fetch, app
    <3>2. CASE Exists(u)
      <4>1. ProfileGiven(u)
        BY <3>2 DEF Exists, ProfileGiven, ProfileSent, ProfileQueued, HasProfile, TypeOK
      <4>2. [kind |-> "document", uid |-> u] \in K
        BY <2>1, <4>1, CallbacksType DEF Known
      <4>3. main' = Append(main, [kind |-> "document", uid |-> u])
        BY <2>12, <3>2 DEF Fetch
      <4> HIDE DEF K
      <4> QED BY <2>3, <3>1, <4>2, <4>3, AppendProperties
    <3>3. CASE ~Exists(u)
      <4>1. main' = main
        BY <2>12, <3>3 DEF Fetch
      <4> HIDE DEF K
      <4> QED BY <2>3, <3>1, <4>1
    <3> QED BY <3>2, <3>3
  <2>13. ASSUME \/ \E u \in Accounts : LogIn(u) \/ SignUp(u) \/ FetchFails(u)
                \/ \E r \in requests : RequestFails(r)
                \/ DidRegister \/ DidFailToRegister \/ DidReceiveRegistrationToken \/ Work \/ Send
         PROVE  main' \in Seq(K) /\ UNCHANGED session
    <3>1. UNCHANGED <<main, session>>
      BY <2>13 DEF LogIn, SignUp, Submit, FetchFails, RequestFails, DidRegister,
           DidFailToRegister, DidReceiveRegistrationToken, Work, Send, app
    <3> HIDE DEF K
    <3> QED BY <2>3, <3>1
  <2> HIDE DEF K
  <2> QED
    BY <1>3, <2>6, <2>7, <2>8, <2>9, <2>10, <2>11, <2>12, <2>13 DEF Next, Deliver
<1> QED BY <1>1, <1>2, <1>3

\* The screens of a session write to a document that is there or on its way.
THEOREM SessionsHaveDocuments == Spec => []SessionHasDocument
<1>1. Init => DocumentInv
  BY DEF Init, DocumentInv
<1>2. DocumentInv => SessionHasDocument
  BY DEF DocumentInv, SessionHasDocument, ProfileGiven
<1> QED BY <1>1, <1>2, NextDocument, TypeCorrect, PTL DEF Spec

----------------------------------------------------------------------------
(* Who is signed in.                                                       *)

\* The last element of a kind in a queue has the user u.
LastIs(q, kind, u) ==
  \E i \in DOMAIN q : /\ q[i].kind = kind /\ q[i].uid = u
                      /\ \A j \in DOMAIN q : j > i => q[j].kind # kind

\* A queue has no element of a kind.
NoneOf(q, kind) == \A i \in DOMAIN q : q[i].kind # kind

\* Queues grow at their end and are served from their head.
LEMMA LastInSequence ==
  ASSUME NEW S, NEW q \in Seq(S), NEW kind, NEW u
  PROVE  /\ \A x \in S : x.kind = kind /\ x.uid = u => LastIs(Append(q, x), kind, u)
         /\ \A x \in S : x.kind # kind /\ LastIs(q, kind, u) => LastIs(Append(q, x), kind, u)
         /\ \A x \in S : x.kind # kind /\ NoneOf(q, kind) => NoneOf(Append(q, x), kind)
         /\ \A r \in Seq(S) : NoneOf(r, kind) /\ LastIs(q, kind, u) => LastIs(q \o r, kind, u)
         /\ \A r \in Seq(S) : NoneOf(r, kind) /\ NoneOf(q, kind) => NoneOf(q \o r, kind)
         /\ q # <<>> /\ LastIs(q, kind, u) =>
              \/ LastIs(Tail(q), kind, u)
              \/ NoneOf(Tail(q), kind) /\ Head(q).kind = kind /\ Head(q).uid = u
         /\ q # <<>> /\ NoneOf(q, kind) => NoneOf(Tail(q), kind) /\ Head(q).kind # kind
<1> DEFINE n == Len(q)
<1>0. DOMAIN q = 1..n /\ n \in Nat
  BY LenProperties
<1> HIDE DEF n
<1>1. ASSUME NEW x \in S
      PROVE  /\ DOMAIN Append(q, x) = 1..(n + 1)
             /\ \A i \in 1..n : Append(q, x)[i] = q[i]
             /\ Append(q, x)[n + 1] = x
  BY <1>0, AppendProperties, LenProperties DEF n
<1>2. ASSUME NEW x \in S, x.kind = kind, x.uid = u PROVE LastIs(Append(q, x), kind, u)
  BY <1>0, <1>1, <1>2 DEF LastIs
<1>3. ASSUME NEW x \in S, x.kind # kind, LastIs(q, kind, u) PROVE LastIs(Append(q, x), kind, u)
  <2>1. PICK i \in 1..n : /\ q[i].kind = kind /\ q[i].uid = u
                          /\ \A j \in 1..n : j > i => q[j].kind # kind
    BY <1>0, <1>3 DEF LastIs
  <2>2. i \in 1..(n + 1)
    BY <1>0
  <2>3. ASSUME NEW j \in 1..(n + 1), j > i PROVE Append(q, x)[j].kind # kind
    BY <1>0, <1>1, <1>3, <2>1, <2>3
  <2> QED BY <1>1, <2>1, <2>2, <2>3 DEF LastIs
<1>4. ASSUME NEW x \in S, x.kind # kind, NoneOf(q, kind) PROVE NoneOf(Append(q, x), kind)
  BY <1>0, <1>1, <1>4 DEF NoneOf
<1>5. ASSUME NEW r \in Seq(S), NoneOf(r, kind)
      PROVE  /\ DOMAIN (q \o r) = 1..(n + Len(r)) /\ Len(r) \in Nat
             /\ \A i \in 1..n : (q \o r)[i] = q[i]
             /\ \A i \in 1..(n + Len(r)) : i > n => (q \o r)[i].kind # kind
  <2>1. /\ DOMAIN (q \o r) = 1..(n + Len(r)) /\ Len(r) \in Nat /\ DOMAIN r = 1..Len(r)
        /\ \A i \in 1..n : (q \o r)[i] = q[i]
        /\ \A i \in 1..(n + Len(r)) : i > n => (q \o r)[i] = r[i - n]
    BY <1>0, ConcatProperties, LenProperties DEF n
  <2>2. ASSUME NEW i \in 1..(n + Len(r)), i > n PROVE (q \o r)[i].kind # kind
    <3>1. i - n \in DOMAIN r
      BY <1>0, <2>1, <2>2
    <3> QED BY <1>5, <2>1, <2>2, <3>1 DEF NoneOf
  <2> QED BY <2>1, <2>2
<1>6. ASSUME NEW r \in Seq(S), NoneOf(r, kind), LastIs(q, kind, u) PROVE LastIs(q \o r, kind, u)
  <2>1. PICK i \in 1..n : /\ q[i].kind = kind /\ q[i].uid = u
                          /\ \A j \in 1..n : j > i => q[j].kind # kind
    BY <1>0, <1>6 DEF LastIs
  <2>2. i \in DOMAIN (q \o r)
    BY <1>0, <1>5, <1>6
  <2>3. ASSUME NEW j \in DOMAIN (q \o r), j > i PROVE (q \o r)[j].kind # kind
    BY <1>0, <1>5, <1>6, <2>1, <2>3
  <2> QED BY <1>5, <1>6, <2>1, <2>2, <2>3 DEF LastIs
<1>7. ASSUME NEW r \in Seq(S), NoneOf(r, kind), NoneOf(q, kind) PROVE NoneOf(q \o r, kind)
  BY <1>0, <1>5, <1>7 DEF NoneOf
<1>8. ASSUME q # <<>>
      PROVE  /\ Head(q) = q[1] /\ n > 0 /\ DOMAIN Tail(q) = 1..(n - 1)
             /\ \A i \in 1..(n - 1) : Tail(q)[i] = q[i + 1]
  BY <1>0, <1>8, HeadTailProperties, LenProperties, EmptySeq DEF n
<1>9. ASSUME q # <<>>, LastIs(q, kind, u)
      PROVE  \/ LastIs(Tail(q), kind, u)
             \/ NoneOf(Tail(q), kind) /\ Head(q).kind = kind /\ Head(q).uid = u
  <2>1. PICK i \in 1..n : /\ q[i].kind = kind /\ q[i].uid = u
                          /\ \A j \in 1..n : j > i => q[j].kind # kind
    BY <1>0, <1>9 DEF LastIs
  <2>2. ASSUME NEW j \in 1..(n - 1), j + 1 > i PROVE Tail(q)[j].kind # kind
    BY <1>0, <1>8, <1>9, <2>1, <2>2
  <2>3. CASE i = 1
    <3>1. NoneOf(Tail(q), kind)
      BY <1>0, <1>8, <1>9, <2>2, <2>3 DEF NoneOf
    <3> QED BY <1>8, <1>9, <2>1, <2>3, <3>1
  <2>4. CASE i # 1
    <3>1. i - 1 \in 1..(n - 1) /\ Tail(q)[i - 1] = q[i]
      BY <1>0, <1>8, <1>9, <2>4
    <3>2. \A j \in 1..(n - 1) : j > i - 1 => Tail(q)[j].kind # kind
      BY <1>0, <2>2
    <3> QED BY <1>8, <1>9, <2>1, <3>1, <3>2 DEF LastIs
  <2> QED BY <2>3, <2>4
<1>10. ASSUME q # <<>>, NoneOf(q, kind) PROVE NoneOf(Tail(q), kind) /\ Head(q).kind # kind
  BY <1>0, <1>8, <1>10 DEF NoneOf
<1> QED BY <1>2, <1>3, <1>4, <1>6, <1>7, <1>9, <1>10

\* The first call of a listener is waiting.
Awaits(q, l) == \E i \in DOMAIN q : q[i].kind = "first" /\ q[i].listener = l

\* A listener will be called, by a notification or for the first time.
WillBeCalled(q, l) == ~NoneOf(q, "changed") \/ Awaits(q, l)

\* What the worker has been told, or will be by the items on their way to it.
ItemsTell(items, worker, u) ==
  LastIs(items, "user", u) \/ (NoneOf(items, "user") /\ worker = u)

\* The worker of Firestore hears of u in the end.
WorkerHears(callbacks, items, worker, u) ==
  \/ LastIs(callbacks, "changed", u)
  \/ NoneOf(callbacks, "changed") /\ ItemsTell(items, worker, u)

\* Every listener was last called with u, or will be called again.
ListenersHear(callbacks, called, u) ==
  \A l \in DOMAIN called : called[l] = u \/ WillBeCalled(callbacks, l)

\* UsersAgree with the queues in it: whatever is on its way ends with currentUser. A process
\* that ends takes its queues with it.
UsersInv ==
  /\ WorkerHears(main, work, workerUser, current)
  /\ ListenersHear(main, listeners, current)
  /\ ~running => main = <<>> /\ work = <<>> /\ current = Nil /\ workerUser = Nil

\* The parts of UsersInv in the next state.
LEMMA UsersNext ==
  UsersInv' <=> /\ WorkerHears(main', work', workerUser', current')
                /\ ListenersHear(main', listeners', current')
                /\ ~running' => main' = <<>> /\ work' = <<>> /\ current' = Nil /\ workerUser' = Nil
BY DEF UsersInv, WorkerHears, ListenersHear, ItemsTell, WillBeCalled, Awaits, LastIs, NoneOf

\* Callbacks that are not notifications change nothing, and the first of them may be served
\* if it is not a first call.
LEMMA CallbacksHear ==
  ASSUME NEW q \in Seq(Callback), NEW l
  PROVE  /\ \A x \in Callback : WillBeCalled(q, l) => WillBeCalled(Append(q, x), l)
         /\ \A x \in Callback : x.kind = "changed" => WillBeCalled(Append(q, x), l)
         /\ \A x \in Callback : x.kind = "first" /\ x.listener = l => WillBeCalled(Append(q, x), l)
         /\ q # <<>> /\ Head(q).kind # "changed" /\ WillBeCalled(q, l) =>
              WillBeCalled(Tail(q), l) \/ (Head(q).kind = "first" /\ Head(q).listener = l)
<1> DEFINE n == Len(q)
<1>0. DOMAIN q = 1..n /\ n \in Nat
  BY LenProperties
<1>1. ASSUME NEW x \in Callback
      PROVE  /\ DOMAIN Append(q, x) = 1..(n + 1)
             /\ \A i \in 1..n : Append(q, x)[i] = q[i]
             /\ Append(q, x)[n + 1] = x
  BY <1>0, AppendProperties, LenProperties
<1>2. ASSUME q # <<>>
      PROVE  /\ Head(q) = q[1] /\ n > 0 /\ DOMAIN Tail(q) = 1..(n - 1)
             /\ \A i \in 1..(n - 1) : Tail(q)[i] = q[i + 1]
  BY <1>0, <1>2, HeadTailProperties, LenProperties, EmptySeq
<1> HIDE DEF n
<1>3. ASSUME NEW x \in Callback, WillBeCalled(q, l) PROVE WillBeCalled(Append(q, x), l)
  <2>1. PICK i \in 1..n : q[i].kind = "changed" \/ (q[i].kind = "first" /\ q[i].listener = l)
    BY <1>0, <1>3 DEF WillBeCalled, NoneOf, Awaits
  <2>2. i \in DOMAIN Append(q, x) /\ Append(q, x)[i] = q[i]
    BY <1>0, <1>1
  <2> QED BY <2>1, <2>2 DEF WillBeCalled, NoneOf, Awaits
<1>4. ASSUME NEW x \in Callback, x.kind = "changed" \/ (x.kind = "first" /\ x.listener = l)
      PROVE  WillBeCalled(Append(q, x), l)
  <2>1. n + 1 \in DOMAIN Append(q, x) /\ Append(q, x)[n + 1] = x
    BY <1>0, <1>1
  <2> QED BY <1>4, <2>1 DEF WillBeCalled, NoneOf, Awaits
<1>5. ASSUME q # <<>>, Head(q).kind # "changed", WillBeCalled(q, l)
      PROVE  WillBeCalled(Tail(q), l) \/ (Head(q).kind = "first" /\ Head(q).listener = l)
  <2>1. PICK i \in 1..n : q[i].kind = "changed" \/ (q[i].kind = "first" /\ q[i].listener = l)
    BY <1>0, <1>5 DEF WillBeCalled, NoneOf, Awaits
  <2>2. CASE i = 1
    BY <1>2, <1>5, <2>1, <2>2
  <2>3. CASE i # 1
    <3>1. i - 1 \in DOMAIN Tail(q) /\ Tail(q)[i - 1] = q[i]
      BY <1>0, <1>2, <1>5, <2>3
    <3> QED BY <2>1, <3>1 DEF WillBeCalled, NoneOf, Awaits
  <2> QED BY <2>2, <2>3
<1> QED BY <1>3, <1>4, <1>5

\* A screen that appears changes nothing of what will be heard.
LEMMA AppearsHears ==
  ASSUME TypeOK, NEW q \in Seq(Callback), NEW items, NEW worker, NEW u, ScreenAppears(q),
         WorkerHears(q, items, worker, u), ListenersHear(q, listeners, u)
  PROVE  WorkerHears(main', items, worker, u) /\ ListenersHear(main', listeners', u)
<1>1. CASE main' = q /\ UNCHANGED listeners
  BY <1>1
<1>2. CASE Listen(listeners, q)
  <2> DEFINE n == Len(listeners)
             x == [kind |-> "first", listener |-> n + 1]
  <2>1. /\ n \in Nat /\ n < MaxListeners /\ DOMAIN listeners = 1..n
        /\ listeners' = Append(listeners, Never) /\ main' = Append(q, x)
    BY <1>2, LenProperties DEF Listen, TypeOK
  <2>2. x \in Callback /\ x.kind = "first" /\ x.listener = n + 1
    BY <2>1, BoundsAssumption, CallbacksType
  <2>3. /\ DOMAIN listeners' = 1..(n + 1)
        /\ \A i \in 1..n : listeners'[i] = listeners[i]
    BY <2>1, AppendProperties, LenProperties DEF TypeOK
  <2> HIDE DEF n, x
  <2>4. WorkerHears(main', items, worker, u)
    BY <2>1, <2>2, LastInSequence DEF WorkerHears
  <2>5. ASSUME NEW l \in DOMAIN listeners' PROVE listeners'[l] = u \/ WillBeCalled(main', l)
    <3>1. CASE l = n + 1
      BY <2>1, <2>2, <3>1, CallbacksHear
    <3>2. CASE l # n + 1
      <4>1. l \in DOMAIN listeners /\ listeners'[l] = listeners[l]
        BY <2>1, <2>3, <3>2
      <4>2. WillBeCalled(q, l) => WillBeCalled(main', l)
        BY <2>1, <2>2, CallbacksHear
      <4> QED BY <4>1, <4>2 DEF ListenersHear
    <3> QED BY <3>1, <3>2
  <2> QED BY <2>4, <2>5 DEF ListenersHear
<1> QED BY <1>1, <1>2 DEF ScreenAppears

\* A callback behind the others, and a write among the items of the worker.
LEMMA QuietHears ==
  ASSUME TypeOK, UsersInv
  PROVE  /\ \A x \in Callback : x.kind # "changed" =>
              /\ WorkerHears(Append(main, x), work, workerUser, current)
              /\ ListenersHear(Append(main, x), listeners, current)
         /\ \A x \in Item : x.kind # "user" =>
              WorkerHears(main, Append(work, x), workerUser, current)
<1>1. main \in Seq(Callback) /\ work \in Seq(Item)
  BY DEF TypeOK
<1>2. ASSUME NEW x \in Callback, x.kind # "changed"
      PROVE  /\ WorkerHears(Append(main, x), work, workerUser, current)
             /\ ListenersHear(Append(main, x), listeners, current)
  <2>1. WorkerHears(Append(main, x), work, workerUser, current)
    BY <1>1, <1>2, LastInSequence DEF UsersInv, WorkerHears
  <2>2. ListenersHear(Append(main, x), listeners, current)
    BY <1>1, <1>2, CallbacksHear DEF UsersInv, ListenersHear
  <2> QED BY <2>1, <2>2
<1>3. ASSUME NEW x \in Item, x.kind # "user"
      PROVE  WorkerHears(main, Append(work, x), workerUser, current)
  BY <1>1, <1>3, LastInSequence DEF UsersInv, WorkerHears, ItemsTell
<1> QED BY <1>2, <1>3

\* A notification of the current user is heard by all.
LEMMA PostedHears ==
  ASSUME NEW q \in Seq(Callback), NEW items, NEW worker, NEW called, NEW u \in MaybeAccount
  PROVE  /\ WorkerHears(Posted(q, u), items, worker, u)
         /\ ListenersHear(Posted(q, u), called, u)
<1> DEFINE x == [kind |-> "changed", uid |-> u]
<1>1. x \in Callback /\ x.kind = "changed" /\ x.uid = u /\ Posted(q, u) = Append(q, x)
  BY CallbacksType DEF Posted
<1> HIDE DEF x
<1>2. WorkerHears(Posted(q, u), items, worker, u)
  <2>1. LastIs(Append(q, x), "changed", u)
    BY <1>1, LastInSequence
  <2> QED BY <1>1, <2>1 DEF WorkerHears
<1>3. ListenersHear(Posted(q, u), called, u)
  <2>1. \A l : WillBeCalled(Append(q, x), l)
    BY <1>1, CallbacksHear
  <2> QED BY <1>1, <2>1 DEF ListenersHear
<1> QED BY <1>2, <1>3

\* Every step keeps it.
LEMMA NextUsers == TypeOK /\ UsersInv /\ [Next]_vars => UsersInv'
<1> SUFFICES ASSUME TypeOK, UsersInv, [Next]_vars PROVE UsersInv'
  OBVIOUS
<1>0. /\ main \in Seq(Callback) /\ work \in Seq(Item) /\ current \in MaybeAccount
      /\ main # <<>> => Head(main) \in Callback /\ Tail(main) \in Seq(Callback)
      /\ work # <<>> => Head(work) \in Item /\ Tail(work) \in Seq(Item)
  BY HeadTailProperties DEF TypeOK
<1>a. Next /\ ~Die => running'
  BY OnlyDeathEnds
\* A step that leaves the users and the queues alone.
<1>b. ASSUME UNCHANGED <<main, listeners, current, work, workerUser, running>> PROVE UsersInv'
  BY <1>b, UsersNext DEF UsersInv
\* Serving a callback that is not a notification.
<1>c. ASSUME main # <<>>, Head(main).kind # "changed"
      PROVE  /\ WorkerHears(Tail(main), work, workerUser, current)
             /\ \A l \in DOMAIN listeners :
                  \/ listeners[l] = current \/ WillBeCalled(Tail(main), l)
                  \/ Head(main).kind = "first" /\ Head(main).listener = l
  <2>1. WorkerHears(Tail(main), work, workerUser, current)
    BY <1>0, <1>c, LastInSequence DEF UsersInv, WorkerHears
  <2>2. ASSUME NEW l \in DOMAIN listeners
        PROVE  \/ listeners[l] = current \/ WillBeCalled(Tail(main), l)
               \/ Head(main).kind = "first" /\ Head(main).listener = l
    BY <1>0, <1>c, CallbacksHear DEF UsersInv, ListenersHear
  <2> QED BY <2>1, <2>2
<1>1. CASE Launch
  <2>1. main = <<>> /\ work = <<>> /\ current = Nil /\ workerUser = Nil /\ work' = work
    BY <1>1 DEF Launch, UsersInv
  <2>2. PICK callbacks \in {<<>>, Posted(<<>>, keychain)} :
          /\ Listen(<<>>, callbacks)
          /\ callbacks = <<>> => UNCHANGED <<current, workerUser>>
          /\ callbacks # <<>> => callbacks = Posted(<<>>, keychain) /\ current' = keychain
    BY <1>1 DEF Launch, Posted
  <2> DEFINE x == [kind |-> "first", listener |-> 1]
  <2>3. main' = Append(callbacks, x) /\ listeners' = <<Never>>
    BY <2>2 DEF Listen
  <2>4. x \in Callback /\ x.kind = "first" /\ x.listener = 1
    BY BoundsAssumption, CallbacksType
  <2>5. callbacks \in Seq(Callback)
    <3>1. keychain \in MaybeAccount
      BY DEF TypeOK
    <3>2. <<>> \in Seq(Callback)
      BY EmptySeq
    <3>3. Posted(<<>>, keychain) \in Seq(Callback)
      BY <3>1, <3>2, PostedType
    <3> QED BY <2>2, <3>2, <3>3
  <2> HIDE DEF x
  <2>6. ListenersHear(main', listeners', current')
    <3>1. WillBeCalled(main', 1)
      BY <2>3, <2>4, <2>5, CallbacksHear
    <3> QED BY <2>3, <3>1 DEF ListenersHear
  <2>7. WorkerHears(main', work', workerUser', current')
    <3>1. CASE callbacks = <<>>
      <4>1. NoneOf(<<>>, "changed") /\ NoneOf(<<>>, "user")
        BY DEF NoneOf
      <4>2. NoneOf(main', "changed")
        BY <2>3, <2>4, <2>5, <3>1, <4>1, LastInSequence
      <4> QED BY <2>1, <2>2, <3>1, <4>1, <4>2 DEF WorkerHears, ItemsTell
    <3>2. CASE callbacks # <<>>
      <4>a. keychain \in MaybeAccount
        BY DEF TypeOK
      <4>b. <<>> \in Seq(Callback)
        BY EmptySeq
      <4>c. WorkerHears(Posted(<<>>, keychain), work', workerUser', keychain)
        BY <4>a, <4>b, PostedHears
      <4>1. WorkerHears(callbacks, work', workerUser', current')
        BY <2>2, <3>2, <4>c
      <4> QED BY <2>3, <2>4, <2>5, <4>1, LastInSequence DEF WorkerHears
    <3> QED BY <3>1, <3>2
  <2>8. running'
    BY <1>1 DEF Launch
  <2> QED BY <2>6, <2>7, <2>8, UsersNext
<1>2. CASE Die
  <2>1. main' = <<>> /\ work' = <<>> /\ listeners' = <<>> /\ current' = Nil /\ workerUser' = Nil
    BY <1>2 DEF Die
  <2>2. NoneOf(<<>>, "changed") /\ NoneOf(<<>>, "user")
    BY DEF NoneOf
  <2> QED BY <2>1, <2>2, UsersNext DEF WorkerHears, ItemsTell, ListenersHear
<1>3. ASSUME NEW r \in requests, Authenticate(r) PROVE UsersInv'
  <2>1. r.uid \in MaybeAccount
    BY DEF TypeOK, Request, MaybeAccount
  <2> DEFINE posted == Posted(main, r.uid)
             x == [kind |-> "signedUp"]
  <2>2. /\ posted \in Seq(Callback)
        /\ WorkerHears(posted, work, workerUser, r.uid)
        /\ ListenersHear(posted, listeners, r.uid)
    BY <1>0, <2>1, PostedType, PostedHears
  <2>3. main' = posted \o (IF r.kind = "signUp" THEN <<x>> ELSE <<>>)
        /\ current' = r.uid /\ UNCHANGED <<listeners, work, workerUser>>
    BY <1>3 DEF Authenticate
  <2>4. x \in Callback /\ x.kind # "changed"
    BY CallbacksType
  <2> HIDE DEF posted, x
  <2>5. main' = posted \/ main' = Append(posted, x)
    BY <2>2, <2>3
  <2>6. /\ WorkerHears(Append(posted, x), work, workerUser, r.uid)
        /\ ListenersHear(Append(posted, x), listeners, r.uid)
    <3>1. WorkerHears(Append(posted, x), work, workerUser, r.uid)
      BY <2>2, <2>4, LastInSequence DEF WorkerHears
    <3>2. ListenersHear(Append(posted, x), listeners, r.uid)
      BY <2>2, <2>4, CallbacksHear DEF ListenersHear
    <3> QED BY <3>1, <3>2
  <2>7. running'
    BY <1>3 DEF Authenticate
  <2> QED BY <2>2, <2>3, <2>5, <2>6, <2>7, UsersNext
<1>4. CASE LogOut
  <2> DEFINE callbacks == IF current = Nil THEN main ELSE Posted(main, Nil)
  <2>1. /\ ScreenAppears(callbacks) /\ current' = Nil /\ UNCHANGED <<work, workerUser>>
        /\ running'
    BY <1>4 DEF LogOut, Tap
  <2>2. /\ callbacks \in Seq(Callback)
        /\ WorkerHears(callbacks, work, workerUser, Nil)
        /\ ListenersHear(callbacks, listeners, Nil)
    BY <1>0, PostedType, PostedHears DEF UsersInv, MaybeAccount
  <2> HIDE DEF callbacks
  <2>3. WorkerHears(main', work, workerUser, Nil) /\ ListenersHear(main', listeners', Nil)
    BY <2>1, <2>2, AppearsHears
  <2> QED BY <2>1, <2>3, UsersNext
<1>5. CASE DeliverFirst
  <2> DEFINE l == Head(main).listener
             gets == Gets({k \in {l} : Called(k)})
  <2>1. /\ main # <<>> /\ Head(main).kind = "first" /\ main' = Tail(main)
        /\ work' = work \o gets /\ listeners' = [listeners EXCEPT ![l] = current]
        /\ UNCHANGED <<current, workerUser, running>> /\ running
    BY <1>5 DEF DeliverFirst, Serves
  <2>2. gets \in Seq(Item) /\ NoneOf(gets, "user")
    BY ListenersGet DEF NoneOf
  <2> HIDE DEF gets
  <2>3. WorkerHears(main', work', workerUser', current')
    <3>1. WorkerHears(Tail(main), work, workerUser, current)
      BY <1>c, <2>1
    <3>2. ItemsTell(work, workerUser, current) => ItemsTell(work', workerUser, current)
      BY <1>0, <2>1, <2>2, LastInSequence DEF ItemsTell
    <3> QED BY <2>1, <3>1, <3>2 DEF WorkerHears
  <2>4. ListenersHear(main', listeners', current')
    <3>1. ASSUME NEW k \in DOMAIN listeners' PROVE listeners'[k] = current \/ WillBeCalled(main', k)
      BY <1>c, <2>1
    <3> QED BY <2>1, <3>1 DEF ListenersHear
  <2> QED BY <2>1, <2>3, <2>4, UsersNext
<1>6. CASE DeliverChanged
  <2> DEFINE gets == Gets({l \in DOMAIN listeners : Called(l)})
             told == [kind |-> "user", uid |-> Head(main).uid]
  <2>1. /\ main # <<>> /\ Head(main).kind = "changed" /\ main' = Tail(main)
        /\ work' = Append(work, told) \o gets
        /\ listeners' = [l \in DOMAIN listeners |-> current]
        /\ UNCHANGED <<current, workerUser, running>> /\ running
    BY <1>6 DEF DeliverChanged, Serves
  <2>2. gets \in Seq(Item) /\ NoneOf(gets, "user")
    BY ListenersGet DEF NoneOf
  <2>3. told \in Item /\ told.kind = "user" /\ told.uid = Head(main).uid
    BY <1>0, <2>1 DEF Callback, Item
  <2> HIDE DEF gets, told
  <2>4. \/ LastIs(main', "changed", current)
        \/ NoneOf(main', "changed") /\ told.uid = current
    BY <1>0, <2>1, <2>3, LastInSequence DEF UsersInv, WorkerHears
  <2>5. told.uid = current => ItemsTell(work', workerUser', current)
    <3>1. Append(work, told) \in Seq(Item)
      BY <1>0, <2>3, AppendProperties
    <3>2. told.uid = current => LastIs(Append(work, told), "user", current)
      BY <1>0, <2>3, LastInSequence
    <3> QED BY <2>1, <2>2, <3>1, <3>2, LastInSequence DEF ItemsTell
  <2>6. WorkerHears(main', work', workerUser', current')
    BY <2>1, <2>4, <2>5 DEF WorkerHears
  <2>7. ListenersHear(main', listeners', current')
    BY <2>1 DEF ListenersHear
  <2> QED BY <2>1, <2>6, <2>7, UsersNext
<1>7. CASE DeliverSignedUp
  <2> DEFINE w == [kind |-> "set", uid |-> current, token |-> 0]
  <2>1. /\ main # <<>> /\ Head(main).kind = "signedUp" /\ main' = Tail(main)
        /\ work' = Append(work, w)
        /\ UNCHANGED <<current, workerUser, running, listeners>> /\ running
    BY <1>7 DEF DeliverSignedUp, Serves
  <2>2. w \in Item /\ w.kind # "user"
    BY <1>7, BoundsAssumption DEF DeliverSignedUp, TypeOK, MaybeAccount, Item, Write
  <2> HIDE DEF w
  <2>3. WorkerHears(main', work', workerUser', current')
    <3>1. WorkerHears(Tail(main), work, workerUser, current)
      BY <1>c, <2>1
    <3>2. ItemsTell(work, workerUser, current) => ItemsTell(work', workerUser, current)
      BY <1>0, <2>1, <2>2, LastInSequence DEF ItemsTell
    <3> QED BY <2>1, <3>1, <3>2 DEF WorkerHears
  <2>4. ListenersHear(main', listeners', current')
    BY <1>c, <2>1 DEF ListenersHear
  <2> QED BY <2>1, <2>3, <2>4, UsersNext
<1>8. CASE DeliverDocument
  <2>1. /\ main # <<>> /\ Head(main).kind = "document" /\ ScreenAppears(Tail(main))
        /\ UNCHANGED <<current, workerUser, running, work>> /\ running
    BY <1>8 DEF DeliverDocument, Serves, ScreenAppears
  <2>2. WorkerHears(Tail(main), work, workerUser, current) /\ ListenersHear(Tail(main), listeners, current)
    BY <1>c, <2>1 DEF ListenersHear
  <2>3. WorkerHears(main', work, workerUser, current) /\ ListenersHear(main', listeners', current)
    BY <1>0, <2>1, <2>2, AppearsHears
  <2> QED BY <2>1, <2>3, UsersNext
<1>9. ASSUME NEW u \in Accounts, Fetch(u) PROVE UsersInv'
  <2> DEFINE x == [kind |-> "document", uid |-> u]
  <2>1. /\ main' = main \/ main' = Append(main, x)
        /\ UNCHANGED <<current, workerUser, running, work, listeners>> /\ running
    BY <1>9 DEF Fetch
  <2>2. x \in Callback /\ x.kind # "changed"
    BY CallbacksType
  <2> HIDE DEF x
  <2>3. WorkerHears(main', work, workerUser, current) /\ ListenersHear(main', listeners, current)
    BY <2>1, <2>2, QuietHears DEF UsersInv
  <2> QED BY <2>1, <2>3, UsersNext
<1>10. CASE DidRegister \/ DidReceiveRegistrationToken
  <2>1. UNCHANGED <<current, workerUser, running, main, listeners>> /\ running
    BY <1>10 DEF DidRegister, DidReceiveRegistrationToken
  <2>2. CASE work' = work
    BY <1>b, <2>1, <2>2
  <2>3. CASE work' # work
    <3>1. PICK t \in {token, token'} : work' = Append(work, [kind |-> "key", uid |-> userID, token |-> t])
      BY <1>10, <2>3 DEF DidRegister, DidReceiveRegistrationToken, WriteKey
    <3>2. t \in 0..MaxTokens /\ userID \in Accounts
      <4>1. token \in 0..MaxTokens /\ token' \in 0..MaxTokens
        BY <1>10, BoundsAssumption
           DEF DidRegister, DidReceiveRegistrationToken, TypeOK
      <4>2. userID \in Accounts
        BY <1>10, <2>3 DEF DidRegister, DidReceiveRegistrationToken, TypeOK, MaybeAccount
      <4> QED BY <4>1, <4>2
    <3> DEFINE w == [kind |-> "key", uid |-> userID, token |-> t]
    <3>3. w \in Item /\ w.kind # "user"
      BY <3>2 DEF Item, Write
    <3>4. work' = Append(work, w)
      BY <3>1
    <3> HIDE DEF w
    <3>5. WorkerHears(main, work', workerUser, current)
      BY <3>3, <3>4, QuietHears
    <3> QED BY <2>1, <3>5, UsersNext DEF UsersInv
  <2> QED BY <2>2, <2>3
<1>11. CASE Work
  <2>1. /\ work # <<>> /\ work' = Tail(work)
        /\ UNCHANGED <<current, running, main, listeners>> /\ running
    BY <1>11 DEF Work
  <2>2. ItemsTell(work, workerUser, current) => ItemsTell(work', workerUser', current)
    <3>1. CASE Head(work).kind = "user"
      <4>1. workerUser' = Head(work).uid
        BY <1>11, <3>1 DEF Work
      <4> QED BY <1>0, <2>1, <3>1, <4>1, LastInSequence DEF ItemsTell
    <3>2. CASE Head(work).kind # "user"
      <4>1. workerUser' = workerUser
        BY <1>11, <3>2 DEF Work
      <4> QED BY <1>0, <2>1, <3>2, <4>1, LastInSequence DEF ItemsTell
    <3> QED BY <3>1, <3>2
  <2>3. WorkerHears(main', work', workerUser', current')
    BY <2>1, <2>2 DEF UsersInv, WorkerHears
  <2> QED BY <2>1, <2>3, UsersNext DEF UsersInv
<1>12. ASSUME \/ \E u \in Accounts : LogIn(u) \/ SignUp(u) \/ FetchFails(u)
              \/ \E r \in requests : RequestFails(r)
              \/ DidFailToRegister \/ Send \/ UNCHANGED vars
       PROVE  UsersInv'
  <2>1. UNCHANGED <<main, listeners, current, work, workerUser, running>>
    BY <1>12 DEF LogIn, SignUp, Submit, FetchFails, RequestFails, DidFailToRegister, Send, vars
  <2> QED BY <1>b, <2>1
<1> QED
  BY <1>1, <1>2, <1>3, <1>4, <1>5, <1>6, <1>7, <1>8, <1>9, <1>10, <1>11, <1>12
     DEF Next, Deliver

\* Firestore and every listener of the app come to work for the user that Auth has, however
\* taps, answers and notifications follow each other.
THEOREM UsersComeToAgree == Spec => []UsersAgree
<1>1. Init => UsersInv
  <2>1. NoneOf(<<>>, "changed") /\ NoneOf(<<>>, "user")
    BY DEF NoneOf
  <2> QED BY <2>1 DEF Init, UsersInv, WorkerHears, ItemsTell, ListenersHear
<1>2. UsersInv => UsersAgree
  <2>1. /\ \A u : ~LastIs(<<>>, "changed", u) /\ ~LastIs(<<>>, "user", u)
        /\ \A l : ~WillBeCalled(<<>>, l)
    BY DEF LastIs, WillBeCalled, NoneOf, Awaits
  <2> QED BY <2>1 DEF UsersInv, UsersAgree, WorkerHears, ItemsTell, ListenersHear
<1> QED BY <1>1, <1>2, NextUsers, TypeCorrect, PTL DEF Spec

=============================================================================
