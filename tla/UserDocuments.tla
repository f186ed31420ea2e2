---------------------------- MODULE UserDocuments ----------------------------
(***************************************************************************)
(* The documents of the Firestore collection "users" and the writes that   *)
(* the app sends to them.                                                  *)
(*                                                                         *)
(* A document keeps the three fields the exchange is about: diningHall     *)
(* ("" when nothing is requested), currentlyRequesting and pairings, an    *)
(* array of uids whose order matters because the screens use pairings[0].  *)
(* The profile fields written once by SignUp are left out.                 *)
(*                                                                         *)
(* A write is one call of updateData, or of setData with merge: true.      *)
(* Every field of the write is a set with at most one element: {} when the *)
(* call does not mention the field, {v} when it does.                      *)
(***************************************************************************)
EXTENDS Naturals, SequencesExt

CONSTANTS
  Users,    \* the uids of the collection "users"
  Halls,    \* the texts a user may type as a dining hall
  NoHall,   \* the empty text ""
  Nil       \* nil: a document that is not cached, a session that is not set

\* FreshmanView.makeRequest lets no empty text through.
ASSUME HallsAssumption == NoHall \notin Halls

Doc == [diningHall : Halls \cup {NoHall},
        currentlyRequesting : BOOLEAN,
        pairings : Seq(Users)]

\* nil is not a document.
ASSUME NilIsNoDocument == Nil \notin Doc

MaybeDoc == Doc \cup {Nil}

Write == [uid : Users,
          diningHall : SUBSET (Halls \cup {NoHall}),
          currentlyRequesting : SUBSET BOOLEAN,
          arrayUnion : SUBSET Users,
          arrayRemove : SUBSET Users]

\* The document that SignUp.signUp creates.
NewDoc == [diningHall |-> NoHall, currentlyRequesting |-> FALSE, pairings |-> <<>>]

----------------------------------------------------------------------------
(* The calls of FirebaseSession, one operator per shape of the argument.   *)

\* updateData(["pairings": FieldValue.arrayUnion([other]), "diningHall": hall])
PairWith(uid, other, hall) ==
  [uid |-> uid, diningHall |-> {hall}, currentlyRequesting |-> {},
   arrayUnion |-> {other}, arrayRemove |-> {}]

\* updateData(["pairings": FieldValue.arrayUnion([other])])
AddPairing(uid, other) ==
  [uid |-> uid, diningHall |-> {}, currentlyRequesting |-> {},
   arrayUnion |-> {other}, arrayRemove |-> {}]

\* updateData(["pairings": FieldValue.arrayRemove([other])])
DropPairing(uid, other) ==
  [uid |-> uid, diningHall |-> {}, currentlyRequesting |-> {},
   arrayUnion |-> {}, arrayRemove |-> {other}]

\* updateData(["currentlyRequesting": listed])
SetRequesting(uid, listed) ==
  [uid |-> uid, diningHall |-> {}, currentlyRequesting |-> {listed},
   arrayUnion |-> {}, arrayRemove |-> {}]

\* setData(["diningHall": hall, "currentlyRequesting": listed], merge: true)
SetRequest(uid, hall, listed) ==
  [uid |-> uid, diningHall |-> {hall}, currentlyRequesting |-> {listed},
   arrayUnion |-> {}, arrayRemove |-> {}]

----------------------------------------------------------------------------
(* What a write does to a document.                                        *)

\* The value of a field after a write that assigns it, or does not.
Assigned(given, old) == IF given = {} THEN old ELSE CHOOSE v \in given : TRUE

\* Mutant of Transformed: arrayUnion appends its argument, not the argument's element.
TransformedNested(array, union, remove) ==
  IF union # {} THEN Append(array, union) ELSE array

\* Mutant of Transformed: arrayUnion appends whether or not the element is there.
TransformedAppend(array, union, remove) ==
  IF union # {} THEN Append(array, CHOOSE u \in union : TRUE)
  ELSE IF remove \cap ToSet(array) # {}
       THEN RemoveFirst(array, CHOOSE u \in remove : TRUE) ELSE array

\* An array after the transforms of a write: arrayUnion appends an element that
\* is not there, arrayRemove erases the first occurrence.
Transformed(array, union, remove) ==
  LET missing == union \ ToSet(array)
      present == remove \cap ToSet(array)
  IN  IF missing # {} THEN Append(array, CHOOSE u \in missing : TRUE)
      ELSE IF present # {} THEN RemoveFirst(array, CHOOSE u \in present : TRUE)
      ELSE array

Patched(doc, w) ==
  [diningHall |-> Assigned(w.diningHall, doc.diningHall),
   currentlyRequesting |-> Assigned(w.currentlyRequesting, doc.currentlyRequesting),
   pairings |-> Transformed(doc.pairings, w.arrayUnion, w.arrayRemove)]

\* A write on a collection. updateData requires that its document exists: it leaves a
\* document alone that the device does not hold. (setData with merge would create it,
\* but is only sent to the account's own document, which every session was read from.)
Apply(w, collection) ==
  [collection EXCEPT ![w.uid] = IF @ = Nil THEN Nil ELSE Patched(@, w)]

\* The writes of a queue on a collection, in order.
Overlay(writes, collection) ==
  LET after[i \in 0..Len(writes)] ==
        IF i = 0 THEN collection ELSE Apply(writes[i], after[i-1])
  IN  after[Len(writes)]

=============================================================================
