------------------------ MODULE ProfilePhoto_proofs ------------------------
(* A client that confirms each key once never loses its photo, for any number *)
(* of keys and requests, whatever they race and wherever they fail.          *)
EXTENDS ProfilePhoto, TLAPS

\* No photo, no object and no request satisfies the inductive invariant.
LEMMA InitIInv == Init => IInv
BY NoKeyAssumption DEF Init, IInv, TypeOK, PhotoIsPresent, PendingKeysAreOwn, Pending,
   KnownKeys, ReapsOldKeys, Idle, Request

USE DEF Goto, Idle, Pending

\* The bookkeeping of a step that only gives a request its next record.
LEMMA Bookkeeping ==
  ASSUME TypeOK, NEW r \in Reqs, NEW m \in Request, Goto(r, m)
  PROVE  /\ req' \in [Reqs -> Request]
         /\ req'[r] = m
         /\ \A q \in Reqs : q # r => req'[q] = req[q]
BY DEF TypeOK

\* Handing out an upload URL reserves a key and stores nothing.
LEMMA PresignKeeps == ASSUME IInv, NEW k \in Keys, Presign(k) PROVE IInv'
BY DEF Presign, IInv, TypeOK, PhotoIsPresent, PendingKeysAreOwn, KnownKeys, ReapsOldKeys

\* The client storing its object can only make a photo present.
LEMMA UploadKeeps == ASSUME IInv, NEW k \in Keys, Upload(k) PROVE IInv'
BY DEF Upload, IInv, TypeOK, PhotoIsPresent, PendingKeysAreOwn, KnownKeys, ReapsOldKeys

\* A key no request has settled is nobody's, so that a confirm has it alone.
LEMMA ConfirmKeeps ==
  ASSUME IInv, Retries = FALSE, NEW r \in Reqs, NEW k \in Keys, Confirm(r, k) PROVE IInv'
<1> DEFINE m == [pc |-> "read", key |-> k, prev |-> NoKey]
<1>1. m \in Request /\ Goto(r, m) BY DEF Confirm, Request
<1>2. /\ req' \in [Reqs -> Request] /\ req'[r] = m
      /\ \A q \in Reqs : q # r => req'[q] = req[q]
  BY <1>1, Bookkeeping DEF IInv
<1>3. k \notin settled /\ k \in bucket /\ settled' = settled \cup {k} /\ k # NoKey
  BY NoKeyAssumption DEF Confirm
<1>4. TypeOK' BY <1>2 DEF Confirm, IInv, TypeOK
<1>5. PhotoIsPresent' BY DEF Confirm, IInv, PhotoIsPresent
<1>6. PendingKeysAreOwn'
  <2>1. k # photo /\ \A q \in Reqs : req'[q].prev # k
    BY <1>2, <1>3 DEF IInv, KnownKeys
  <2>2. \A q \in Reqs : Pending(q) => req[q].key # k
    BY <1>3 DEF IInv, PendingKeysAreOwn
  <2>3. UNCHANGED <<photo, bucket>> BY DEF Confirm
  <2> QED BY <1>2, <1>3, <2>1, <2>2, <2>3, NoKeyAssumption DEF IInv, TypeOK, PendingKeysAreOwn
<1>7. KnownKeys' BY <1>2, <1>3 DEF Confirm, IInv, KnownKeys
<1>8. ReapsOldKeys' BY <1>2 DEF Confirm, IInv, ReapsOldKeys
<1> QED BY <1>4, <1>5, <1>6, <1>7, <1>8 DEF IInv

\* A social sign-in writes no photo before its import starts.
LEMMA SignInKeeps == ASSUME IInv, NEW r \in Reqs, SocialSignIn(r) PROVE IInv'
<1> DEFINE m == [pc |-> "fetch", key |-> NoKey, prev |-> NoKey]
<1>1. m \in Request /\ Goto(r, m) BY DEF SocialSignIn, Request
<1>2. /\ req' \in [Reqs -> Request] /\ req'[r] = m
      /\ \A q \in Reqs : q # r => req'[q] = req[q]
  BY <1>1, Bookkeeping DEF IInv
<1> QED
  BY <1>2, NoKeyAssumption DEF SocialSignIn, IInv, TypeOK, PhotoIsPresent, PendingKeysAreOwn,
     KnownKeys, ReapsOldKeys

\* The avatar's key was free, so that no request holds it and it was never the photo.
LEMMA StoreAvatarKeeps ==
  ASSUME IInv, NEW r \in Reqs, NEW k \in Keys, StoreAvatar(r, k) PROVE IInv'
<1> DEFINE m == [pc |-> "read", key |-> k, prev |-> NoKey]
<1>1. m \in Request /\ Goto(r, m) BY DEF StoreAvatar, IInv, TypeOK, Request
<1>2. /\ req' \in [Reqs -> Request] /\ req'[r] = m
      /\ \A q \in Reqs : q # r => req'[q] = req[q]
  BY <1>1, Bookkeeping DEF IInv
<1>3. /\ k \notin settled /\ k \notin bucket /\ k # NoKey
      /\ bucket' = bucket \cup {k} /\ settled' = settled \cup {k} /\ photo' = photo
  BY NoKeyAssumption DEF StoreAvatar, IInv, KnownKeys
<1>4. m.pc = "read" /\ m.key = k /\ m.prev = NoKey
  OBVIOUS
<1>5. TypeOK' BY <1>2, <1>3 DEF StoreAvatar, IInv, TypeOK
<1>6. PhotoIsPresent' BY <1>3 DEF IInv, PhotoIsPresent
<1>7. PendingKeysAreOwn'
  <2>1. k # photo /\ \A q \in Reqs : req'[q].prev # k
    BY <1>2, <1>3 DEF IInv, KnownKeys
  <2>2. \A q \in Reqs : Pending(q) => req[q].key # k
    BY <1>3 DEF IInv, PendingKeysAreOwn
  <2> QED BY <1>2, <1>3, <2>1, <2>2, NoKeyAssumption DEF IInv, TypeOK, PendingKeysAreOwn
<1>8. KnownKeys' BY <1>2, <1>3, <1>4 DEF StoreAvatar, IInv, TypeOK, KnownKeys
<1>9. ReapsOldKeys' BY <1>2, <1>3, <1>4 DEF IInv, ReapsOldKeys
<1> QED BY <1>5, <1>6, <1>7, <1>8, <1>9 DEF IInv

\* What a request reads as the photo is no pending key.
LEMMA ReadPreviousKeeps == ASSUME IInv, NEW r \in Reqs, ReadPrevious(r) PROVE IInv'
<1> DEFINE m == [pc |-> "set", key |-> req[r].key, prev |-> photo]
<1>1. m \in Request /\ Goto(r, m) BY DEF ReadPrevious, IInv, TypeOK, Request
<1>2. /\ req' \in [Reqs -> Request] /\ req'[r] = m
      /\ \A q \in Reqs : q # r => req'[q] = req[q]
  BY <1>1, Bookkeeping DEF IInv
<1>3. m.pc = "set" /\ m.key = req[r].key /\ m.prev = photo OBVIOUS
<1>4. Pending(r) /\ UNCHANGED <<photo, bucket, origin, settled>> BY DEF ReadPrevious
<1>5. TypeOK' BY <1>2, <1>4 DEF IInv, TypeOK
<1>6. PhotoIsPresent' BY <1>4 DEF IInv, PhotoIsPresent
<1>7. PendingKeysAreOwn' BY <1>2, <1>3, <1>4 DEF IInv, PendingKeysAreOwn
<1>8. KnownKeys' BY <1>2, <1>3, <1>4 DEF IInv, KnownKeys
<1>9. ReapsOldKeys' BY <1>2, <1>3, <1>4 DEF IInv, ReapsOldKeys
<1> QED BY <1>5, <1>6, <1>7, <1>8, <1>9 DEF IInv

\* The pointer moves to a key that is present and that nobody else will reap.
LEMMA SetPhotoKeeps == ASSUME IInv, NEW r \in Reqs, SetPhoto(r) PROVE IInv'
<1> DEFINE i == [pc |-> "idle", key |-> NoKey, prev |-> NoKey]
           m == [req[r] EXCEPT !.pc = "reap"]
           n == IF req[r].prev \in {NoKey, req[r].key} THEN i ELSE m
<1>1. n \in Request /\ Goto(r, n) BY DEF SetPhoto, IInv, TypeOK, Request
<1>2. /\ req' \in [Reqs -> Request] /\ req'[r] = n
      /\ \A q \in Reqs : q # r => req'[q] = req[q]
  BY <1>1, Bookkeeping DEF IInv
<1>3. /\ n.pc \in {"idle", "reap"} /\ n.prev \in {NoKey, req[r].prev}
      /\ n.pc = "reap" => n.prev # req[r].key
  BY DEF IInv, TypeOK, Request
<1>4. Pending(r) /\ photo' = req[r].key /\ UNCHANGED <<bucket, origin, settled>>
  BY DEF SetPhoto
<1>5. req[r].key \in bucket \cap settled /\ req[r].key # NoKey
  BY <1>4, NoKeyAssumption DEF IInv, TypeOK, PendingKeysAreOwn
<1>6. TypeOK' BY <1>2, <1>4, <1>5 DEF IInv, TypeOK
<1>7. PhotoIsPresent' BY <1>4, <1>5 DEF PhotoIsPresent
<1>8. PendingKeysAreOwn'
  <2> SUFFICES ASSUME NEW q \in Reqs, Pending(q)'
               PROVE  /\ req'[q].key \in bucket \cap settled
                      /\ req'[q].key # photo'
                      /\ \A p \in Reqs : p # q /\ Pending(p)' => req'[p].key # req'[q].key
                      /\ \A p \in Reqs : req'[p].prev # req'[q].key
    BY <1>4 DEF PendingKeysAreOwn
  <2>1. q # r /\ req'[q] = req[q] /\ Pending(q) BY <1>2, <1>3
  <2>2. req[q].key # NoKey BY <2>1, NoKeyAssumption DEF IInv, TypeOK, PendingKeysAreOwn
  <2>3. /\ req[q].key \in bucket \cap settled
        /\ \A p \in Reqs : p # q /\ Pending(p) => req[p].key # req[q].key
        /\ \A p \in Reqs : req[p].prev # req[q].key
    BY <2>1 DEF IInv, PendingKeysAreOwn
  <2> HIDE DEF n
  <2>4. \A p \in Reqs : req'[p].prev # req'[q].key
    BY <1>2, <1>3, <2>1, <2>2, <2>3
  <2>5. \A p \in Reqs : p # q /\ Pending(p)' => req'[p].key # req'[q].key
    BY <1>2, <1>3, <2>1, <2>3
  <2> QED BY <1>4, <2>1, <2>3, <2>4, <2>5
<1>9. KnownKeys' BY <1>2, <1>3, <1>4, <1>5 DEF IInv, KnownKeys
<1>10. ReapsOldKeys'
  <2>1. \A q \in Reqs : req[q].prev # req[r].key
    BY <1>4 DEF IInv, PendingKeysAreOwn
  <2> HIDE DEF n
  <2> QED BY <1>2, <1>3, <1>4, <2>1 DEF ReapsOldKeys
<1> QED BY <1>6, <1>7, <1>8, <1>9, <1>10 DEF IInv

\* What a request reaps is neither the photo nor about to be.
LEMMA ReapKeeps == ASSUME IInv, NEW r \in Reqs, Reap(r) PROVE IInv'
<1> DEFINE m == [pc |-> "idle", key |-> NoKey, prev |-> NoKey]
<1>1. m \in Request /\ Goto(r, m) BY DEF Reap, Request
<1>2. /\ req' \in [Reqs -> Request] /\ req'[r] = m
      /\ \A q \in Reqs : q # r => req'[q] = req[q]
  BY <1>1, Bookkeeping DEF IInv
<1>3. /\ bucket' = bucket \ {req[r].prev} /\ req[r].prev # photo
      /\ UNCHANGED <<photo, origin, settled>>
  BY DEF Reap, IInv, ReapsOldKeys
<1>4. TypeOK' BY <1>2, <1>3 DEF IInv, TypeOK
<1>5. PhotoIsPresent' BY <1>3 DEF IInv, PhotoIsPresent
<1>6. PendingKeysAreOwn'
  BY <1>2, <1>3, NoKeyAssumption DEF IInv, TypeOK, PendingKeysAreOwn
<1>7. KnownKeys' BY <1>2, <1>3 DEF IInv, KnownKeys
<1>8. ReapsOldKeys' BY <1>2, <1>3 DEF IInv, ReapsOldKeys
<1> QED BY <1>4, <1>5, <1>6, <1>7, <1>8 DEF IInv

\* A request that fails between two awaits leaves what it wrote so far.
LEMMA FailKeeps == ASSUME IInv, NEW r \in Reqs, Fail(r) PROVE IInv'
<1> DEFINE m == [pc |-> "idle", key |-> NoKey, prev |-> NoKey]
<1>1. m \in Request /\ Goto(r, m) BY DEF Fail, Request
<1>2. /\ req' \in [Reqs -> Request] /\ req'[r] = m
      /\ \A q \in Reqs : q # r => req'[q] = req[q]
  BY <1>1, Bookkeeping DEF IInv
<1>3. UNCHANGED <<photo, bucket, origin, settled>> BY DEF Fail
<1>4. TypeOK' BY <1>2, <1>3 DEF IInv, TypeOK
<1>5. PendingKeysAreOwn'
  BY <1>2, <1>3, NoKeyAssumption DEF IInv, TypeOK, PendingKeysAreOwn
<1>6. PhotoIsPresent' /\ KnownKeys' /\ ReapsOldKeys'
  BY <1>2, <1>3 DEF IInv, PhotoIsPresent, KnownKeys, ReapsOldKeys
<1> QED BY <1>4, <1>5, <1>6 DEF IInv

\* The bookkeeping of keys is inductive when the client confirms each key once.
THEOREM Inductive == ASSUME Retries = FALSE PROVE Spec => []IInv
<1>1. IInv /\ [Next]_vars => IInv'
  <2> SUFFICES ASSUME IInv, [Next]_vars PROVE IInv' OBVIOUS
  <2>1. CASE UNCHANGED vars
    BY <2>1 DEF vars, IInv, TypeOK, PhotoIsPresent, PendingKeysAreOwn, KnownKeys, ReapsOldKeys
  <2>2. ASSUME NEW k \in Keys, Presign(k) \/ Upload(k) PROVE IInv'
    BY <2>2, PresignKeeps, UploadKeeps
  <2>3. ASSUME NEW r \in Reqs, Work(r) \/ Fail(r) PROVE IInv'
    BY <2>3, ConfirmKeeps, SignInKeeps, StoreAvatarKeeps, ReadPreviousKeeps, SetPhotoKeeps,
       ReapKeeps, FailKeeps DEF Work
  <2> QED BY <2>1, <2>2, <2>3 DEF Next
<1> QED BY InitIInv, <1>1, PTL DEF Spec

\* confirmProfilePhotoUpload and importFromUrl never leave the row pointing at an
\* object that has been deleted.
THEOREM PhotoStays == ASSUME Retries = FALSE PROVE Spec => []PhotoIsPresent
<1>1. IInv => PhotoIsPresent BY DEF IInv
<1> QED BY Inductive, <1>1, PTL
=============================================================================
