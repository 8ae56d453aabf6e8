---------------------------- MODULE ProfilePhoto ----------------------------
(***************************************************************************)
(* The profile photo of one customer: a pointer in the customer row and the *)
(* objects of the bucket.  A photo comes from an upload the customer         *)
(* confirms or from the avatar of the customer's Google account; either way  *)
(* the request moves the pointer and then reaps the object it pointed to     *)
(* before.  The two stores share no transaction.                            *)
(***************************************************************************)
EXTENDS FiniteSets

CONSTANTS
  Keys, Reqs, NoKey,
  Retries   \* whether a client may confirm the same key again

ASSUME NoKeyAssumption == NoKey \notin Keys
ASSUME RetriesAssumption == Retries \in BOOLEAN

VARIABLES
  photo,    \* customer_account.profile_photo_key
  bucket,   \* the keys that name an object
  origin,   \* who minted a key
  settled,  \* the keys some request has confirmed or imported
  req       \* requests in flight

vars == <<photo, bucket, origin, settled, req>>

Request == [pc : {"idle", "fetch", "read", "set", "reap"},
            key : Keys \cup {NoKey}, prev : Keys \cup {NoKey}]
Idle == [pc |-> "idle", key |-> NoKey, prev |-> NoKey]
Goto(r, m) == req' = [req EXCEPT ![r] = m]

Init ==
  /\ photo = NoKey
  /\ bucket = {}
  /\ origin = [k \in Keys |-> "none"]
  /\ settled = {}
  /\ req = [r \in Reqs |-> Idle]

\* requestProfilePhotoUploadUrl mints a fresh key ...
Presign(k) ==
  /\ origin[k] = "none"
  /\ origin' = [origin EXCEPT ![k] = "upload"]
  /\ UNCHANGED <<photo, bucket, settled, req>>

\* ... under which the client PUTs its object before it confirms the key.
Upload(k) ==
  /\ origin[k] = "upload" /\ k \notin settled
  /\ bucket' = bucket \cup {k}
  /\ UNCHANGED <<photo, origin, settled, req>>

\* Mutant of Confirm: the object is not looked for.
ConfirmUnseen(r, k) ==
  /\ req[r].pc = "idle"
  /\ origin[k] = "upload"
  /\ k \in settled => Retries
  /\ settled' = settled \cup {k}
  /\ Goto(r, [pc |-> "read", key |-> k, prev |-> NoKey])
  /\ UNCHANGED <<photo, bucket, origin>>

\* confirmProfilePhotoUpload: HEAD finds the object.
Confirm(r, k) ==
  /\ req[r].pc = "idle"
  /\ origin[k] = "upload" /\ k \in bucket
  /\ k \in settled => Retries
  /\ settled' = settled \cup {k}
  /\ Goto(r, [pc |-> "read", key |-> k, prev |-> NoKey])
  /\ UNCHANGED <<photo, bucket, origin>>

\* A social sign-in looks for a photo before it fetches the avatar ...
SocialSignIn(r) ==
  /\ req[r].pc = "idle"
  /\ photo = NoKey
  /\ Goto(r, [pc |-> "fetch", key |-> NoKey, prev |-> NoKey])
  /\ UNCHANGED <<photo, bucket, origin, settled>>

\* ... and stores it under a key of its own.
StoreAvatar(r, k) ==
  /\ req[r].pc = "fetch"
  /\ origin[k] = "none"
  /\ origin' = [origin EXCEPT ![k] = "avatar"]
  /\ bucket' = bucket \cup {k}
  /\ settled' = settled \cup {k}
  /\ Goto(r, [pc |-> "read", key |-> k, prev |-> NoKey])
  /\ UNCHANGED photo

\* Mutant of ReadPrevious: the old object is deleted before the pointer moves.
ReadPreviousAndReap(r) ==
  /\ req[r].pc = "read"
  /\ bucket' = bucket \ ({photo} \ {req[r].key})
  /\ Goto(r, [pc |-> "set", key |-> req[r].key, prev |-> photo])
  /\ UNCHANGED <<photo, origin, settled>>

ReadPrevious(r) ==
  /\ req[r].pc = "read"
  /\ Goto(r, [pc |-> "set", key |-> req[r].key, prev |-> photo])
  /\ UNCHANGED <<photo, bucket, origin, settled>>

SetPhoto(r) ==
  LET m == req[r] IN
  /\ m.pc = "set"
  /\ photo' = m.key
  /\ Goto(r, IF m.prev \in {NoKey, m.key} THEN Idle ELSE [m EXCEPT !.pc = "reap"])
  /\ UNCHANGED <<bucket, origin, settled>>

Reap(r) ==
  /\ req[r].pc = "reap"
  /\ bucket' = bucket \ {req[r].prev}
  /\ Goto(r, Idle)
  /\ UNCHANGED <<photo, origin, settled>>

\* A fetch, statement or delete fails, or the process dies: nothing is undone.
Fail(r) ==
  /\ req[r].pc # "idle"
  /\ Goto(r, Idle)
  /\ UNCHANGED <<photo, bucket, origin, settled>>

Work(r) ==
  \/ \E k \in Keys : Confirm(r, k) \/ StoreAvatar(r, k)
  \/ SocialSignIn(r) \/ ReadPrevious(r) \/ SetPhoto(r) \/ Reap(r)

Next == (\E k \in Keys : Presign(k) \/ Upload(k)) \/ (\E r \in Reqs : Work(r) \/ Fail(r))

Spec == Init /\ [][Next]_vars

\* Every request runs to its end.
ReliableNext == (\E k \in Keys : Presign(k) \/ Upload(k)) \/ (\E r \in Reqs : Work(r))
ReliableSpec == Init /\ [][ReliableNext]_vars

-----------------------------------------------------------------------------

TypeOK ==
  /\ photo \in Keys \cup {NoKey}
  /\ bucket \subseteq Keys /\ settled \subseteq Keys
  /\ origin \in [Keys -> {"none", "upload", "avatar"}]
  /\ req \in [Reqs -> Request]

\* Whatever confirms and imports race and wherever they fail, the photo the row
\* points to is in the bucket (a key confirmed once: see ReapsOnlySuperseded).
PhotoIsPresent == photo # NoKey => photo \in bucket

\* A key is settled by one request; until that request publishes it, it is in
\* the bucket, is not the photo, and nobody has read it as the photo before.
Pending(r) == req[r].pc \in {"read", "set"}
PendingKeysAreOwn ==
  \A r \in Reqs : Pending(r) =>
    /\ req[r].key \in bucket \cap settled
    /\ req[r].key # photo
    /\ \A q \in Reqs : q # r /\ Pending(q) => req[q].key # req[r].key
    /\ \A q \in Reqs : req[q].prev # req[r].key
KnownKeys ==
  /\ photo # NoKey => photo \in settled
  /\ \A k \in bucket \cup settled : origin[k] # "none"
  /\ \A r \in Reqs : req[r].prev # NoKey => req[r].prev \in settled
ReapsOldKeys == \A r \in Reqs : req[r].pc = "reap" => req[r].prev # photo

\* The inductive invariant of a client that confirms each key once: what a
\* request is about to publish can be reaped by no other request.
IInv == TypeOK /\ PhotoIsPresent /\ PendingKeysAreOwn /\ KnownKeys /\ ReapsOldKeys

\* "the superseded object must be reaped": an object is deleted only once the
\* pointer has left it.  A retried confirm takes the pointer back before the
\* delete of the request that superseded it.
ReapsOnlySuperseded == [][\A k \in bucket : k \notin bucket' => photo # k]_vars

\* "... or the bucket accumulates one orphan per change": with every request
\* done and none failed, the pointer's object is the only one settled.  Two
\* confirms that read the same previous key leave the loser's object behind.
NoOrphans ==
  (\A r \in Reqs : req[r] = Idle) => bucket \cap settled \subseteq {photo}

ShowsUpload == \E k \in Keys : photo = k /\ origin[k] = "upload"

\* "an uploaded photo must not be replaced by a stale avatar": the sign-in
\* checked for a photo before the download, not when it stores the key.
UploadedPhotoKept == [][ShowsUpload => ShowsUpload']_vars
=============================================================================
