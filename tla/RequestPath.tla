---------------------------- MODULE RequestPath ----------------------------
(***************************************************************************)
(* An S3 request from the socket to its handler: s3/router.cpp (serve),    *)
(* s3/sigv4.cpp (authenticate, presignQuery), s3/operation.cpp (classify)  *)
(* and the console's presigned links. serve runs on one I/O thread while   *)
(* the console rotates and revokes keys, edits and disables their owner    *)
(* and changes what the bucket opens to everybody, and it reads each of    *)
(* those at a different step: the bucket through requireBucket's cache,    *)
(* which other requests fill and every change drops after its commit.      *)
(* Requests share nothing but these records and that entry, so one request *)
(* in service, and readers that fill the entry, are enough.                *)
(*                                                                         *)
(* A signature is symbolic: it is the secret and everything the canonical  *)
(* request and the string to sign cover, so it verifies exactly when the   *)
(* secret and what arrived are what was signed. Addressing is path style.  *)
(* The tiers of the cache are in MetadataCache; here an entry may go at    *)
(* any time. The bucket is never deleted, and the handlers' effects are    *)
(* the other modules.                                                      *)
(***************************************************************************)
EXTENDS Identity, BucketPolicy, Naturals, FiniteSets, Sequences

CONSTANTS
    Forms,        \* the requests clients send: records of RequestForms
    Documents,    \* the policies clients put: sequences of Statements
    Secrets,      \* the secrets the stored key has in turn: 1..Secrets
    Skew,         \* the tolerated distance between two clocks
    MaxExpires,   \* the longest life of a presigned URL
    MaxNow,       \* bound: the clock stops here
    MaxEdits,     \* bound: changes of the key, its owner and the bucket
    MaxMishaps,   \* bound: deliveries altered on the way, or repeated
    MaxReads      \* bound: records other readers hold at once

Methods == {"GET", "HEAD", "PUT", "POST", "DELETE", "OPTIONS"}

\* The query parameters that select an operation; "versions" stands for every
\* subresource that is not implemented, "list2" for list-type=2.
Subresources == {"uploads", "location", "versioning", "policy", "acl", "cors", "list2", "delete",
                 "uploadId", "partNumber", "versions"}

NoService == ""   \* a request that names no bucket

RequestForms ==
    [method : Methods, bucket : STRING, object : BOOLEAN, query : SUBSET Subresources]

ASSUME RequestConstants ==
    /\ Forms # {} /\ IsFiniteSet(Forms)
    /\ \A f \in Forms : f \in RequestForms /\ (f.object => f.bucket # NoService)
    /\ \A d \in Documents : d \in Seq(Statements)
    /\ {Secrets, Skew, MaxExpires, MaxNow, MaxEdits, MaxMishaps, MaxReads} \subseteq Nat

VARIABLES
    now,        \* the server's clock
    secret,     \* the stored key's secret, 0 once it is revoked
    owner,      \* the user who owns the key, or NoUser
    records,    \* the bucket's records, the stored one last
    pending,    \* the records whose writer has not dropped the cached entry yet
    filling,    \* the records that other readers hold and have not cached yet
    cached,     \* the cached entry, or NoEntry
    message,    \* the message last sent, or Nothing
    served,     \* the request in service
    warrant,    \* history: what has held at some moment since the request arrived
    edits, mishaps

bucketCache == <<records, pending, filling, cached>>
requestVars == <<now, secret, owner, bucketCache, message, served, warrant, edits, mishaps>>
----------------------------------------------------------------------------
(* Which operation a request names. *)

classifyService(f) == IF f.method = "GET" THEN "ListBuckets" ELSE "MethodNotAllowed"

\* The first of the named subresources the query has decides; else the last.
First(f, table, otherwise) ==
    LET hits == {i \in DOMAIN table : table[i][1] \in f.query}
    IN  IF hits = {} THEN otherwise
        ELSE table[CHOOSE i \in hits : \A j \in hits : i <= j][2]

classifyBucket(f) ==
    CASE f.method = "GET" ->
            First(f, <<<<"uploads", "ListMultipartUploads">>, <<"location", "GetBucketLocation">>,
                       <<"versioning", "GetBucketVersioning">>, <<"policy", "GetBucketPolicy">>,
                       <<"acl", "GetBucketAcl">>, <<"cors", "GetBucketCors">>,
                       <<"list2", "ListObjectsV2">>>>, "ListObjectsV1")
      [] f.method = "HEAD" -> "HeadBucket"
      [] f.method = "PUT" ->
            First(f, <<<<"policy", "PutBucketPolicy">>, <<"acl", "PutBucketAcl">>,
                       <<"cors", "PutBucketCors">>>>, "CreateBucket")
      [] f.method = "DELETE" ->
            First(f, <<<<"policy", "DeleteBucketPolicy">>, <<"cors", "DeleteBucketCors">>>>,
                  "DeleteBucket")
      [] f.method = "POST" ->
            First(f, <<<<"delete", "DeleteObjects">>, <<"uploadId", "Unsupported">>>>,
                  "MethodNotAllowed")
      [] OTHER -> "MethodNotAllowed"

classifyObject(f) ==
    CASE f.method = "GET" ->
            First(f, <<<<"uploadId", "ListParts">>, <<"acl", "GetBucketAcl">>>>, "GetObject")
      [] f.method = "HEAD" -> "HeadObject"
      [] f.method = "PUT" ->
            IF {"uploadId", "partNumber"} \subseteq f.query THEN "UploadPart"
            ELSE IF {"uploadId", "partNumber"} \cap f.query # {} THEN "Unsupported"
            ELSE "PutObject"
      [] f.method = "POST" ->
            First(f, <<<<"uploads", "CreateMultipartUpload">>,
                       <<"uploadId", "CompleteMultipartUpload">>>>, "MethodNotAllowed")
      [] f.method = "DELETE" ->
            First(f, <<<<"uploadId", "AbortMultipartUpload">>>>, "DeleteObject")
      [] OTHER -> "MethodNotAllowed"

classify(f) ==
    IF f.method = "OPTIONS" THEN "Preflight"
    ELSE IF "versions" \in f.query THEN "Unsupported"
    ELSE IF f.bucket = NoService THEN classifyService(f)
    ELSE IF ~f.object THEN classifyBucket(f) ELSE classifyObject(f)

isReadOnly(operation) ==
    operation \in {"ListBuckets", "HeadBucket", "ListObjectsV1", "ListObjectsV2",
                   "ListMultipartUploads", "GetBucketLocation", "GetBucketVersioning",
                   "GetBucketPolicy", "GetBucketAcl", "GetBucketCors", "GetObject",
                   "HeadObject", "ListParts"}

permissionFor(operation) ==
    CASE operation \in {"ListBuckets", "HeadBucket", "ListObjectsV1", "ListObjectsV2",
                        "ListMultipartUploads", "GetBucketLocation", "GetBucketVersioning",
                        "GetBucketPolicy", "GetBucketAcl", "GetBucketCors"} -> "bucket:read"
      [] operation \in {"CreateBucket", "DeleteBucket", "PutBucketPolicy", "DeleteBucketPolicy",
                        "PutBucketAcl", "PutBucketCors", "DeleteBucketCors"} -> "bucket:write"
      [] operation \in {"GetObject", "HeadObject", "ListParts", "Preflight"} -> "object:read"
      [] OTHER -> "object:write"
----------------------------------------------------------------------------
(* Messages. A message is a form and how it is signed; "signed" is what the  *)
(* signer covered, the form, the time and the life included.                 *)

Nothing == [kind |-> "nothing"]
NoUser == [role |-> "nobody"]
Root == 0    \* the root pair's secret; it names no stored key

Cover(form, by, at, life) == [form |-> form, by |-> by, at |-> at, life |-> life]

Unsigned(form) == [kind |-> "anonymous", form |-> form, link |-> FALSE]

\* "flawed": a missing date, digest or parameter, a scope of another date or
\* service, or a host that is not signed.
Signed(kind, form, by, at, life, flawed, link) ==
    [kind |-> kind, form |-> form, by |-> by, at |-> at, life |-> life, flawed |-> flawed,
     link |-> link, signed |-> Cover(form, by, at, life)]

\* What a client may send at a time "at" of its own clock. A header signature
\* has no life of its own.
Messages(form, at) ==
    {Unsigned(form), Signed("header", form, Root, at, 0, TRUE, FALSE),
     Signed("presigned", form, Root, at, 1, TRUE, FALSE)}
    \cup {Signed("header", form, by, at, 0, FALSE, FALSE) : by \in 0..Secrets}
    \cup UNION {{Signed("presigned", form, by, at, life, FALSE, FALSE) : by \in 0..Secrets} :
                life \in 0..(MaxExpires + 1)}

\* Drogon hands a HEAD to the handler as a GET.
Arrived(form) == IF form.method = "HEAD" THEN [form EXCEPT !.method = "GET"] ELSE form

NoRequest == [phase |-> "idle"]
NoEntry == [at |-> 0, late |-> FALSE]

\* A record's flags, and what its owner opened to everybody by the reference.
BucketState(flags, opens) == [flags |-> flags, opens |-> opens]

RequestInit ==
    /\ now = 0 /\ secret = 1
    /\ records = <<BucketState({}, {})>> /\ pending = {} /\ filling = {} /\ cached = NoEntry
    /\ owner \in [role : Roles, disabled : {FALSE}, grants : {Unrestricted}]
    /\ message = Nothing /\ served = NoRequest /\ warrant = {}
    /\ edits = 0 /\ mishaps = 0
----------------------------------------------------------------------------
(* What would justify serving a message, in the current state: stated from   *)
(* what the handlers do, not from the router's tables.                       *)

Writes == {"CreateBucket", "DeleteBucket", "PutBucketPolicy", "DeleteBucketPolicy",
           "PutBucketAcl", "PutBucketCors", "DeleteBucketCors", "DeleteObjects", "PutObject",
           "DeleteObject", "CreateMultipartUpload", "UploadPart", "CompleteMultipartUpload",
           "AbortMultipartUpload"}

OnObjects == {"GetObject", "HeadObject", "ListParts", "PutObject", "DeleteObject",
              "DeleteObjects", "CreateMultipartUpload", "UploadPart",
              "CompleteMultipartUpload", "AbortMultipartUpload"}

Needs(operation) ==
    IF operation \in OnObjects
    THEN IF operation \in Writes THEN "object:write" ELSE "object:read"
    ELSE IF operation \in Writes THEN "bucket:write" ELSE "bucket:read"

OwnerMay(form) ==
    /\ owner # NoUser
    /\ ~owner.disabled
    /\ IF form.bucket = NoService THEN allows(owner.role, Needs(classify(form)))
       ELSE may(owner.role, owner.grants, form.bucket, Needs(classify(form)))

Fresh(m) ==
    /\ m.at <= now + Skew
    /\ m.kind = "header" => now <= m.at + Skew
    /\ m.kind = "presigned" => m.life \in 1..MaxExpires /\ now <= m.at + m.life

\* A record stands until the writer of a later one has dropped the cached
\* entry, which is before that writer's request is answered.
Standing(v) == \A u \in (v + 1)..Len(records) : u \in pending

Opens(v, form) ==
    \/ "read" \in records[v].opens /\ classify(form) \in {"GetObject", "HeadObject"}
    \/ /\ "list" \in records[v].opens
       /\ classify(form) \in {"HeadBucket", "ListObjectsV1", "ListObjectsV2"}

OpenTo(form) == \E v \in DOMAIN records : Standing(v) /\ Opens(v, form)

Grounds(m) == IF m.kind = "anonymous" THEN {"open"} ELSE {"key", "owner", "fresh"}

Holding(m) ==
    {g \in Grounds(m) :
        CASE g = "open"  -> OpenTo(m.form)
          [] g = "key"   -> m.by \in {Root, secret}
          [] g = "owner" -> m.by = Root \/ OwnerMay(m.signed.form)
          [] g = "fresh" -> Fresh(m)}

\* Every step adds what holds after it.
Observe == warrant' = IF served'.phase = "idle" THEN {}
                      ELSE warrant \cup Holding(served.msg)'
----------------------------------------------------------------------------
(* The clients, the network and the console. *)

Send(form) ==
    /\ served.phase = "idle" /\ message = Nothing
    /\ \E at \in 0..MaxNow : \E m \in Messages(form, at) : message' = m
    /\ UNCHANGED <<now, secret, owner, bucketCache, served, warrant, edits, mishaps>>

\* /_mb/api/presign: a GET of one object, signed with the root pair for a
\* console user who may read the bucket (guardBucket).
MintLink(form) ==
    /\ served.phase = "idle" /\ message = Nothing
    /\ form.object /\ form.method = "GET" /\ form.query = {}
    /\ owner # NoUser /\ ~owner.disabled
    /\ may(owner.role, owner.grants, form.bucket, "object:read")
    /\ \E life \in 1..MaxExpires :
          message' = Signed("presigned", form, Root, now, life, FALSE, TRUE)
    /\ UNCHANGED <<now, secret, owner, bucketCache, served, warrant, edits, mishaps>>

\* A message changed on its way: one part of the form, or a life made longer.
Near(form) == {f \in Forms : Cardinality({x \in DOMAIN f : f[x] # form[x]}) = 1}

Alter ==
    /\ message # Nothing /\ message.kind # "anonymous" /\ mishaps < MaxMishaps
    /\ \/ \E form \in Near(message.form) : message' = [message EXCEPT !.form = form]
       \/ /\ message.kind = "presigned" /\ message' = [message EXCEPT !.life = @ + 1]
    /\ mishaps' = mishaps + 1
    /\ UNCHANGED <<now, secret, owner, bucketCache, served, warrant, edits>>

\* offload: the message reaches an I/O thread; a copy may arrive again later.
Deliver ==
    /\ message # Nothing /\ served.phase = "idle"
    /\ served' = [phase |-> "arrived", msg |-> message, form |-> Arrived(message.form)]
    /\ warrant' = Holding(message)
    /\ \/ message' = Nothing /\ UNCHANGED mishaps
       \/ mishaps < MaxMishaps /\ mishaps' = mishaps + 1 /\ UNCHANGED message
    /\ UNCHANGED <<now, secret, owner, bucketCache, edits>>

Tick ==
    /\ now < MaxNow /\ now' = now + 1
    /\ UNCHANGED <<secret, owner, bucketCache, message, served, edits, mishaps>> /\ Observe

Edit == edits < MaxEdits /\ edits' = edits + 1 /\ UNCHANGED <<now, message, served, mishaps>>

\* The console revokes the key, or rotates it.
ChangeKey ==
    /\ Edit /\ secret # 0
    /\ secret' \in {0} \cup ({secret + 1} \cap 1..Secrets)
    /\ UNCHANGED <<owner, bucketCache>> /\ Observe

\* The console edits the owner, disables the account or deletes it.
ChangeOwner ==
    /\ Edit /\ owner # NoUser
    /\ \/ \E role \in Roles : owner' = [owner EXCEPT !.role = role]
       \/ owner' = [owner EXCEPT !.disabled = ~@]
       \/ \E b \in {f.bucket : f \in Forms} \ {NoService} : \E access \in BucketAccess :
             owner' = [owner EXCEPT !.grants =
                          readBucketGrants([fallback |-> "write", exceptions |-> [c \in {b} |-> access]])]
       \/ owner' = NoUser
    /\ UNCHANGED <<secret, bucketCache>> /\ Observe

\* updateBucket: the new record is stored, and the cached entry is still there.
Commit(state) ==
    /\ records' = Append(records, state)
    /\ pending' = pending \cup {Len(records) + 1}
    /\ UNCHANGED <<secret, owner, filling, cached>> /\ Observe

\* handlePutBucketPolicy: a document outside the grammar is refused.
PutPolicy ==
    /\ Edit
    /\ \E document \in Documents :
          /\ validateBucketPolicy(document)
          /\ Commit(BucketState(analyseBucketPolicy(document),
                                {flag \in {"read", "list"} : EverybodyIsGranted(document, flag)}))

\* setBucketPublicRead, for an ACL or the console's toggle: listing closes. A
\* policy that is removed leaves the bucket closed (handleDeleteBucketPolicy).
PublishObjects ==
    /\ Edit
    /\ \E read \in {{}, {"read"}} : Commit(BucketState(read, read))

\* Mutant of InvalidateBucket: the writer answers without dropping the entry.
InvalidateNothing ==
    /\ \E v \in pending : pending' = pending \ {v}
    /\ UNCHANGED <<now, secret, owner, records, filling, cached, message, served, edits, mishaps>>
    /\ Observe

\* The writer of a record drops the cached entry, and then answers.
InvalidateBucket ==
    /\ \E v \in pending : pending' = pending \ {v}
    /\ cached' = NoEntry
    /\ UNCHANGED <<now, secret, owner, records, filling, message, served, edits, mishaps>>
    /\ Observe

\* What is put into the cache; "late" is history: a change that its reader did
\* not see has been answered.
Entry(v) == [at |-> v, late |-> ~Standing(v)]

\* Other requests and answers (requireBucket's callers) miss and read the record ...
ReadBucket ==
    /\ cached = NoEntry /\ Cardinality(filling) < MaxReads
    /\ filling' = filling \cup {Len(records)}
    /\ UNCHANGED <<now, secret, owner, records, pending, cached, message, served, edits, mishaps>>
    /\ Observe

\* ... and cache what they read.
CacheBucket ==
    /\ \E v \in filling : cached' = Entry(v) /\ filling' = filling \ {v}
    /\ UNCHANGED <<now, secret, owner, records, pending, message, served, edits, mishaps>>
    /\ Observe

\* The entry's time runs out, or the cache needs the room.
DropEntry ==
    /\ cached # NoEntry /\ cached' = NoEntry
    /\ UNCHANGED <<now, secret, owner, records, pending, filling, message, served, edits, mishaps>>
    /\ Observe
----------------------------------------------------------------------------
(* serve. Each step reads one record; any of them may answer with an error. *)

\* "basis" is what requireBucket gave a request without a signature.
Reach(phase, basis) ==
    served' = [phase |-> phase, msg |-> served.msg, form |-> served.form, basis |-> basis]
Answer(status) == Reach(status, NoEntry)
Deny == Answer("refused")

Verifying(form, m) == Cover(form, m.by, m.at, m.life) = m.signed

\* The method the signature was made over: the one that arrived, or HEAD for
\* a GET; Nothing when neither verifies.
SignedForm(form, m) ==
    IF Verifying(form, m) THEN form
    ELSE IF form.method = "GET" /\ Verifying([form EXCEPT !.method = "HEAD"], m)
    THEN [form EXCEPT !.method = "HEAD"]
    ELSE Nothing

InTime(m) ==
    IF m.kind = "presigned"
    THEN /\ m.life > 0 /\ m.life <= MaxExpires
         /\ now <= m.at + m.life /\ m.at <= now + Skew
    ELSE now <= m.at + Skew /\ m.at <= now + Skew

\* resolveCredential: the root pair, or the stored record's secret. A secret
\* that is no longer the record's fails the comparison of signatures.
Resolves(m) == m.by = Root \/ secret # 0

\* authenticate; an OPTIONS never gets here, it is answered from the bucket's
\* CORS rules (module Cors).
Authenticate ==
    /\ served.phase = "arrived" /\ served.form.method # "OPTIONS"
    /\ LET m == served.msg
           form == SignedForm(served.form, m)
       IN  \/ /\ m.kind = "anonymous"
              /\ served' = [phase |-> "classify", msg |-> m, form |-> served.form]
           \/ /\ m.kind # "anonymous"
              /\ ~m.flawed /\ InTime(m) /\ Resolves(m)
              /\ form # Nothing /\ m.by \in {Root, secret}
              /\ served' = [phase |-> "identify", msg |-> m, form |-> form]
           \/ /\ m.kind # "anonymous"
              /\ \/ m.flawed \/ ~InTime(m) \/ ~Resolves(m)
                 \/ form = Nothing \/ m.by \notin {Root, secret}
              /\ Deny
    /\ UNCHANGED <<now, secret, owner, bucketCache, message, edits, mishaps>> /\ Observe

Preflight ==
    /\ served.phase = "arrived" /\ served.form.method = "OPTIONS"
    /\ Answer("preflight")
    /\ UNCHANGED <<now, secret, owner, bucketCache, message, edits, mishaps>> /\ Observe

RootIdentity == [role |-> "administrator", grants |-> Unrestricted]

\* getUser on every signed request: nobody when the owner is gone or disabled.
Identify ==
    /\ served.phase = "identify"
    /\ served' = [phase |-> "classify", msg |-> served.msg, form |-> served.form,
                  identity |->
                     IF served.msg.by = Root THEN RootIdentity
                     ELSE IF owner = NoUser \/ owner.disabled THEN Nothing
                     ELSE [role |-> owner.role, grants |-> owner.grants]]
    /\ UNCHANGED <<now, secret, owner, bucketCache, message, edits, mishaps>> /\ Observe

\* authorize for a signed request.
IdentityMay(identity, form, operation) ==
    /\ identity # Nothing
    /\ allows(identity.role, permissionFor(operation))
    /\ form.bucket # NoService =>
          may(identity.role, identity.grants, form.bucket, permissionFor(operation))

\* authorize for an anonymous one, on the flags of the record it was given.
EverybodyMay(flags, form, operation) ==
    /\ isReadOnly(operation)
    /\ form.bucket # NoService
    /\ CASE operation \in {"GetObject", "HeadObject"} -> "read" \in flags
         [] operation \in {"ListObjectsV1", "ListObjectsV2", "HeadBucket"} -> "list" \in flags
         [] OTHER -> FALSE

\* authorize for a signed request; nothing is dispatched for a subresource that
\* is not implemented.
Authorize ==
    /\ served.phase = "classify" /\ served.msg.kind # "anonymous"
    /\ LET operation == classify(served.form)
           allowed == IdentityMay(served.identity, served.form, operation)
       IN  \/ operation # "Unsupported" /\ allowed /\ Reach("dispatch", NoEntry)
           \/ (operation = "Unsupported" \/ ~allowed) /\ Deny
    /\ UNCHANGED <<now, secret, owner, bucketCache, message, edits, mishaps>> /\ Observe

\* An anonymous one that could never be open is refused without the bucket.
RefuseAnonymous ==
    /\ served.phase = "classify" /\ served.msg.kind = "anonymous"
    /\ ~isReadOnly(classify(served.form)) \/ served.form.bucket = NoService
    /\ Deny
    /\ UNCHANGED <<now, secret, owner, bucketCache, message, edits, mishaps>> /\ Observe

\* The end of authorize: served on this record, or refused on it.
AccessDecided(flags, basis) ==
    \/ EverybodyMay(flags, served.form, classify(served.form)) /\ Reach("dispatch", basis)
    \/ ~EverybodyMay(flags, served.form, classify(served.form)) /\ Reach("refused", basis)

\* What an entry keeps of the flags: publicList is not encoded.
Encoded(flags) == flags \ {"list"}

LooksUp ==
    /\ served.phase = "classify" /\ served.msg.kind = "anonymous"
    /\ isReadOnly(classify(served.form)) /\ served.form.bucket # NoService

\* requireBucket answers from the entry ...
HitBucket ==
    /\ LooksUp /\ cached # NoEntry
    /\ AccessDecided(Encoded(records[cached.at].flags), cached)
    /\ UNCHANGED <<now, secret, owner, bucketCache, message, edits, mishaps>> /\ Observe

\* ... or reads the stored record ...
MissBucket ==
    /\ LooksUp /\ cached = NoEntry
    /\ Reach("fill", [at |-> Len(records), late |-> FALSE])
    /\ UNCHANGED <<now, secret, owner, bucketCache, message, edits, mishaps>> /\ Observe

\* ... caches it, and answers with it.
FillBucket ==
    /\ served.phase = "fill"
    /\ cached' = Entry(served.basis.at)
    /\ AccessDecided(records[served.basis.at].flags, served.basis)
    /\ UNCHANGED <<now, secret, owner, records, pending, filling, message, edits, mishaps>>
    /\ Observe

\* dispatch: two operations have no handler.
Dispatch ==
    /\ served.phase = "dispatch"
    /\ \/ classify(served.form) \notin {"Unsupported", "MethodNotAllowed"}
          /\ Reach("served", served.basis)
       \/ classify(served.form) \in {"Unsupported", "MethodNotAllowed"} /\ Deny
    /\ UNCHANGED <<now, secret, owner, bucketCache, message, edits, mishaps>> /\ Observe

Answered == {"served", "refused", "preflight"}

Respond ==
    /\ served.phase \in Answered
    /\ served' = NoRequest /\ warrant' = {}
    /\ UNCHANGED <<now, secret, owner, bucketCache, message, edits, mishaps>>

RequestNext ==
    \/ \E form \in Forms : Send(form) \/ MintLink(form)
    \/ Alter \/ Deliver \/ Tick \/ ChangeKey \/ ChangeOwner \/ PutPolicy \/ PublishObjects
    \/ InvalidateBucket \/ ReadBucket \/ CacheBucket \/ DropEntry
    \/ Authenticate \/ Preflight \/ Identify \/ Authorize
    \/ RefuseAnonymous \/ HitBucket \/ MissBucket \/ FillBucket \/ Dispatch \/ Respond

RequestSpec == RequestInit /\ [][RequestNext]_requestVars
----------------------------------------------------------------------------
(* Properties. *)

(***************************************************************************)
(* What serve (router.cpp) hands to a handler was justified while the      *)
(* request was in service. A signed request does what its signer signed,   *)
(* however the message was changed, repeated or delayed and whichever      *)
(* method the framework reported; its key was live, its owner enabled and  *)
(* allowed to do what the handler does, and its signature in date, each at *)
(* some moment since it arrived, so a revocation takes effect on the next  *)
(* request. A link minted by the console reads its one object. A request   *)
(* without a signature does only what the bucket had opened to everybody,  *)
(* by a record that no change answered before the request arrived had      *)
(* replaced; or, if the cached entry is one that its reader put after such *)
(* a change was answered, by that older record.                            *)
(***************************************************************************)
ServedLate ==
    /\ served.msg.kind = "anonymous" /\ served.basis.late
    /\ Opens(served.basis.at, served.msg.form)

ServedWasWarranted ==
    served.phase = "served" =>
        /\ warrant = Grounds(served.msg) \/ ServedLate
        /\ served.msg.kind # "anonymous" => served.form = served.msg.signed.form
        /\ served.msg.link => classify(served.form) = "GetObject"

\* "Without this the S3 anonymous path keeps reading the old flag until the
\* entry ages out" (console_api.cpp, on dropping the entry): once the change is
\* answered, a bucket that was closed serves nobody who comes after.
ClosedForTheNext == served.phase = "served" => warrant = Grounds(served.msg)

\* "A policy that is stored is a policy that is enforced" (handlePutBucketPolicy):
\* no request is refused on a record that opens the bucket to it.
OpenIsServed ==
    served.phase = "refused" /\ served.basis # NoEntry => ~Opens(served.basis.at, served.msg.form)
=============================================================================
