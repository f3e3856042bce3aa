------------------------------ MODULE Console ------------------------------
(***************************************************************************)
(* Accounts, sessions and access keys: server/console_api.cpp and          *)
(* console_session.cpp over the user and key rows of the metadata store,   *)
(* with the provisioning of the administrator at start-up.                 *)
(*                                                                         *)
(* A request is judged on the event loop (throttle, session, permission)   *)
(* and posted; a pool thread then runs it as a sequence of store calls     *)
(* with no lock around them. Every store call and every call of the        *)
(* session store is one step.                                              *)
(***************************************************************************)
EXTENDS Identity, Naturals, Sequences, FiniteSets

CONSTANTS
    Names,              \* user names
    AdminUsername,      \* MONOBUCKET_ADMIN_USERNAME
    Secrets,            \* passwords
    KeyIds,             \* access key ids the generator may draw
    Buckets,            \* bucket names that grants and requests may name
    RoleChoices,        \* roles a request may ask for
    GrantChoices,       \* bucket grants a request may state
    Requests,           \* slots for requests that are queued or running
    IoThreads,          \* size of the pool
    IoQueueLimit,       \* jobs that may wait for a thread
    LegacyStores,       \* whether a start may find records of older releases
    None,               \* no such row, no owner, no job, a field a PATCH leaves out
    Revoked             \* a key whose row was deleted

UserRecord == [hash : Secrets, role : Roles, disabled : BOOLEAN, buckets : BucketGrants(Buckets)]
AccessKeyRecord == [owner : Names \cup {None}]
Principal == [username : Names, role : Roles, buckets : BucketGrants(Buckets)]

\* A job carries what the loop captured (the operation, its caller, its
\* arguments), what it has read since, and the step it is at.
Jobs ==
    [op : {"login", "create", "patch", "delete", "password", "createKey", "revokeKey", "rotateKey"},
     actor : Names \cup {None}, any : BOOLEAN, user : Names \cup {None},
     current : Secrets \cup {None}, secret : Secrets \cup {None}, role : Roles \cup {None},
     disabled : BOOLEAN \cup {None}, buckets : BucketGrants(Buckets) \cup {None},
     key : KeyIds \cup {None}, rec : UserRecord \cup AccessKeyRecord \cup {None},
     todo : SUBSET KeyIds,
     pc : {"queued", "open", "count", "revoke", "put", "close", "reopen", "revokeKey", "rotateKey"}]

ASSUME ConsoleAssumption ==
    /\ AdminUsername \in Names
    /\ RoleChoices \subseteq Roles
    /\ GrantChoices \subseteq BucketGrants(Buckets)
    /\ IoThreads \in Nat \ {0}
    /\ IoQueueLimit \in Nat \ {0}
    /\ LegacyStores \in BOOLEAN
    /\ None \notin Names \cup UserRecord \cup AccessKeyRecord \cup Jobs
    /\ Revoked \notin AccessKeyRecord \cup {None}

VARIABLES
    phase,      \* start-up: "migrate", "adopt", "drop", "provision"; "serving"; "refused"
    legacy,     \* the single administrator record of older releases, or None
    users,      \* [Names -> user record or None]
    keys,       \* [KeyIds -> key record, None before it is drawn, or Revoked]
    sessions,   \* the principals that hold a live token
    job,        \* [Requests -> job or None]
    queue,      \* jobs waiting for a thread, oldest first
    raced       \* history: accounts whose row changed under a request that had read it

vars == <<phase, legacy, users, keys, sessions, job, queue, raced>>
store == <<legacy, users, keys>>

User(hash, role, disabled, buckets) ==
    [hash |-> hash, role |-> role, disabled |-> disabled, buckets |-> buckets]

PrincipalOf(name, user) == [username |-> name, role |-> user.role, buckets |-> user.buckets]

Stored == {u \in Names : users[u] # None}
IsEnabledAdmin(user) == user # None /\ user.role = "administrator" /\ ~user.disabled
EnabledAdministrators == {u \in Names : IsEnabledAdmin(users[u])}
LiveKeys == {k \in KeyIds : keys[k] \notin {None, Revoked}}
OwnedBy(owner) == {k \in LiveKeys : keys[k].owner = owner}

\* A job as the loop posts it.
Job(op, actor, user) ==
    [op |-> op, actor |-> actor, any |-> FALSE, user |-> user, current |-> None, secret |-> None,
     role |-> None, disabled |-> None, buckets |-> None, key |-> None,
     rec |-> None, todo |-> {}, pc |-> "queued"]

Init ==
    /\ phase = "migrate"
    /\ sessions = {} /\ queue = <<>> /\ job = [r \in Requests |-> None] /\ raced = {}
    /\ users = [u \in Names |-> None]
    /\ legacy \in {None} \cup (IF LegacyStores THEN Names ELSE {})
    /\ keys \in [KeyIds -> {None} \cup (IF legacy # None THEN {[owner |-> None]} ELSE {})]

-----------------------------------------------------------------------------
(* Start-up.                                                                *)

Serving == <<sessions, job, queue, raced>>

\* The row the legacy record becomes; its verifier is any password.
MigratedAdministrator(s) == User(s, "administrator", FALSE, Unrestricted)

\* migrateLegacyIdentities: the only account becomes a user, unless there are
\* users already; then the record is stale and is only dropped.
MigrateAdministrator ==
    /\ phase = "migrate"
    /\ IF legacy = None THEN phase' = "provision" /\ UNCHANGED users
       ELSE IF Stored = {}
       THEN /\ phase' = "adopt"
            /\ \E s \in Secrets : users' = [users EXCEPT ![legacy] = MigratedAdministrator(s)]
       ELSE phase' = "drop" /\ UNCHANGED users
    /\ UNCHANGED <<legacy, keys, Serving>>

\* adoptOwnerlessAccessKeys writes one key at a time.
AdoptKey(k, owner) ==
    /\ k \in OwnedBy(None)
    /\ keys' = [keys EXCEPT ![k].owner = owner]

AdoptForMigrated ==
    /\ phase = "adopt"
    /\ \/ (\E k \in KeyIds : AdoptKey(k, legacy)) /\ UNCHANGED phase
       \/ OwnedBy(None) = {} /\ phase' = "drop" /\ UNCHANGED keys
    /\ UNCHANGED <<legacy, users, Serving>>

DropLegacyRecord ==
    /\ phase = "drop"
    /\ legacy' = None
    /\ phase' = "provision"
    /\ UNCHANGED <<users, keys, Serving>>

\* provisionAdministrator without a password in the environment: start only
\* when somebody can administer the console.
StartWithStoredUsers ==
    /\ phase = "provision"
    /\ phase' = IF EnabledAdministrators # {} THEN "serving" ELSE "refused"
    /\ UNCHANGED <<store, Serving>>

\* With one, the named account is put back to a usable administrator, and the
\* keys without an owner become its own.
RestoreAdministrator(s) ==
    /\ phase = "provision"
    /\ users' = [users EXCEPT ![AdminUsername] = MigratedAdministrator(s)]
    /\ phase' = "adoptRestored"
    /\ UNCHANGED <<legacy, keys, Serving>>

AdoptForRestored ==
    /\ phase = "adoptRestored"
    /\ \/ (\E k \in KeyIds : AdoptKey(k, AdminUsername)) /\ UNCHANGED phase
       \/ OwnedBy(None) = {} /\ phase' = "serving" /\ UNCHANGED keys
    /\ UNCHANGED <<legacy, users, Serving>>

\* The process stops, at any step, and is started again. Sessions, the
\* throttle and the jobs are in memory only.
Restart ==
    /\ phase' = "migrate"
    /\ sessions' = {} /\ queue' = <<>> /\ job' = [r \in Requests |-> None] /\ raced' = {}
    /\ UNCHANGED store

-----------------------------------------------------------------------------
(* On the event loop: judge the request and post it.                        *)

\* IoExecutor::post; a request that finds the queue full is answered 503.
Post(r, j) ==
    /\ phase = "serving"
    /\ job[r] = None
    /\ Len(queue) < IoQueueLimit
    /\ job' = [job EXCEPT ![r] = j]
    /\ queue' = Append(queue, r)

\* guard: a live session whose role holds the permission.
Guard(p, permission) == p \in sessions /\ allows(p.role, permission)

\* guardBucket: the gate of every route that names a bucket. Such a route
\* changes nothing here.
GuardBucket(p, bucket, permission) ==
    Guard(p, permission) /\ may(p.role, p.buckets, bucket, permission)

\* LoginThrottle, which may refuse the attempt here, is in module IoExecutor.
SubmitLogin(r, u, s) ==
    /\ Post(r, [Job("login", None, u) EXCEPT !.secret = s])
    /\ UNCHANGED <<phase, raced, store, sessions>>

SubmitCreateUser(r, p, u, s, role, grants) ==
    /\ Guard(p, "user:write")
    /\ role = "administrator" => unrestricted(readBucketGrants(grants))
    /\ Post(r, [Job("create", None, u) EXCEPT
                  !.secret = s, !.role = role, !.buckets = readBucketGrants(grants)])
    /\ UNCHANGED <<phase, raced, store, sessions>>

SubmitPatch(r, p, u, role, disabled, grants) ==
    /\ Guard(p, "user:write")
    /\ <<role, disabled, grants>> # <<None, None, None>>
    /\ Post(r, [Job("patch", None, u) EXCEPT !.role = role, !.disabled = disabled,
                  !.buckets = IF grants = None THEN None ELSE readBucketGrants(grants)])
    /\ UNCHANGED <<phase, raced, store, sessions>>

\* The account that asks cannot be the one that goes.
SubmitDelete(r, p, u) ==
    /\ Guard(p, "user:write")
    /\ u # p.username
    /\ Post(r, Job("delete", None, u))
    /\ UNCHANGED <<phase, raced, store, sessions>>

\* One's own password needs the current one and no permission.
SubmitPassword(r, p, u, current, new) ==
    /\ p \in sessions
    /\ u = p.username \/ allows(p.role, "user:write")
    /\ Post(r, [Job("password", IF u = p.username THEN u ELSE None, u) EXCEPT
                  !.current = IF u = p.username THEN current ELSE None, !.secret = new])
    /\ UNCHANGED <<phase, raced, store, sessions>>

SubmitCreateKey(r, p) ==
    /\ Guard(p, "credential:write")
    /\ Cardinality({k \in KeyIds : keys[k] = None})   \* bound: an id is left to draw
         > Cardinality({q \in Requests : job[q] # None /\ job[q].op = "createKey"})
    /\ Post(r, Job("createKey", p.username, None))
    /\ UNCHANGED <<phase, raced, store, sessions>>

\* DELETE on a key and the rotation of its secret.
SubmitKeyChange(r, p, op, k) ==
    /\ Guard(p, "credential:write")
    /\ Post(r, [Job(op, p.username, None) EXCEPT
                  !.any = allows(p.role, "user:write"), !.key = k])
    /\ UNCHANGED <<phase, raced, store, sessions>>

\* Signing out, and a token that outlives its time: neither resolves again.
Logout(p) ==
    /\ p \in sessions
    /\ sessions' = sessions \ {p}
    /\ UNCHANGED <<phase, raced, store, job, queue>>

-----------------------------------------------------------------------------
(* On a pool thread.                                                        *)

Running == {r \in Requests : job[r] # None /\ job[r].pc # "queued"}

Begin(r, op) ==
    /\ queue # <<>> /\ Head(queue) = r
    /\ job[r].op = op
    /\ Cardinality(Running) < IoThreads
    /\ queue' = Tail(queue)

At(r, pc) == job[r] # None /\ job[r].pc = pc /\ UNCHANGED queue

Finish(r) == job' = [job EXCEPT ![r] = None]
Goto(r, pc) == job' = [job EXCEPT ![r].pc = pc]
Hold(r, pc, rec) == job' = [job EXCEPT ![r].pc = pc, ![r].rec = rec]

\* The arguments have served their purpose; the record to act on remains.
Settle(r, pc, rec) ==
    job' = [job EXCEPT ![r] =
        [Job(job[r].op, job[r].actor, job[r].user) EXCEPT !.pc = pc, !.rec = rec]]

\* Whether a password is changed by its own holder.
Self(j) == j.op = "password" /\ j.user = j.actor

\* Whether a request goes on to open a session with the record it has read of
\* an account, or to write a row where it has seen none.
ReliesOn(j, u) ==
    /\ j.user = u
    /\ \/ j.pc \in {"open", "reopen"}
       \/ j.pc = "close" /\ Self(j)
       \/ j.pc = "put" /\ j.op = "create"

\* History, at a write of the row of u: who relies on what the row held.
Raced(r, u) ==
    raced' = IF \E q \in Running \ {r} : ReliesOn(job[q], u) THEN raced \cup {u} ELSE raced

\* getUser, and the verifier over what it read. Every failure looks the same.
LoginVerify(r) ==
    LET user == users[job[r].user]
    IN  /\ Begin(r, "login")
        /\ IF user = None \/ (user # None /\ (user.hash # job[r].secret \/ user.disabled))
           THEN Finish(r)
           ELSE Settle(r, "open", user)
        /\ UNCHANGED <<phase, raced, store, sessions>>

\* SessionStore::open, with the record read before the verifier.
LoginOpen(r) ==
    /\ At(r, "open")
    /\ sessions' = sessions \cup {PrincipalOf(job[r].user, job[r].rec)}
    /\ Finish(r)
    /\ UNCHANGED <<phase, raced, store>>

CheckTaken(r) ==
    /\ Begin(r, "create")
    /\ IF users[job[r].user] # None THEN Finish(r)
       ELSE Settle(r, "put", User(job[r].secret, job[r].role, FALSE, job[r].buckets))
    /\ UNCHANGED <<phase, raced, store, sessions>>

\* getUser at the start of a PATCH or a DELETE.
ReadUser(r) ==
    /\ Begin(r, "patch") \/ Begin(r, "delete")
    /\ IF users[job[r].user] = None THEN Finish(r) ELSE Hold(r, "count", users[job[r].user])
    /\ UNCHANGED <<phase, raced, store, sessions>>

WasLastAdmin(r) == IsEnabledAdmin(job[r].rec) /\ Cardinality(EnabledAdministrators) <= 1

LosesAdmin(j) == j.role \notin {None, "administrator"} \/ j.disabled = TRUE

Choose(wanted, stored) == IF wanted = None THEN stored ELSE wanted

\* The record a PATCH writes: a promotion drops whatever narrowing there was.
Patched(j) ==
    LET role == Choose(j.role, j.rec.role)
    IN  User(j.rec.hash, role, Choose(j.disabled, j.rec.disabled),
             IF role = "administrator" THEN Unrestricted ELSE Choose(j.buckets, j.rec.buckets))

NarrowsAdmin(j) ==
    /\ j.buckets # None /\ ~unrestricted(j.buckets)
    /\ Choose(j.role, j.rec.role) = "administrator"

\* Mutant of DecidePatch: only the role counts as losing an administrator.
DecidePatchIgnoresDisable(r) ==
    /\ At(r, "count") /\ job[r].op = "patch"
    /\ IF \/ WasLastAdmin(r) /\ job[r].role \notin {None, "administrator"}
          \/ NarrowsAdmin(job[r]) \/ Patched(job[r]) = job[r].rec
       THEN Finish(r) ELSE Settle(r, "put", Patched(job[r]))
    /\ UNCHANGED <<phase, raced, store, sessions>>

\* countEnabledAdministrators and the refusals; a PATCH that changes nothing
\* ends here.
DecidePatch(r) ==
    /\ At(r, "count") /\ job[r].op = "patch"
    /\ IF \/ WasLastAdmin(r) /\ LosesAdmin(job[r])
          \/ NarrowsAdmin(job[r]) \/ Patched(job[r]) = job[r].rec
       THEN Finish(r) ELSE Settle(r, "put", Patched(job[r]))
    /\ UNCHANGED <<phase, raced, store, sessions>>

\* The same count before a DELETE, then the list of the keys that go with the
\* account.
DecideDelete(r) ==
    /\ At(r, "count") /\ job[r].op = "delete"
    /\ IF WasLastAdmin(r) THEN Finish(r)
       ELSE job' = [job EXCEPT ![r].pc = "revoke", ![r].todo = OwnedBy(job[r].user)]
    /\ UNCHANGED <<phase, raced, store, sessions>>

RevokeOwned(r, k) ==
    /\ At(r, "revoke") /\ k \in job[r].todo
    /\ keys' = [keys EXCEPT ![k] = Revoked]
    /\ job' = [job EXCEPT ![r].todo = @ \ {k}]
    /\ UNCHANGED <<phase, raced, legacy, users, sessions>>

DeleteUser(r) ==
    /\ At(r, "revoke") /\ job[r].todo = {}
    /\ users' = [users EXCEPT ![job[r].user] = None]
    /\ Settle(r, "close", None)
    /\ Raced(r, job[r].user)
    /\ UNCHANGED <<phase, legacy, keys, sessions>>

\* getUser and, for one's own, the verifier over the current password.
PasswordRead(r) ==
    LET j == job[r]
        user == users[j.user]
    IN  /\ Begin(r, "password")
        /\ IF user = None \/ (user # None /\ Self(j) /\ user.hash # j.current)
           THEN Finish(r) ELSE Settle(r, "put", [user EXCEPT !.hash = j.secret])
        /\ UNCHANGED <<phase, raced, store, sessions>>

\* putUser writes the whole record, whatever the row holds by now.
PutUser(r) ==
    /\ At(r, "put")
    /\ users' = [users EXCEPT ![job[r].user] = job[r].rec]
    /\ IF job[r].op = "create" THEN Finish(r)
       ELSE Settle(r, "close", IF Self(job[r]) THEN job[r].rec ELSE None)
    /\ Raced(r, job[r].user)
    /\ UNCHANGED <<phase, legacy, keys, sessions>>

\* Mutant of CloseUser: the sessions of the account are left alone.
CloseNobody(r) ==
    /\ At(r, "close")
    /\ IF Self(job[r]) THEN Goto(r, "reopen") ELSE Finish(r)
    /\ raced' = IF \E q \in Running : ReliesOn(job[q], job[r].user)
                THEN raced ELSE raced \ {job[r].user}
    /\ UNCHANGED <<phase, store, sessions>>

CloseUser(r) ==
    /\ At(r, "close")
    /\ sessions' = {p \in sessions : p.username # job[r].user}
    /\ IF Self(job[r]) THEN Goto(r, "reopen") ELSE Finish(r)
    /\ raced' = IF \E q \in Running : ReliesOn(job[q], job[r].user)
                THEN raced ELSE raced \ {job[r].user}
    /\ UNCHANGED <<phase, store>>

\* Whoever changed their own password is handed a new session.
Reopen(r) ==
    /\ At(r, "reopen")
    /\ sessions' = sessions \cup {PrincipalOf(job[r].user, job[r].rec)}
    /\ Finish(r)
    /\ UNCHANGED <<phase, raced, store>>

\* The issuer owns the key.
CreateKey(r, k) ==
    /\ Begin(r, "createKey")
    /\ keys[k] = None
    /\ keys' = [keys EXCEPT ![k] = [owner |-> job[r].actor]]
    /\ Finish(r)
    /\ UNCHANGED <<phase, raced, legacy, users, sessions>>

\* Mutant of ReadKey: a rotation that does not insist on a row to rotate.
ReadKeyUpserts(r) ==
    /\ Begin(r, "revokeKey") \/ Begin(r, "rotateKey")
    /\ Hold(r, job[r].op, [owner |-> job[r].actor])
    /\ UNCHANGED <<phase, raced, store, sessions>>

\* getAccessKey, and whose key it is, before a revocation or a rotation.
ReadKey(r) ==
    /\ Begin(r, "revokeKey") \/ Begin(r, "rotateKey")
    /\ LET k == job[r].key
       IN  IF k \in LiveKeys /\ (job[r].any \/ keys[k].owner = job[r].actor)
           THEN Hold(r, job[r].op, keys[k]) ELSE Finish(r)
    /\ UNCHANGED <<phase, raced, store, sessions>>

\* deleteAccessKey; a row that has gone meanwhile is not found.
RevokeKey(r) ==
    /\ At(r, "revokeKey")
    /\ keys' = [keys EXCEPT ![job[r].key] = Revoked]
    /\ Finish(r)
    /\ UNCHANGED <<phase, raced, legacy, users, sessions>>

\* putAccessKey of the record read, with another secret.
RotateKey(r) ==
    /\ At(r, "rotateKey")
    /\ keys' = [keys EXCEPT ![job[r].key] = job[r].rec]
    /\ Finish(r)
    /\ UNCHANGED <<phase, raced, legacy, users, sessions>>

-----------------------------------------------------------------------------

Submit(r) ==
    \/ \E u \in Names, s \in Secrets : SubmitLogin(r, u, s)
    \/ \E p \in sessions :
         \/ \E u \in Names, s \in Secrets :
              \/ \E role \in RoleChoices, g \in GrantChoices \cup {Unrestricted} :
                   SubmitCreateUser(r, p, u, s, role, g)
              \/ \E c \in Secrets : SubmitPassword(r, p, u, c, s)
         \/ \E u \in Names, role \in RoleChoices \cup {None}, d \in BOOLEAN \cup {None},
              g \in GrantChoices \cup {None} : SubmitPatch(r, p, u, role, d, g)
         \/ \E u \in Names : SubmitDelete(r, p, u)
         \/ SubmitCreateKey(r, p)
         \/ \E k \in LiveKeys, op \in {"revokeKey", "rotateKey"} : SubmitKeyChange(r, p, op, k)

Step(r) ==
    \/ LoginVerify(r) \/ LoginOpen(r)
    \/ CheckTaken(r) \/ ReadUser(r) \/ DecidePatch(r) \/ DecideDelete(r)
    \/ (\E k \in KeyIds : RevokeOwned(r, k) \/ CreateKey(r, k))
    \/ DeleteUser(r) \/ PasswordRead(r) \/ PutUser(r) \/ CloseUser(r) \/ Reopen(r)
    \/ ReadKey(r) \/ RevokeKey(r) \/ RotateKey(r)

Boot ==
    \/ MigrateAdministrator \/ AdoptForMigrated \/ DropLegacyRecord \/ StartWithStoredUsers
    \/ (\E s \in Secrets : RestoreAdministrator(s)) \/ AdoptForRestored

Next ==
    \/ Boot \/ Restart
    \/ \E p \in sessions : Logout(p)
    \/ \E r \in Requests : Submit(r) \/ Step(r)

Spec == Init /\ [][Next]_vars

-----------------------------------------------------------------------------
(* Properties.                                                              *)

\* Every variable has its type.
TypeOK ==
    /\ phase \in {"migrate", "adopt", "drop", "provision", "adoptRestored", "serving", "refused"}
    /\ legacy \in Names \cup {None}
    /\ users \in [Names -> UserRecord \cup {None}]
    /\ keys \in [KeyIds -> AccessKeyRecord \cup {None, Revoked}]
    /\ sessions \subseteq Principal /\ raced \subseteq Names
    /\ job \in [Requests -> Jobs \cup {None}]
    /\ queue \in Seq(Requests) /\ Len(queue) <= IoQueueLimit

\* "The check that keeps a console reachable": while it serves, somebody can
\* administer it, however deletions, demotions and disablings overlap.
AdminRemains == phase = "serving" => EnabledAdministrators # {}

Closing(u) == \E r \in Running : job[r].pc = "close" /\ job[r].user = u

\* Whatever the session's copies of the role and the grants allow, the
\* account's row allows now.
Backed(p) ==
    /\ users[p.username] # None
    /\ \A b \in Buckets, a \in Permissions :
         GuardBucket(p, b, a) => may(users[p.username].role, users[p.username].buckets, b, a)

\* A session is never worth more than the account behind it, with any number
\* of threads, except while the request that changed the row is about to end
\* the session, and except for an account whose row was written while another
\* request was between reading it and opening a session with it; that ends
\* with the next change of the account that closes its sessions.
AuthorityIsCurrent == \A p \in sessions : Closing(p.username) \/ p.username \in raced \/ Backed(p)

\* What SessionStore promises without the second exception: "every change to a
\* user's role or status closes that user's sessions" (console_session.hpp), so
\* that a session never outlives what its account allows.
SessionsFollowAccounts == \A p \in sessions : Closing(p.username) \/ Backed(p)

\* "This is what makes disabling ... an account take effect on a tab that is
\* already open" (console_session.hpp): no session of a disabled account is
\* left once the request that disabled it has closed them.
SessionsEnabled ==
    \A p \in sessions : users[p.username] # None /\ users[p.username].disabled => Closing(p.username)

\* A key that is revoked and that no request under way is still rotating.
Gone(k) ==
    keys[k] = Revoked /\ \A r \in Running : ~(job[r].pc = "rotateKey" /\ job[r].key = k)

\* A revoked key that no rotation had read before it was revoked stays
\* revoked, with any number of threads and over restarts: no later request
\* brings it back.
RevokedStaysRevoked == [][\A k \in KeyIds : Gone(k) => Gone(k)']_vars

\* A key "stops resolving to anything at all the moment the key is revoked"
\* (console_api.cpp), and for good: no rotation under way writes its row back.
RevokedNeverReturns == [][\A k \in KeyIds : keys[k] = Revoked => keys'[k] = Revoked]_vars

\* "Startup adopts those into the migrated administrator account rather than
\* leaving them unattributable": once the console serves, every key acts for
\* an account.
KeysAttributed == phase = "serving" => \A k \in LiveKeys : keys[k].owner # None

=============================================================================
