--------------------------- MODULE ConsoleProofs ---------------------------
(***************************************************************************)
(* Safety of accounts, sessions and keys for every set of names, secrets,  *)
(* keys, buckets and requests. Types, the sessions and the revocation of   *)
(* keys are proved for any number of pool threads. That an administrator   *)
(* remains needs a pool of one thread: what a request has read is then     *)
(* still true when it writes.                                              *)
(***************************************************************************)
EXTENDS Console, FiniteSetTheorems, TLAPS

-----------------------------------------------------------------------------
(* Grants.                                                                  *)

\* Access to everything is a grant like any other.
LEMMA UnrestrictedType == Unrestricted \in BucketGrants(Buckets)
<1>1. <<>> \in [{} -> BucketAccess]
  OBVIOUS
<1>2. {} \in SUBSET Buckets
  OBVIOUS
<1> QED BY <1>1, <1>2 DEF Unrestricted, BucketGrants, BucketAccess

\* What the console stores of stated grants are grants.
LEMMA ReadGrantsType ==
    ASSUME NEW g \in BucketGrants(Buckets) PROVE readBucketGrants(g) \in BucketGrants(Buckets)
<1> DEFINE D == {b \in DOMAIN g.exceptions : g.exceptions[b] # g.fallback}
           f == [b \in D |-> g.exceptions[b]]
<1>1. PICK E \in SUBSET Buckets : g.exceptions \in [E -> BucketAccess]
  BY DEF BucketGrants
<1>2. f \in [D -> BucketAccess] /\ D \in SUBSET Buckets
  BY <1>1
<1>3. f \in UNION {[F -> BucketAccess] : F \in SUBSET Buckets}
  BY <1>2
<1>4. readBucketGrants(g) = [fallback |-> g.fallback, exceptions |-> f]
  BY DEF readBucketGrants, Restrict, BucketGrants
<1> QED BY <1>3, <1>4 DEF BucketGrants

-----------------------------------------------------------------------------
(* Types, and what a job holds at each of its steps.                        *)

UserOps == {"login", "create", "patch", "delete", "password"}

\* What the loop captured or the thread has read fits the step of the job.
JobFits(j) ==
    /\ j.op \in UserOps => j.user \in Names
    /\ j.op \notin UserOps => j.actor \in Names
    /\ (j.pc = "queued" /\ j.op \in {"revokeKey", "rotateKey"}) => j.key \in KeyIds
    /\ (j.pc = "queued" /\ j.op \in {"create", "password"}) => j.secret \in Secrets
    /\ (j.pc = "queued" /\ j.op = "create") =>
          j.role \in Roles /\ j.buckets \in BucketGrants(Buckets)
    /\ j.pc = "open" => j.op = "login" /\ j.rec \in UserRecord
    /\ j.pc = "count" => j.op \in {"patch", "delete"} /\ j.rec \in UserRecord
    /\ j.pc = "revoke" => j.op = "delete"
    /\ j.pc = "put" => j.op \in {"create", "patch", "password"} /\ j.rec \in UserRecord
    /\ j.pc = "close" => j.op \in UserOps /\ (Self(j) => j.rec \in UserRecord)
    /\ j.pc = "reopen" => Self(j) /\ j.rec \in UserRecord
    /\ j.pc \in {"revokeKey", "rotateKey"} =>
          j.op = j.pc /\ j.key \in KeyIds /\ j.rec \in AccessKeyRecord

\* What waits is queued once and has not begun.
QueueFits ==
    /\ \A i \in 1 .. Len(queue) : job[queue[i]] # None /\ job[queue[i]].pc = "queued"
    /\ \A i, k \in 1 .. Len(queue) : queue[i] = queue[k] => i = k

JobsOK ==
    /\ job \in [Requests -> Jobs \cup {None}]
    /\ \A r \in Requests : job[r] # None => JobFits(job[r])
    /\ queue \in Seq(Requests) /\ Len(queue) <= IoQueueLimit
    /\ QueueFits

StoreOK ==
    /\ phase \in {"migrate", "adopt", "drop", "provision", "adoptRestored", "serving", "refused"}
    /\ legacy \in Names \cup {None}
    /\ users \in [Names -> UserRecord \cup {None}]
    /\ keys \in [KeyIds -> AccessKeyRecord \cup {None, Revoked}]
    /\ sessions \subseteq Principal
    /\ raced \subseteq Names

TypeInv == StoreOK /\ JobsOK

\* The three ways in which the jobs change: one is posted, one begins, one
\* goes on or ends.
LEMMA PostStep ==
    ASSUME JobsOK, NEW r \in Requests, NEW x \in Jobs, JobFits(x), x.pc = "queued", Post(r, x)
    PROVE  JobsOK'
<1> USE DEF JobsOK, Post
<1>1. job' \in [Requests -> Jobs \cup {None}]
  OBVIOUS
<1>2. \A q \in Requests : job'[q] # None => JobFits(job'[q])
  OBVIOUS
<1>3. queue' \in Seq(Requests) /\ Len(queue') = Len(queue) + 1 /\ Len(queue') <= IoQueueLimit
  BY ConsoleAssumption
<1>4. \A i \in 1 .. Len(queue') : queue'[i] = IF i <= Len(queue) THEN queue[i] ELSE r
  BY <1>3
<1>5. x # None
  BY ConsoleAssumption
<1>6. \A i \in 1 .. Len(queue) : queue[i] \in Requests /\ queue[i] # r
  BY DEF QueueFits
<1>7. QueueFits'
  BY <1>1, <1>3, <1>4, <1>5, <1>6 DEF QueueFits
<1> QED BY <1>1, <1>2, <1>3, <1>7

\* A thread takes the head of the queue.
LEMMA BeginStep ==
    ASSUME JobsOK, NEW r \in Requests, NEW op, Begin(r, op),
           NEW x \in Jobs \cup {None}, x # None => JobFits(x), job' = [job EXCEPT ![r] = x]
    PROVE  JobsOK'
<1> USE DEF JobsOK, Begin
<1>1. queue # <<>> /\ r = queue[1] /\ Len(queue) >= 1
  OBVIOUS
<1>2. queue' \in Seq(Requests) /\ Len(queue') = Len(queue) - 1
  OBVIOUS
<1>3. \A i \in 1 .. Len(queue') : queue'[i] = queue[i + 1] /\ i + 1 \in 1 .. Len(queue)
  BY <1>2
<1>4. \A i \in 1 .. Len(queue') : queue'[i] # r /\ queue'[i] \in Requests
  BY <1>1, <1>2, <1>3 DEF QueueFits
<1>5. QueueFits'
  BY <1>2, <1>3, <1>4 DEF QueueFits
<1> QED BY <1>2, <1>5, ConsoleAssumption

\* A thread goes on with a job it has begun.
LEMMA AtStep ==
    ASSUME JobsOK, NEW r \in Requests, NEW pc, At(r, pc), pc # "queued",
           NEW x \in Jobs \cup {None}, x # None => JobFits(x), job' = [job EXCEPT ![r] = x]
    PROVE  JobsOK'
<1>1. \A i \in 1 .. Len(queue) : queue[i] \in Requests /\ queue[i] # r
  BY DEF JobsOK, QueueFits, At
<1>2. QueueFits'
  BY <1>1 DEF JobsOK, QueueFits, At
<1> QED BY <1>2 DEF JobsOK, At

\* A job that begins is there, queued, and holds what its operation needs.
LEMMA BegunJob ==
    ASSUME JobsOK, NEW r \in Requests, NEW op, Begin(r, op)
    PROVE  job[r] \in Jobs /\ job[r].op = op /\ job[r].pc = "queued" /\ JobFits(job[r])
<1>1. r = queue[1] /\ 1 \in 1 .. Len(queue)
  BY DEF JobsOK, Begin
<1> QED BY <1>1 DEF JobsOK, QueueFits, Begin

\* A job as it is posted.
LEMMA JobType ==
    ASSUME NEW op \in UserOps \cup {"createKey", "revokeKey", "rotateKey"},
           NEW actor \in Names \cup {None}, NEW user \in Names \cup {None}
    PROVE  /\ Job(op, actor, user) \in Jobs
           /\ Job(op, actor, user).op = op /\ Job(op, actor, user).actor = actor
           /\ Job(op, actor, user).user = user /\ Job(op, actor, user).pc = "queued"
BY DEF Job, Jobs, UserOps

PCs == {"queued", "open", "count", "revoke", "put", "close", "reopen", "revokeKey", "rotateKey"}

\* A job with one field replaced is a job.
LEMMA FieldType ==
    ASSUME NEW j \in Jobs
    PROVE  /\ \A v \in PCs : [j EXCEPT !.pc = v] \in Jobs
           /\ \A v \in UserRecord \cup AccessKeyRecord \cup {None} : [j EXCEPT !.rec = v] \in Jobs
           /\ \A v \in SUBSET KeyIds : [j EXCEPT !.todo = v] \in Jobs
           /\ \A v \in Secrets : [j EXCEPT !.secret = v] \in Jobs
           /\ \A v \in Secrets \cup {None} : [j EXCEPT !.current = v] \in Jobs
           /\ \A v \in Roles \cup {None} : [j EXCEPT !.role = v] \in Jobs
           /\ \A v \in BOOLEAN \cup {None} : [j EXCEPT !.disabled = v] \in Jobs
           /\ \A v \in BucketGrants(Buckets) \cup {None} : [j EXCEPT !.buckets = v] \in Jobs
           /\ \A v \in BOOLEAN : [j EXCEPT !.any = v] \in Jobs
           /\ \A v \in KeyIds : [j EXCEPT !.key = v] \in Jobs
<1> USE DEF Jobs, PCs
<1>1. \A v \in PCs : [j EXCEPT !.pc = v] \in Jobs
  OBVIOUS
<1>2. \A v \in UserRecord \cup AccessKeyRecord \cup {None} : [j EXCEPT !.rec = v] \in Jobs
  OBVIOUS
<1>3. \A v \in SUBSET KeyIds : [j EXCEPT !.todo = v] \in Jobs
  OBVIOUS
<1>4. \A v \in Secrets : [j EXCEPT !.secret = v] \in Jobs
  OBVIOUS
<1>5. \A v \in Secrets \cup {None} : [j EXCEPT !.current = v] \in Jobs
  OBVIOUS
<1>6. \A v \in Roles \cup {None} : [j EXCEPT !.role = v] \in Jobs
  OBVIOUS
<1>7. \A v \in BOOLEAN \cup {None} : [j EXCEPT !.disabled = v] \in Jobs
  OBVIOUS
<1>8. \A v \in BucketGrants(Buckets) \cup {None} : [j EXCEPT !.buckets = v] \in Jobs
  OBVIOUS
<1>9. \A v \in BOOLEAN : [j EXCEPT !.any = v] \in Jobs
  OBVIOUS
<1>10. \A v \in KeyIds : [j EXCEPT !.key = v] \in Jobs
  OBVIOUS
<1> QED BY <1>1, <1>2, <1>3, <1>4, <1>5, <1>6, <1>7, <1>8, <1>9, <1>10

\* A step replaces where a job is and what it holds, nothing else.
Held(j, pc, rec) == [j EXCEPT !.pc = pc, !.rec = rec]

\* A job that goes on with a record it has read is a job, and keeps the rest.
LEMMA HeldType ==
    ASSUME NEW j \in Jobs, NEW pc \in PCs, NEW rec \in UserRecord \cup AccessKeyRecord \cup {None}
    PROVE  /\ Held(j, pc, rec) \in Jobs
           /\ Held(j, pc, rec).op = j.op /\ Held(j, pc, rec).actor = j.actor
           /\ Held(j, pc, rec).user = j.user /\ Held(j, pc, rec).key = j.key
           /\ Held(j, pc, rec).pc = pc /\ Held(j, pc, rec).rec = rec
<1> DEFINE y == [j EXCEPT !.pc = pc]
           x == [y EXCEPT !.rec = rec]
<1>1. y \in Jobs /\ y.op = j.op /\ y.actor = j.actor /\ y.user = j.user /\ y.key = j.key
      /\ y.pc = pc
  BY FieldType DEF Jobs
<1>2. Held(j, pc, rec) = x
  BY DEF Held
<1> HIDE DEF y
<1>3. x \in Jobs /\ x.op = y.op /\ x.actor = y.actor /\ x.user = y.user /\ x.key = y.key
      /\ x.pc = y.pc /\ x.rec = rec
  BY <1>1, FieldType DEF Jobs
<1> HIDE DEF x
<1> QED BY <1>1, <1>2, <1>3

\* The same for the keys that go with an account.
Listed(j, todo) == [j EXCEPT !.pc = "revoke", !.todo = todo]

\* A deletion that has listed the keys to revoke is a job, and keeps the rest.
LEMMA ListedType ==
    ASSUME NEW j \in Jobs, NEW todo \in SUBSET KeyIds
    PROVE  /\ Listed(j, todo) \in Jobs
           /\ Listed(j, todo).op = j.op /\ Listed(j, todo).user = j.user
           /\ Listed(j, todo).actor = j.actor
           /\ Listed(j, todo).pc = "revoke" /\ Listed(j, todo).todo = todo
<1> DEFINE y == [j EXCEPT !.pc = "revoke"]
           x == [y EXCEPT !.todo = todo]
<1>1. y \in Jobs /\ y.op = j.op /\ y.actor = j.actor /\ y.user = j.user /\ y.pc = "revoke"
  <2>1. "revoke" \in PCs
    BY DEF PCs
  <2>2. y \in Jobs
    BY <2>1, FieldType
  <2> QED BY <2>2 DEF Jobs
<1>2. Listed(j, todo) = x
  BY DEF Listed
<1> HIDE DEF y
<1>3. x \in Jobs /\ x.op = y.op /\ x.actor = y.actor /\ x.user = y.user
      /\ x.pc = y.pc /\ x.todo = todo
  BY <1>1, FieldType DEF Jobs
<1> HIDE DEF x
<1> QED BY <1>1, <1>2, <1>3

\* A job whose arguments have served their purpose.
Settled(j, pc, rec) == [Job(j.op, j.actor, j.user) EXCEPT !.pc = pc, !.rec = rec]

\* A job that has used its arguments is a job, and keeps whom it is about.
LEMMA SettledType ==
    ASSUME NEW j \in Jobs, NEW pc \in PCs, NEW rec \in UserRecord \cup {None}
    PROVE  /\ Settled(j, pc, rec) \in Jobs
           /\ Settled(j, pc, rec).op = j.op /\ Settled(j, pc, rec).actor = j.actor
           /\ Settled(j, pc, rec).user = j.user
           /\ Settled(j, pc, rec).pc = pc /\ Settled(j, pc, rec).rec = rec
<1>1. /\ j.op \in UserOps \cup {"createKey", "revokeKey", "rotateKey"}
      /\ j.actor \in Names \cup {None} /\ j.user \in Names \cup {None}
  BY DEF Jobs, UserOps
<1> DEFINE k == Job(j.op, j.actor, j.user)
           y == [k EXCEPT !.pc = pc]
           x == [y EXCEPT !.rec = rec]
<1>2. k \in Jobs /\ k.op = j.op /\ k.actor = j.actor /\ k.user = j.user
  BY <1>1, JobType
<1>3. Settled(j, pc, rec) = x
  BY DEF Settled
<1> HIDE DEF k
<1>4. y \in Jobs /\ y.op = k.op /\ y.actor = k.actor /\ y.user = k.user /\ y.pc = pc
  BY <1>2, FieldType DEF Jobs
<1> HIDE DEF y
<1>5. /\ x \in Jobs /\ x.pc = pc /\ x.rec = rec /\ x.op = y.op /\ x.actor = y.actor
      /\ x.user = y.user
  BY <1>4, FieldType DEF Jobs
<1> HIDE DEF x
<1> QED BY <1>2, <1>3, <1>4, <1>5

\* What the loop posts is a queued job with the arguments its operation needs.
LEMMA PostedLogin ==
    ASSUME NEW u \in Names, NEW s \in Secrets
    PROVE  LET x == [Job("login", None, u) EXCEPT !.secret = s]
           IN  x \in Jobs /\ x.pc = "queued" /\ JobFits(x)
<1> DEFINE j == Job("login", None, u)
           x == [j EXCEPT !.secret = s]
<1>1. j \in Jobs /\ j.op = "login" /\ j.user = u /\ j.pc = "queued"
  BY JobType DEF UserOps
<1> HIDE DEF j
<1>2. x \in Jobs /\ x.pc = "queued" /\ x.op = "login" /\ x.user = u
  BY <1>1, FieldType DEF Jobs
<1>3. JobFits(x)
  BY <1>2 DEF JobFits, UserOps
<1> QED BY <1>2, <1>3 DEF j

\* The same for the creation of an account.
LEMMA PostedCreate ==
    ASSUME NEW u \in Names, NEW s \in Secrets, NEW role \in Roles, NEW g \in BucketGrants(Buckets)
    PROVE  LET x == [Job("create", None, u) EXCEPT !.secret = s, !.role = role, !.buckets = g]
           IN  x \in Jobs /\ x.pc = "queued" /\ JobFits(x)
<1> DEFINE j == Job("create", None, u)
           y == [j EXCEPT !.secret = s]
           z == [y EXCEPT !.role = role]
           x == [z EXCEPT !.buckets = g]
<1>1. j \in Jobs /\ j.op = "create" /\ j.user = u /\ j.pc = "queued"
  BY JobType DEF UserOps
<1> HIDE DEF j
<1>2. y \in Jobs /\ y.op = "create" /\ y.user = u /\ y.pc = "queued" /\ y.secret = s
  BY <1>1, FieldType DEF Jobs
<1> HIDE DEF y
<1>3. z \in Jobs /\ z.op = "create" /\ z.user = u /\ z.pc = "queued" /\ z.secret = s
      /\ z.role = role
  BY <1>2, FieldType DEF Jobs
<1> HIDE DEF z
<1>4. x \in Jobs /\ x.op = "create" /\ x.user = u /\ x.pc = "queued" /\ x.secret = s
      /\ x.role = role /\ x.buckets = g
  BY <1>3, FieldType DEF Jobs
<1>5. JobFits(x)
  BY <1>4 DEF JobFits, UserOps
<1> QED BY <1>4, <1>5 DEF j, y, z

\* The same for a change of an account.
LEMMA PostedPatch ==
    ASSUME NEW u \in Names, NEW role \in Roles \cup {None}, NEW d \in BOOLEAN \cup {None},
           NEW g \in BucketGrants(Buckets) \cup {None}
    PROVE  LET x == [Job("patch", None, u) EXCEPT !.role = role, !.disabled = d, !.buckets = g]
           IN  x \in Jobs /\ x.pc = "queued" /\ JobFits(x)
<1> DEFINE j == Job("patch", None, u)
           y == [j EXCEPT !.role = role]
           z == [y EXCEPT !.disabled = d]
           x == [z EXCEPT !.buckets = g]
<1>1. j \in Jobs /\ j.op = "patch" /\ j.user = u /\ j.pc = "queued"
  <2>1. "patch" \in UserOps \cup {"createKey", "revokeKey", "rotateKey"}
    BY DEF UserOps
  <2>2. None \in Names \cup {None} /\ u \in Names \cup {None}
    OBVIOUS
  <2> QED BY ONLY <2>1, <2>2, JobType
<1> HIDE DEF j
<1>2. y \in Jobs /\ y.op = "patch" /\ y.user = u /\ y.pc = "queued"
  BY <1>1, FieldType DEF Jobs
<1> HIDE DEF y
<1>3. z \in Jobs /\ z.op = "patch" /\ z.user = u /\ z.pc = "queued"
  BY <1>2, FieldType DEF Jobs
<1> HIDE DEF z
<1>4. x \in Jobs /\ x.op = "patch" /\ x.user = u /\ x.pc = "queued"
  BY <1>3, FieldType DEF Jobs
<1>5. JobFits(x)
  BY <1>4 DEF JobFits, UserOps
<1> QED BY <1>4, <1>5 DEF j, y, z

PasswordJob(actor, u, old, s) ==
    [Job("password", actor, u) EXCEPT !.current = old, !.secret = s]

\* The same for a change of a password.
LEMMA PostedPassword ==
    ASSUME NEW actor \in Names \cup {None}, NEW u \in Names, NEW old \in Secrets \cup {None},
           NEW s \in Secrets
    PROVE  /\ PasswordJob(actor, u, old, s) \in Jobs /\ PasswordJob(actor, u, old, s).pc = "queued"
           /\ JobFits(PasswordJob(actor, u, old, s))
<1> DEFINE j == Job("password", actor, u)
           y == [j EXCEPT !.current = old]
           x == [y EXCEPT !.secret = s]
<1>1. j \in Jobs /\ j.op = "password" /\ j.user = u /\ j.pc = "queued"
  BY JobType DEF UserOps
<1> HIDE DEF j
<1>2. y \in Jobs /\ y.op = "password" /\ y.user = u /\ y.pc = "queued"
  BY <1>1, FieldType DEF Jobs
<1> HIDE DEF y
<1>3. x \in Jobs /\ x.op = "password" /\ x.user = u /\ x.pc = "queued" /\ x.secret = s
  BY <1>2, FieldType DEF Jobs
<1>4. JobFits(x)
  BY <1>3 DEF JobFits, UserOps
<1> QED BY <1>3, <1>4 DEF j, y, PasswordJob

\* The same for the revocation or rotation of a key.
LEMMA PostedKeyChange ==
    ASSUME NEW op \in {"revokeKey", "rotateKey"}, NEW actor \in Names, NEW any \in BOOLEAN,
           NEW k \in KeyIds
    PROVE  LET x == [Job(op, actor, None) EXCEPT !.any = any, !.key = k]
           IN  x \in Jobs /\ x.pc = "queued" /\ JobFits(x)
<1> DEFINE j == Job(op, actor, None)
           y == [j EXCEPT !.any = any]
           x == [y EXCEPT !.key = k]
<1>1. j \in Jobs /\ j.op = op /\ j.actor = actor /\ j.pc = "queued"
  BY JobType DEF UserOps
<1> HIDE DEF j
<1>2. y \in Jobs /\ y.op = op /\ y.actor = actor /\ y.pc = "queued"
  BY <1>1, FieldType DEF Jobs
<1> HIDE DEF y
<1>3. x \in Jobs /\ x.op = op /\ x.actor = actor /\ x.pc = "queued" /\ x.key = k
  BY <1>2, FieldType DEF Jobs
<1>4. JobFits(x)
  BY <1>3 DEF JobFits, UserOps
<1> QED BY <1>3, <1>4 DEF j, y

\* Whatever the event loop admits, it only posts a job.
Posts(r) ==
    /\ \E x \in Jobs : JobFits(x) /\ x.pc = "queued" /\ Post(r, x)
    /\ UNCHANGED <<phase, raced, store, sessions>>

\* Every request the loop admits posts one such job and changes nothing else.
LEMMA SubmitPosts ==
    ASSUME TypeInv, NEW r \in Requests, Submit(r)
    PROVE  Posts(r)
<1> USE DEF Posts
<1>1. ASSUME NEW u \in Names, NEW s \in Secrets, SubmitLogin(r, u, s)
      PROVE  Posts(r)
  BY <1>1, PostedLogin DEF SubmitLogin
<1>2. ASSUME NEW p \in sessions, NEW u \in Names, NEW s \in Secrets, NEW role \in RoleChoices,
             NEW g \in GrantChoices \cup {Unrestricted}, SubmitCreateUser(r, p, u, s, role, g)
      PROVE  Posts(r)
  <2>1. role \in Roles /\ readBucketGrants(g) \in BucketGrants(Buckets)
    BY ConsoleAssumption, UnrestrictedType, ReadGrantsType
  <2> QED BY <1>2, <2>1, PostedCreate DEF SubmitCreateUser
<1>3. ASSUME NEW p \in sessions, NEW u \in Names, NEW s \in Secrets, NEW c \in Secrets,
             SubmitPassword(r, p, u, c, s)
      PROVE  Posts(r)
  <2> DEFINE actor == IF u = p.username THEN u ELSE None
             old == IF u = p.username THEN c ELSE None
  <2>1. actor \in Names \cup {None} /\ old \in Secrets \cup {None}
    OBVIOUS
  <2>2. Post(r, PasswordJob(actor, u, old, s)) /\ UNCHANGED <<phase, raced, store, sessions>>
    BY <1>3 DEF SubmitPassword, PasswordJob
  <2> HIDE DEF actor, old
  <2> QED BY <2>1, <2>2, PostedPassword
<1>4. ASSUME NEW p \in sessions, NEW u \in Names, NEW role \in RoleChoices \cup {None},
             NEW d \in BOOLEAN \cup {None}, NEW g \in GrantChoices \cup {None},
             SubmitPatch(r, p, u, role, d, g)
      PROVE  Posts(r)
  <2> DEFINE grants == IF g = None THEN None ELSE readBucketGrants(g)
  <2>1. role \in Roles \cup {None} /\ grants \in BucketGrants(Buckets) \cup {None}
    BY ConsoleAssumption, ReadGrantsType
  <2> DEFINE x == [Job("patch", None, u) EXCEPT !.role = role, !.disabled = d, !.buckets = grants]
  <2>2. Post(r, x) /\ UNCHANGED <<phase, raced, store, sessions>>
    BY <1>4 DEF SubmitPatch
  <2> HIDE DEF grants
  <2>3. x \in Jobs /\ x.pc = "queued" /\ JobFits(x)
    BY <2>1, PostedPatch
  <2> HIDE DEF x
  <2> QED BY <2>2, <2>3
<1>5. ASSUME NEW p \in sessions, NEW u \in Names, SubmitDelete(r, p, u)
      PROVE  Posts(r)
  <2>1. Job("delete", None, u) \in Jobs /\ Job("delete", None, u).pc = "queued"
        /\ Job("delete", None, u).op = "delete" /\ Job("delete", None, u).user = u
    BY JobType DEF UserOps
  <2>2. JobFits(Job("delete", None, u))
    BY <2>1 DEF JobFits, UserOps
  <2> QED BY <1>5, <2>1, <2>2 DEF SubmitDelete
<1>6. ASSUME NEW p \in sessions, SubmitCreateKey(r, p)
      PROVE  Posts(r)
  <2> DEFINE j == Job("createKey", p.username, None)
  <2>1. p.username \in Names
    BY DEF TypeInv, StoreOK, Principal
  <2>2. j \in Jobs /\ j.pc = "queued" /\ j.op = "createKey" /\ j.actor = p.username
    BY <2>1, JobType DEF UserOps
  <2>3. Post(r, j) /\ UNCHANGED <<phase, raced, store, sessions>>
    BY <1>6 DEF SubmitCreateKey
  <2> HIDE DEF j
  <2>4. JobFits(j)
    BY <2>1, <2>2 DEF JobFits, UserOps
  <2> QED BY <2>2, <2>3, <2>4
<1>7. ASSUME NEW p \in sessions, NEW k \in LiveKeys, NEW op \in {"revokeKey", "rotateKey"},
             SubmitKeyChange(r, p, op, k)
      PROVE  Posts(r)
  <2>1. p.username \in Names /\ k \in KeyIds
    BY DEF TypeInv, StoreOK, Principal, LiveKeys
  <2>2. allows(p.role, "user:write") \in BOOLEAN
    BY DEF allows
  <2>3. Post(r, [Job(op, p.username, None) EXCEPT
                   !.any = allows(p.role, "user:write"), !.key = k])
        /\ UNCHANGED <<phase, raced, store, sessions>>
    BY <1>7 DEF SubmitKeyChange
  <2> QED BY <2>1, <2>2, <2>3, PostedKeyChange
<1> QED BY <1>1, <1>2, <1>3, <1>4, <1>5, <1>6, <1>7 DEF Submit

\* Posting such a job keeps the types.
LEMMA SubmitType ==
    ASSUME TypeInv, NEW r \in Requests, Posts(r)
    PROVE  TypeInv'
<1>1. JobsOK'
  BY PostStep DEF TypeInv, Posts
<1>2. StoreOK'
  BY DEF TypeInv, StoreOK, Posts, store
<1> QED BY <1>1, <1>2 DEF TypeInv

\* Nothing in start-up touches a job.
LEMMA BootType ==
    ASSUME TypeInv, Boot
    PROVE  TypeInv'
<1> USE DEF TypeInv, StoreOK
<1>1. UNCHANGED <<sessions, job, queue, raced>>
  BY DEF Boot, MigrateAdministrator, AdoptForMigrated, DropLegacyRecord, StartWithStoredUsers,
         RestoreAdministrator, AdoptForRestored, Serving
<1>2. JobsOK'
  BY <1>1 DEF JobsOK, QueueFits
<1>3. ASSUME NEW s \in Secrets PROVE MigratedAdministrator(s) \in UserRecord
  BY UnrestrictedType DEF MigratedAdministrator, User, UserRecord, Roles
<1>4. ASSUME NEW k \in KeyIds, NEW owner \in Names \cup {None}, AdoptKey(k, owner)
      PROVE  keys' \in [KeyIds -> AccessKeyRecord \cup {None, Revoked}]
  <2>1. keys[k] \in AccessKeyRecord
    BY <1>4 DEF AdoptKey, OwnedBy, LiveKeys
  <2>2. [keys[k] EXCEPT !.owner = owner] \in AccessKeyRecord
    BY <2>1 DEF AccessKeyRecord
  <2>3. keys' = [keys EXCEPT ![k] = [keys[k] EXCEPT !.owner = owner]]
    BY <1>4 DEF AdoptKey
  <2> QED BY <2>2, <2>3
<1>5. CASE MigrateAdministrator
  BY <1>1, <1>2, <1>3, <1>5 DEF MigrateAdministrator
<1>6. CASE AdoptForMigrated
  BY <1>1, <1>2, <1>4, <1>6 DEF AdoptForMigrated
<1>7. CASE DropLegacyRecord
  BY <1>1, <1>2, <1>7 DEF DropLegacyRecord
<1>8. CASE StartWithStoredUsers
  BY <1>1, <1>2, <1>8 DEF StartWithStoredUsers, store
<1>9. CASE \E s \in Secrets : RestoreAdministrator(s)
  BY <1>1, <1>2, <1>3, <1>9, ConsoleAssumption DEF RestoreAdministrator
<1>10. CASE AdoptForRestored
  BY <1>1, <1>2, <1>4, <1>10, ConsoleAssumption DEF AdoptForRestored
<1> QED BY <1>5, <1>6, <1>7, <1>8, <1>9, <1>10 DEF Boot

\* A restart drops the jobs and the sessions and keeps the types.
LEMMA RestartType ==
    ASSUME TypeInv, Restart
    PROVE  TypeInv'
<1>1. queue' \in Seq(Requests) /\ Len(queue') = 0
  BY DEF Restart
<1>2. JobsOK'
  BY <1>1, ConsoleAssumption DEF Restart, JobsOK, QueueFits
<1>3. StoreOK'
  BY DEF Restart, TypeInv, StoreOK, store
<1> QED BY <1>2, <1>3 DEF TypeInv

\* The first start is typed.
LEMMA InitType ==
    ASSUME Init
    PROVE  TypeInv
<1>1. queue \in Seq(Requests) /\ Len(queue) = 0
  BY DEF Init
<1>2. JobsOK
  BY <1>1, ConsoleAssumption DEF Init, JobsOK, QueueFits
<1>3. [owner |-> None] \in AccessKeyRecord
  BY DEF AccessKeyRecord
<1>4. StoreOK
  BY <1>3 DEF Init, StoreOK
<1> QED BY <1>2, <1>4 DEF TypeInv

\* A job that goes on with a record is written down as a whole.
LEMMA HoldWrites ==
    ASSUME TypeInv, NEW r \in Requests, NEW pc, NEW rec, Hold(r, pc, rec)
    PROVE  job' = [job EXCEPT ![r] = Held(job[r], pc, rec)]
BY DEF TypeInv, JobsOK, Hold, Held

\* So is one that keeps the record alone.
LEMMA SettleWrites ==
    ASSUME TypeInv, NEW r \in Requests, NEW pc, NEW rec, Settle(r, pc, rec)
    PROVE  job' = [job EXCEPT ![r] = Settled(job[r], pc, rec)]
BY DEF Settle, Settled

\* The ways of writing a job down, as the one job they write.
LEMMA JobWrites ==
    ASSUME TypeInv, NEW r \in Requests, NEW pc, NEW rec, NEW k
    PROVE  /\ Finish(r) => job' = [job EXCEPT ![r] = None]
           /\ Goto(r, pc) => job' = [job EXCEPT ![r] = [job[r] EXCEPT !.pc = pc]]
           /\ Hold(r, pc, rec) => job' = [job EXCEPT ![r] = Held(job[r], pc, rec)]
           /\ Settle(r, pc, rec) => job' = [job EXCEPT ![r] = Settled(job[r], pc, rec)]
           /\ job' = [job EXCEPT ![r].pc = "revoke", ![r].todo = rec]
                => job' = [job EXCEPT ![r] = Listed(job[r], rec)]
           /\ job' = [job EXCEPT ![r].todo = @ \ {k}]
                => job' = [job EXCEPT ![r] = [job[r] EXCEPT !.todo = job[r].todo \ {k}]]
<1> USE DEF TypeInv, JobsOK
<1>1. Finish(r) => job' = [job EXCEPT ![r] = None]
  BY DEF Finish
<1>2. Goto(r, pc) => job' = [job EXCEPT ![r] = [job[r] EXCEPT !.pc = pc]]
  BY DEF Goto
<1>3. Hold(r, pc, rec) => job' = [job EXCEPT ![r] = Held(job[r], pc, rec)]
  BY HoldWrites
<1>4. Settle(r, pc, rec) => job' = [job EXCEPT ![r] = Settled(job[r], pc, rec)]
  BY SettleWrites
<1>5. job' = [job EXCEPT ![r].pc = "revoke", ![r].todo = rec]
        => job' = [job EXCEPT ![r] = Listed(job[r], rec)]
  BY DEF Listed
<1>6. job' = [job EXCEPT ![r].todo = @ \ {k}]
        => job' = [job EXCEPT ![r] = [job[r] EXCEPT !.todo = job[r].todo \ {k}]]
  OBVIOUS
<1> QED BY <1>1, <1>2, <1>3, <1>4, <1>5, <1>6

\* The record a PATCH writes is a record.
LEMMA PatchedType ==
    ASSUME NEW j \in Jobs, j.rec \in UserRecord
    PROVE  Patched(j) \in UserRecord
<1>1. j.rec.hash \in Secrets /\ j.rec.role \in Roles /\ j.rec.disabled \in BOOLEAN
      /\ j.rec.buckets \in BucketGrants(Buckets)
  BY DEF UserRecord
<1>2. Choose(j.role, j.rec.role) \in Roles
  BY <1>1 DEF Jobs, Choose
<1>3. Choose(j.disabled, j.rec.disabled) \in BOOLEAN
  BY <1>1 DEF Jobs, Choose
<1>4. Choose(j.buckets, j.rec.buckets) \in BucketGrants(Buckets)
  BY <1>1 DEF Jobs, Choose
<1> QED BY <1>1, <1>2, <1>3, <1>4, UnrestrictedType DEF Patched, User, UserRecord

\* Where a running job can be, it holds what its step needs.
LEMMA AtJob ==
    ASSUME TypeInv, NEW r \in Requests, NEW pc, At(r, pc)
    PROVE  job[r] \in Jobs /\ job[r].pc = pc /\ JobFits(job[r])
BY DEF TypeInv, JobsOK, At

\* A job that ends leaves nothing behind.
LEMMA FinishBegun ==
    ASSUME TypeInv, NEW r \in Requests, NEW op, Begin(r, op), Finish(r)
    PROVE  JobsOK'
BY BeginStep, JobWrites DEF TypeInv

\* A job that ends leaves the rest of the pool as it was.
LEMMA FinishAt ==
    ASSUME TypeInv, NEW r \in Requests, NEW pc \in PCs \ {"queued"}, At(r, pc), Finish(r)
    PROVE  JobsOK'
BY AtStep, JobWrites DEF TypeInv

\* What a job goes on with fits the step it goes to.
LEMMA SettledFits ==
    ASSUME NEW j \in Jobs, j.op \in UserOps, j.user \in Names,
           NEW pc \in {"open", "put", "close"}, NEW rec \in UserRecord \cup {None},
           pc = "open" => j.op = "login" /\ rec \in UserRecord,
           pc = "put" => j.op \in {"create", "patch", "password"} /\ rec \in UserRecord,
           pc = "close" /\ Self(j) => rec \in UserRecord
    PROVE  Settled(j, pc, rec) \in Jobs /\ JobFits(Settled(j, pc, rec))
<1> DEFINE x == Settled(j, pc, rec)
<1>0. pc \in PCs
  BY DEF PCs
<1>1. x \in Jobs /\ x.op = j.op /\ x.actor = j.actor /\ x.user = j.user /\ x.pc = pc /\ x.rec = rec
  BY <1>0, SettledType
<1> HIDE DEF x
<1>2. JobFits(x)
  BY <1>1 DEF JobFits, UserOps, Self
<1> QED BY <1>1, <1>2 DEF x

\* A job that has just begun may settle what it is to write.
LEMMA SettleBegun ==
    ASSUME TypeInv, NEW r \in Requests, NEW op \in {"login", "create", "password"}, Begin(r, op),
           NEW pc \in {"open", "put"}, pc = "open" <=> op = "login", NEW rec \in UserRecord,
           Settle(r, pc, rec)
    PROVE  JobsOK'
<1> DEFINE x == Settled(job[r], pc, rec)
<1>1. job[r] \in Jobs /\ job[r].op = op /\ job[r].user \in Names
  BY BegunJob DEF TypeInv, JobFits, UserOps
<1>2. x \in Jobs /\ JobFits(x)
  BY <1>1, SettledFits DEF UserOps
<1>3. job' = [job EXCEPT ![r] = x]
  BY SettleWrites
<1> HIDE DEF x
<1> QED BY <1>2, <1>3, BeginStep DEF TypeInv

\* A job under way may settle what it is to write, or that it has written it.
LEMMA SettleAt ==
    ASSUME TypeInv, NEW r \in Requests, NEW from \in {"count", "put", "revoke"}, At(r, from),
           NEW pc \in {"put", "close"}, NEW rec \in UserRecord \cup {None},
           pc = "put" => job[r].op = "patch" /\ rec \in UserRecord,
           pc = "close" /\ Self(job[r]) => rec \in UserRecord,
           Settle(r, pc, rec)
    PROVE  JobsOK'
<1> DEFINE x == Settled(job[r], pc, rec)
<1>1. job[r] \in Jobs /\ job[r].op \in UserOps /\ job[r].user \in Names
  BY AtJob DEF JobFits, UserOps
<1>2. x \in Jobs /\ JobFits(x)
  BY <1>1, SettledFits DEF UserOps
<1>3. job' = [job EXCEPT ![r] = x]
  BY SettleWrites
<1> HIDE DEF x
<1> QED BY <1>2, <1>3, AtStep DEF TypeInv

\* The first read of a PATCH, a DELETE or a change of a key.
LEMMA HoldBegun ==
    ASSUME TypeInv, NEW r \in Requests, NEW op \in {"patch", "delete", "revokeKey", "rotateKey"},
           Begin(r, op), NEW pc \in {"count", "revokeKey", "rotateKey"},
           NEW rec \in UserRecord \cup AccessKeyRecord,
           pc = "count" => op \in UserOps /\ rec \in UserRecord,
           pc # "count" => op = pc /\ rec \in AccessKeyRecord,
           Hold(r, pc, rec)
    PROVE  JobsOK'
<1> DEFINE x == Held(job[r], pc, rec)
<1>1. job[r] \in Jobs /\ job[r].op = op /\ JobFits(job[r]) /\ job[r].pc = "queued"
  BY BegunJob DEF TypeInv
<1>2. x \in Jobs /\ x.op = op /\ x.actor = job[r].actor /\ x.user = job[r].user
      /\ x.key = job[r].key /\ x.pc = pc /\ x.rec = rec
  <2>1. pc \in PCs /\ rec \in UserRecord \cup AccessKeyRecord \cup {None}
    BY DEF PCs
  <2> QED BY <1>1, <2>1, HeldType
<1>3. job' = [job EXCEPT ![r] = x]
  BY HoldWrites
<1> HIDE DEF x
<1>4. JobFits(x)
  BY <1>1, <1>2 DEF JobFits, UserOps, Self
<1> QED BY <1>2, <1>3, <1>4, BeginStep DEF TypeInv

\* Every step of a pool thread keeps the types.
LEMMA StepType ==
    ASSUME TypeInv, NEW r \in Requests, Step(r)
    PROVE  TypeInv'
<1> USE DEF TypeInv
<1> DEFINE j == job[r]
<1>0. users \in [Names -> UserRecord \cup {None}]
      /\ keys \in [KeyIds -> AccessKeyRecord \cup {None, Revoked}]
  BY DEF StoreOK
<1>a. ASSUME UNCHANGED <<phase, raced, store, sessions>> PROVE StoreOK'
  BY <1>a DEF StoreOK, store
<1>1. CASE LoginVerify(r)
  <2>1. Begin(r, "login") /\ UNCHANGED <<phase, raced, store, sessions>>
    BY <1>1 DEF LoginVerify
  <2>2. j \in Jobs /\ j.op = "login" /\ JobFits(j) /\ j.user \in Names
    BY <2>1, BegunJob DEF JobFits, UserOps
  <2>3. CASE Finish(r)
    BY <1>a, <2>1, <2>3, FinishBegun
  <2>4. CASE users[j.user] # None /\ Settle(r, "open", users[j.user])
    <3>1. users[j.user] \in UserRecord
      BY <1>0, <2>2, <2>4
    <3> QED BY <1>a, <2>1, <2>4, <3>1, SettleBegun
  <2> QED BY <1>1, <2>3, <2>4 DEF LoginVerify
<1>2. CASE LoginOpen(r)
  <2>1. At(r, "open") /\ Finish(r) /\ UNCHANGED <<phase, raced, store>>
    BY <1>2 DEF LoginOpen
  <2>2. j \in Jobs /\ j.user \in Names /\ j.rec \in UserRecord
    BY <2>1, AtJob DEF JobFits, UserOps
  <2>3. PrincipalOf(j.user, j.rec) \in Principal
    BY <2>2 DEF PrincipalOf, Principal, UserRecord
  <2>4. StoreOK'
    BY <1>2, <2>1, <2>3 DEF LoginOpen, StoreOK, store
  <2> QED BY <2>1, <2>4, FinishAt DEF PCs
<1>3. CASE CheckTaken(r)
  <2>1. Begin(r, "create") /\ UNCHANGED <<phase, raced, store, sessions>>
    BY <1>3 DEF CheckTaken
  <2> DEFINE rec == User(j.secret, j.role, FALSE, j.buckets)
  <2>2. j \in Jobs /\ j.op = "create" /\ JobFits(j) /\ j.user \in Names /\ rec \in UserRecord
    BY <2>1, BegunJob DEF JobFits, UserOps, User, UserRecord
  <2>3. Finish(r) \/ Settle(r, "put", rec)
    BY <1>3 DEF CheckTaken
  <2> HIDE DEF rec
  <2>4. CASE Finish(r)
    BY <1>a, <2>1, <2>4, FinishBegun
  <2>5. CASE Settle(r, "put", rec)
    BY <1>a, <2>1, <2>2, <2>5, SettleBegun
  <2> QED BY <2>3, <2>4, <2>5
<1>4. CASE ReadUser(r)
  <2>1. PICK op \in {"patch", "delete"} : Begin(r, op)
    BY <1>4 DEF ReadUser
  <2>2. j \in Jobs /\ j.op = op /\ JobFits(j) /\ j.user \in Names
    BY <2>1, BegunJob DEF JobFits, UserOps
  <2>3. UNCHANGED <<phase, raced, store, sessions>>
    BY <1>4 DEF ReadUser
  <2>4. CASE Finish(r)
    BY <1>a, <2>1, <2>3, <2>4, FinishBegun
  <2>5. CASE users[j.user] # None /\ Hold(r, "count", users[j.user])
    <3>1. users[j.user] \in UserRecord
      BY <1>0, <2>2, <2>5
    <3> QED BY <1>a, <2>1, <2>3, <2>5, <3>1, HoldBegun DEF UserOps
  <2> QED BY <1>4, <2>4, <2>5 DEF ReadUser
<1>5. CASE DecidePatch(r)
  <2>1. At(r, "count") /\ j.op = "patch" /\ UNCHANGED <<phase, raced, store, sessions>>
    BY <1>5 DEF DecidePatch
  <2>2. j \in Jobs /\ JobFits(j) /\ j.rec \in UserRecord /\ j.user \in Names
    BY <2>1, AtJob DEF JobFits, UserOps
  <2>3. Patched(j) \in UserRecord
    BY <2>2, PatchedType
  <2>4. CASE Finish(r)
    BY <1>a, <2>1, <2>4, FinishAt DEF PCs
  <2>5. CASE Settle(r, "put", Patched(j))
    BY <1>a, <2>1, <2>3, <2>5, SettleAt
  <2> QED BY <1>5, <2>4, <2>5 DEF DecidePatch
<1>6. CASE DecideDelete(r)
  <2>1. At(r, "count") /\ j.op = "delete" /\ UNCHANGED <<phase, raced, store, sessions>>
    BY <1>6 DEF DecideDelete
  <2>2. j \in Jobs /\ JobFits(j) /\ j.user \in Names
    BY <2>1, AtJob DEF JobFits, UserOps
  <2> DEFINE todo == OwnedBy(j.user)
  <2>3. todo \in SUBSET KeyIds
    BY DEF OwnedBy, LiveKeys
  <2>4. CASE Finish(r)
    BY <1>a, <2>1, <2>4, FinishAt DEF PCs
  <2>5. CASE job' = [job EXCEPT ![r].pc = "revoke", ![r].todo = todo]
    <3> HIDE DEF todo
    <3> DEFINE x == Listed(j, todo)
    <3>1. x \in Jobs /\ x.op = "delete" /\ x.user = j.user /\ x.actor = j.actor /\ x.pc = "revoke"
      BY <2>1, <2>2, <2>3, ListedType
    <3>2. job' = [job EXCEPT ![r] = x]
      BY <2>5, JobWrites
    <3> HIDE DEF x
    <3>3. JobFits(x)
      BY <2>2, <3>1 DEF JobFits, UserOps
    <3> QED BY <1>a, <2>1, <3>1, <3>2, <3>3, AtStep
  <2> QED BY <1>6, <2>4, <2>5 DEF DecideDelete
<1>7. ASSUME NEW k \in KeyIds, RevokeOwned(r, k) PROVE TypeInv'
  <2>1. At(r, "revoke") /\ job' = [job EXCEPT ![r].todo = @ \ {k}]
    BY <1>7 DEF RevokeOwned
  <2> DEFINE x == [j EXCEPT !.todo = j.todo \ {k}]
  <2>2. j \in Jobs /\ JobFits(j) /\ j.pc = "revoke"
    BY <2>1, AtJob
  <2>3. x \in Jobs /\ x.op = j.op /\ x.user = j.user /\ x.actor = j.actor /\ x.pc = j.pc
    BY <2>2, FieldType DEF Jobs
  <2>4. job' = [job EXCEPT ![r] = x]
    BY <2>1, JobWrites
  <2> HIDE DEF x
  <2>5. JobFits(x)
    BY <2>2, <2>3 DEF JobFits, UserOps
  <2>6. JobsOK'
    BY <2>1, <2>3, <2>4, <2>5, AtStep
  <2>7. StoreOK'
    BY <1>7 DEF RevokeOwned, StoreOK
  <2> QED BY <2>6, <2>7
<1>8. ASSUME NEW k \in KeyIds, CreateKey(r, k) PROVE TypeInv'
  <2>1. Begin(r, "createKey") /\ Finish(r)
    BY <1>8 DEF CreateKey
  <2>2. [owner |-> j.actor] \in AccessKeyRecord
    BY <2>1, BegunJob DEF JobFits, UserOps, AccessKeyRecord
  <2>3. StoreOK'
    BY <1>8, <2>2 DEF CreateKey, StoreOK
  <2> QED BY <2>1, <2>3, FinishBegun
<1>9. CASE DeleteUser(r)
  <2>1. At(r, "revoke") /\ Settle(r, "close", None)
    BY <1>9 DEF DeleteUser
  <2>2. j \in Jobs /\ JobFits(j) /\ j.op = "delete" /\ j.user \in Names
    BY <2>1, AtJob DEF JobFits, UserOps
  <2>3. JobsOK'
    BY <2>1, <2>2, SettleAt DEF Self
  <2>4. StoreOK'
    BY <1>9, <2>2 DEF DeleteUser, StoreOK, Raced
  <2> QED BY <2>3, <2>4
<1>10. CASE PasswordRead(r)
  <2>1. Begin(r, "password") /\ UNCHANGED <<phase, raced, store, sessions>>
    BY <1>10 DEF PasswordRead
  <2>2. j \in Jobs /\ j.op = "password" /\ JobFits(j) /\ j.user \in Names /\ j.secret \in Secrets
    BY <2>1, BegunJob DEF JobFits, UserOps
  <2>3. CASE Finish(r)
    BY <1>a, <2>1, <2>3, FinishBegun
  <2>4. CASE users[j.user] # None /\ Settle(r, "put", [users[j.user] EXCEPT !.hash = j.secret])
    <3> DEFINE rec == [users[j.user] EXCEPT !.hash = j.secret]
    <3>1. users[j.user] \in UserRecord
      BY <1>0, <2>2, <2>4
    <3>2. rec \in UserRecord
      BY <2>2, <3>1 DEF UserRecord
    <3> HIDE DEF rec
    <3>3. Settle(r, "put", rec)
      BY <2>4 DEF rec
    <3> QED BY <1>a, <2>1, <3>2, <3>3, SettleBegun
  <2> QED BY <1>10, <2>3, <2>4 DEF PasswordRead
<1>11. CASE PutUser(r)
  <2>1. At(r, "put")
    BY <1>11 DEF PutUser
  <2>2. j \in Jobs /\ JobFits(j) /\ j.rec \in UserRecord /\ j.user \in Names /\ j.op \in UserOps
    BY <2>1, AtJob DEF JobFits, UserOps
  <2>3. StoreOK'
    BY <1>11, <2>2 DEF PutUser, StoreOK, Raced
  <2> DEFINE rec == IF Self(j) THEN j.rec ELSE None
  <2>4. rec \in UserRecord \cup {None} /\ (Self(j) => rec \in UserRecord)
    BY <2>2
  <2>5. CASE Finish(r)
    BY <2>1, <2>3, <2>5, FinishAt DEF PCs
  <2>6. CASE Settle(r, "close", rec)
    <3> HIDE DEF rec
    <3> QED BY <2>1, <2>3, <2>4, <2>6, SettleAt
  <2> QED BY <1>11, <2>5, <2>6 DEF PutUser
<1>12. CASE CloseUser(r)
  <2>1. At(r, "close")
    BY <1>12 DEF CloseUser
  <2>2. j \in Jobs /\ JobFits(j) /\ j.pc = "close"
    BY <2>1, AtJob
  <2>3. StoreOK'
    BY <1>12 DEF CloseUser, StoreOK, store
  <2>4. CASE Finish(r)
    BY <2>1, <2>3, <2>4, FinishAt DEF PCs
  <2>5. CASE Self(j) /\ Goto(r, "reopen")
    <3> DEFINE x == [j EXCEPT !.pc = "reopen"]
    <3>1. "reopen" \in PCs
      BY DEF PCs
    <3>2. x \in Jobs
      BY <2>2, <3>1, FieldType
    <3>3. x.op = j.op /\ x.user = j.user /\ x.actor = j.actor /\ x.pc = "reopen" /\ x.rec = j.rec
      BY <2>2 DEF Jobs
    <3>4. job' = [job EXCEPT ![r] = x]
      BY <2>5, JobWrites
    <3> HIDE DEF x
    <3>5. JobFits(x)
      BY <2>2, <2>5, <3>3 DEF JobFits, UserOps, Self
    <3> QED BY <2>1, <2>3, <3>2, <3>4, <3>5, AtStep
  <2> QED BY <1>12, <2>4, <2>5 DEF CloseUser
<1>13. CASE Reopen(r)
  <2>1. At(r, "reopen") /\ Finish(r) /\ UNCHANGED <<phase, raced, store>>
    BY <1>13 DEF Reopen
  <2>2. j \in Jobs /\ j.user \in Names /\ j.rec \in UserRecord
    BY <2>1, AtJob DEF JobFits, UserOps, Self
  <2>3. PrincipalOf(j.user, j.rec) \in Principal
    BY <2>2 DEF PrincipalOf, Principal, UserRecord
  <2>4. StoreOK'
    BY <1>13, <2>1, <2>3 DEF Reopen, StoreOK, store
  <2> QED BY <2>1, <2>4, FinishAt DEF PCs
<1>14. CASE ReadKey(r)
  <2>1. PICK op \in {"revokeKey", "rotateKey"} : Begin(r, op)
    BY <1>14 DEF ReadKey
  <2>2. j \in Jobs /\ j.op = op /\ JobFits(j) /\ j.key \in KeyIds
    BY <2>1, BegunJob DEF JobFits, UserOps
  <2>3. UNCHANGED <<phase, raced, store, sessions>>
    BY <1>14 DEF ReadKey
  <2>4. CASE Finish(r)
    BY <1>a, <2>1, <2>3, <2>4, FinishBegun
  <2>5. CASE j.key \in LiveKeys /\ Hold(r, j.op, keys[j.key])
    <3>1. keys[j.key] \in AccessKeyRecord
      BY <1>0, <2>2, <2>5 DEF LiveKeys
    <3> QED BY <1>a, <2>1, <2>2, <2>3, <2>5, <3>1, HoldBegun
  <2> QED BY <1>14, <2>4, <2>5 DEF ReadKey
<1>15. CASE RevokeKey(r) \/ RotateKey(r)
  <2>1. PICK pc \in {"revokeKey", "rotateKey"} : At(r, pc)
    BY <1>15 DEF RevokeKey, RotateKey
  <2>2. j.rec \in AccessKeyRecord /\ j.key \in KeyIds
    BY <2>1, AtJob DEF JobFits
  <2>3. StoreOK'
    BY <1>15, <2>2 DEF RevokeKey, RotateKey, StoreOK
  <2> QED BY <1>15, <2>1, <2>3, FinishAt DEF RevokeKey, RotateKey, PCs
<1> QED BY <1>1, <1>2, <1>3, <1>4, <1>5, <1>6, <1>7, <1>8, <1>9, <1>10, <1>11, <1>12, <1>13,
           <1>14, <1>15 DEF Step

\* Every step keeps the types, whatever the size of the pool.
LEMMA TypePreserved ==
    ASSUME TypeInv, [Next]_vars
    PROVE  TypeInv'
<1>1. CASE UNCHANGED vars
  BY <1>1 DEF vars, TypeInv, StoreOK, JobsOK, QueueFits
<1>2. CASE \E p \in sessions : Logout(p)
  BY <1>2 DEF Logout, store, TypeInv, StoreOK, JobsOK, QueueFits
<1>3. ASSUME NEW r \in Requests, Submit(r) \/ Step(r) PROVE TypeInv'
  BY <1>3, SubmitPosts, SubmitType, StepType
<1> QED BY <1>1, <1>2, <1>3, BootType, RestartType DEF Next

\* Every variable keeps its type, jobs in every state of every request
\* included, whatever the size of the pool.
THEOREM ConsoleTyped == Spec => []TypeOK
<1>1. TypeInv => TypeOK
  BY DEF TypeInv, StoreOK, JobsOK, TypeOK
<1> QED BY InitType, TypePreserved, <1>1, PTL DEF Spec

-----------------------------------------------------------------------------
(* Sessions and keys, with any number of pool threads.                      *)

\* The shapes in which a step rewrites a job.
LEMMA JobBecomes ==
    ASSUME TypeInv, NEW r \in Requests, NEW pc, NEW rec
    PROVE  /\ Goto(r, pc) => job'[r] = [job[r] EXCEPT !.pc = pc]
           /\ Hold(r, pc, rec) => job'[r] = Held(job[r], pc, rec)
           /\ Settle(r, pc, rec) => job'[r] = Settled(job[r], pc, rec)
           /\ job' = [job EXCEPT ![r].pc = "revoke", ![r].todo = rec]
                => job'[r] = Listed(job[r], rec)
           /\ \A k : job' = [job EXCEPT ![r].todo = @ \ {k}]
                => job'[r] = [job[r] EXCEPT !.todo = job[r].todo \ {k}]
<1>1. ASSUME NEW x, job' = [job EXCEPT ![r] = x] PROVE job'[r] = x
  BY <1>1 DEF TypeInv, JobsOK
<1>2. Goto(r, pc) => job'[r] = [job[r] EXCEPT !.pc = pc]
  <2> HAVE Goto(r, pc)
  <2>1. job' = [job EXCEPT ![r] = [job[r] EXCEPT !.pc = pc]]
    BY JobWrites
  <2> QED BY <1>1, <2>1
<1>3. Hold(r, pc, rec) => job'[r] = Held(job[r], pc, rec)
  <2> HAVE Hold(r, pc, rec)
  <2>1. job' = [job EXCEPT ![r] = Held(job[r], pc, rec)]
    BY HoldWrites
  <2> QED BY <1>1, <2>1
<1>4. Settle(r, pc, rec) => job'[r] = Settled(job[r], pc, rec)
  <2> HAVE Settle(r, pc, rec)
  <2>1. job' = [job EXCEPT ![r] = Settled(job[r], pc, rec)]
    BY SettleWrites
  <2> QED BY <1>1, <2>1
<1>5. job' = [job EXCEPT ![r].pc = "revoke", ![r].todo = rec]
        => job'[r] = Listed(job[r], rec)
  <2> HAVE job' = [job EXCEPT ![r].pc = "revoke", ![r].todo = rec]
  <2>1. job' = [job EXCEPT ![r] = Listed(job[r], rec)]
    BY JobWrites
  <2> QED BY <1>1, <2>1
<1>6. ASSUME NEW k, job' = [job EXCEPT ![r].todo = @ \ {k}]
      PROVE  job'[r] = [job[r] EXCEPT !.todo = job[r].todo \ {k}]
  <2>1. job' = [job EXCEPT ![r] = [job[r] EXCEPT !.todo = job[r].todo \ {k}]]
    BY <1>6, JobWrites
  <2> QED BY <1>1, <2>1
<1> QED BY <1>2, <1>3, <1>4, <1>5, <1>6

\* The fields of a job that has settled.
LEMMA SettledJob ==
    ASSUME TypeInv, NEW r \in Requests, job[r] \in Jobs, NEW pc \in {"open", "put", "close"},
           NEW rec \in UserRecord \cup {None}, Settle(r, pc, rec)
    PROVE  /\ job'[r] \in Jobs /\ job'[r].op = job[r].op /\ job'[r].actor = job[r].actor
           /\ job'[r].user = job[r].user /\ job'[r].pc = pc /\ job'[r].rec = rec
<1>1. job'[r] = Settled(job[r], pc, rec)
  BY DEF Settle, Settled, TypeInv, JobsOK
<1>2. pc \in PCs
  BY DEF PCs
<1>3. ASSUME NEW j \in Jobs
      PROVE  /\ Settled(j, pc, rec) \in Jobs
             /\ Settled(j, pc, rec).op = j.op /\ Settled(j, pc, rec).actor = j.actor
             /\ Settled(j, pc, rec).user = j.user
             /\ Settled(j, pc, rec).pc = pc /\ Settled(j, pc, rec).rec = rec
  BY <1>2, SettledType
<1> QED BY <1>1, <1>3

\* The fields of a job that holds a record.
LEMMA HeldJob ==
    ASSUME TypeInv, NEW r \in Requests, job[r] \in Jobs,
           NEW pc \in {"count", "revokeKey", "rotateKey"},
           NEW rec \in UserRecord \cup AccessKeyRecord, Hold(r, pc, rec)
    PROVE  /\ job'[r].op = job[r].op /\ job'[r].user = job[r].user /\ job'[r].key = job[r].key
           /\ job'[r].pc = pc /\ job'[r].rec = rec
<1> DEFINE x == Held(job[r], pc, rec)
<1>1. job'[r] = x
  BY JobBecomes
<1>2. pc \in PCs /\ rec \in UserRecord \cup AccessKeyRecord \cup {None}
  BY DEF PCs
<1>3. x.op = job[r].op /\ x.user = job[r].user /\ x.key = job[r].key /\ x.pc = pc /\ x.rec = rec
  BY <1>2, HeldType
<1> HIDE DEF x
<1> QED BY <1>1, <1>3

\* Before the console serves there is no session and no request.
IdleBoot ==
    phase # "serving" => sessions = {} /\ queue = <<>> /\ \A r \in Requests : job[r] = None

\* What a request relies on is still so, unless the account was raced.
Fresh(j) ==
    \A u \in Names \ raced :
        ReliesOn(j, u) => IF j.op = "create" THEN users[u] = None ELSE j.rec = users[u]

ReadsCurrent == \A r \in Running : Fresh(job[r])

\* A session is a copy of its account's row, unless it is about to be closed
\* or the account was raced.
CopiesRow(p) ==
    \/ p.username \in raced
    \/ Closing(p.username)
    \/ users[p.username] # None /\ p = PrincipalOf(p.username, users[p.username])

SessionsCopyRows == \A p \in sessions : CopiesRow(p)

SessionInv == TypeInv /\ IdleBoot /\ ReadsCurrent /\ SessionsCopyRows

\* A thread works while the console serves, and on one job.
LEMMA StepOfOne ==
    ASSUME TypeInv, IdleBoot, NEW r \in Requests, Step(r)
    PROVE  /\ phase = "serving" /\ phase' = "serving"
           /\ \A q \in Requests \ {r} : job'[q] = job[q]
           /\ \A q \in Running \ {r} : q \in Running' /\ job'[q] = job[q]
           /\ \A q \in Running' \ {r} : q \in Running /\ job'[q] = job[q]
<1>1. (\E op : Begin(r, op)) \/ (\E pc \in PCs \ {"queued"} : At(r, pc))
  BY DEF Step, LoginVerify, LoginOpen, CheckTaken, ReadUser, DecidePatch, DecideDelete, RevokeOwned,
         CreateKey, DeleteUser, PasswordRead, PutUser, CloseUser, Reopen, ReadKey, RevokeKey,
         RotateKey, PCs
<1>2. phase = "serving"
  BY <1>1 DEF IdleBoot, Begin, At
<1>3. phase' = phase
  BY DEF Step, LoginVerify, LoginOpen, CheckTaken, ReadUser, DecidePatch, DecideDelete, RevokeOwned,
         CreateKey, DeleteUser, PasswordRead, PutUser, CloseUser, Reopen, ReadKey, RevokeKey,
         RotateKey
<1>4. ASSUME NEW q \in Requests, q # r PROVE job'[q] = job[q]
  BY <1>4 DEF Step, LoginVerify, LoginOpen, CheckTaken, ReadUser, DecidePatch, DecideDelete,
         RevokeOwned, CreateKey, DeleteUser, PasswordRead, PutUser, CloseUser, Reopen, ReadKey,
         RevokeKey, RotateKey, Finish, Goto, Hold, Settle, TypeInv, JobsOK
<1> QED BY <1>2, <1>3, <1>4 DEF Running

\* What is left to show for a step of a thread.
LEMMA SessionKeeps ==
    ASSUME SessionInv, NEW r \in Requests, Step(r),
           job'[r] = None \/ Fresh(job[r])',
           \A q \in Running \ {r} : Fresh(job[q])', SessionsCopyRows'
    PROVE  SessionInv'
<1> USE DEF SessionInv
<1>1. TypeInv'
  BY StepType
<1>2. IdleBoot'
  BY StepOfOne DEF IdleBoot
<1>3. ReadsCurrent'
  <2> SUFFICES ASSUME NEW q \in Running' PROVE Fresh(job[q])'
    BY DEF ReadsCurrent
  <2>1. CASE q = r
    BY <2>1 DEF Running
  <2>2. CASE q # r
    BY <2>2, StepOfOne
  <2> QED BY <2>1, <2>2
<1> QED BY <1>1, <1>2, <1>3

\* A step that writes no account and no session, and ends no closing.
LEMMA QuietSession ==
    ASSUME SessionInv, NEW r \in Requests, Step(r), UNCHANGED <<users, sessions, raced>>,
           r \in Running => job[r].pc # "close", job'[r] = None \/ Fresh(job[r])'
    PROVE  SessionInv'
<1> USE DEF SessionInv
<1>1. \A q \in Running \ {r} : Fresh(job[q])'
  <2> SUFFICES ASSUME NEW q \in Running \ {r} PROVE Fresh(job[q])'
    OBVIOUS
  <2>1. job'[q] = job[q] /\ Fresh(job[q])
    BY StepOfOne DEF ReadsCurrent
  <2> QED BY <2>1 DEF Fresh
<1>2. ASSUME NEW u, Closing(u) PROVE Closing(u)'
  <2>1. PICK q \in Running : job[q].pc = "close" /\ job[q].user = u
    BY <1>2 DEF Closing
  <2>2. q # r
    BY <2>1
  <2> QED BY <2>1, <2>2, StepOfOne DEF Closing
<1>3. SessionsCopyRows'
  BY <1>2 DEF SessionsCopyRows, CopiesRow
<1> QED BY <1>1, <1>3, SessionKeeps

\* The steps that only read, and those that write keys.
LEMMA ReadingSession ==
    ASSUME SessionInv, NEW r \in Requests, Step(r),
           \/ LoginVerify(r) \/ CheckTaken(r) \/ ReadUser(r) \/ DecidePatch(r) \/ DecideDelete(r)
           \/ (\E k \in KeyIds : RevokeOwned(r, k) \/ CreateKey(r, k))
           \/ PasswordRead(r) \/ ReadKey(r) \/ RevokeKey(r) \/ RotateKey(r),
           job'[r] = None \/ Fresh(job[r])'
    PROVE  SessionInv'
<1>1. UNCHANGED <<users, sessions, raced>>
  BY DEF LoginVerify, CheckTaken, ReadUser, DecidePatch, DecideDelete, RevokeOwned, CreateKey,
         PasswordRead, ReadKey, RevokeKey, RotateKey, store
<1>2. ASSUME NEW op, Begin(r, op) PROVE r \notin Running
  BY <1>2, BegunJob DEF Running, SessionInv, TypeInv
<1>3. r \in Running => job[r].pc # "close"
  BY <1>2 DEF LoginVerify, CheckTaken, ReadUser, DecidePatch, DecideDelete, RevokeOwned, CreateKey,
         PasswordRead, ReadKey, RevokeKey, RotateKey, At
<1> QED BY <1>1, <1>3, QuietSession

\* Every step of a pool thread keeps the sessions in line with the accounts.
LEMMA SessionStep ==
    ASSUME SessionInv, NEW r \in Requests, Step(r)
    PROVE  SessionInv'
<1> USE DEF SessionInv
<1> DEFINE j == job[r]
<1>0. /\ job \in [Requests -> Jobs \cup {None}]
      /\ users \in [Names -> UserRecord \cup {None}]
      /\ sessions \subseteq Principal
      /\ raced \subseteq Names
  BY DEF TypeInv, StoreOK, JobsOK
<1>a. ASSUME Finish(r) PROVE job'[r] = None
  BY <1>0, <1>a DEF Finish
<1>b. ASSUME NEW pc \in PCs \ {"queued"}, At(r, pc)
      PROVE  j \in Jobs /\ j.pc = pc /\ JobFits(j) /\ Fresh(j) /\ r \in Running
  <2>1. r \in Running
    BY <1>b DEF At, Running
  <2> QED BY <1>b, <2>1, AtJob DEF ReadsCurrent
<1>c. \A p \in sessions : p.username \in Names
  BY <1>0 DEF Principal
<1>d. \A q \in Running \ {r} : Fresh(job[q]) /\ job'[q] = job[q] /\ q \in Running'
  BY StepOfOne DEF ReadsCurrent
<1>1. CASE LoginVerify(r)
  <2>1. Begin(r, "login") /\ UNCHANGED <<users, raced>>
    BY <1>1 DEF LoginVerify, store
  <2>2. j \in Jobs /\ j.op = "login" /\ j.user \in Names
    BY <2>1, BegunJob DEF JobFits, UserOps, TypeInv
  <2>3. CASE users[j.user] # None /\ Settle(r, "open", users[j.user])
    <3>1. users[j.user] \in UserRecord
      BY <1>0, <2>2, <2>3
    <3>2. /\ job'[r].op = "login" /\ job'[r].user = j.user /\ job'[r].pc = "open"
          /\ job'[r].rec = users[j.user]
      BY <2>2, <2>3, <3>1, SettledJob
    <3> QED BY <1>1, <2>1, <3>2, ReadingSession DEF Fresh, ReliesOn
  <2> QED BY <1>1, <1>a, <2>3, ReadingSession DEF LoginVerify
<1>2. CASE CheckTaken(r)
  <2>1. Begin(r, "create") /\ UNCHANGED <<users, raced>>
    BY <1>2 DEF CheckTaken, store
  <2> DEFINE rec == User(j.secret, j.role, FALSE, j.buckets)
  <2>2. j \in Jobs /\ j.op = "create" /\ j.user \in Names /\ rec \in UserRecord
    BY <2>1, BegunJob DEF JobFits, UserOps, User, UserRecord, TypeInv
  <2>3. CASE users[j.user] = None /\ Settle(r, "put", rec)
    <3> HIDE DEF rec
    <3>1. job'[r].user = j.user /\ job'[r].pc = "put" /\ job'[r].op = "create"
      BY <2>2, <2>3, SettledJob
    <3> QED BY <1>2, <2>1, <2>3, <3>1, ReadingSession DEF Fresh, ReliesOn
  <2> QED BY <1>2, <1>a, <2>3, ReadingSession DEF CheckTaken
<1>3. CASE ReadUser(r)
  <2>1. PICK op \in {"patch", "delete"} : Begin(r, op)
    BY <1>3 DEF ReadUser
  <2>2. j \in Jobs /\ j.op = op /\ j.user \in Names
    BY <2>1, BegunJob DEF JobFits, UserOps, TypeInv
  <2>3. CASE users[j.user] # None /\ Hold(r, "count", users[j.user])
    <3>1. users[j.user] \in UserRecord
      BY <1>0, <2>2, <2>3
    <3>2. job'[r].pc = "count"
      BY <2>2, <2>3, <3>1, HeldJob
    <3>3. Fresh(job[r])'
      BY <3>2 DEF Fresh, ReliesOn
    <3> QED BY <1>3, <3>3, ReadingSession
  <2> QED BY <1>3, <1>a, <2>3, ReadingSession DEF ReadUser
<1>4. CASE DecidePatch(r)
  <2>1. At(r, "count") /\ j.op = "patch"
    BY <1>4 DEF DecidePatch
  <2>2. j \in Jobs /\ j.rec \in UserRecord
    BY <2>1, <1>b DEF JobFits, PCs
  <2>3. CASE Settle(r, "put", Patched(j))
    <3> DEFINE rec == Patched(j)
    <3>1. rec \in UserRecord
      BY <2>2, PatchedType
    <3>2. Settle(r, "put", rec)
      BY <2>3
    <3> HIDE DEF rec
    <3>3. job'[r].pc = "put" /\ job'[r].op = "patch"
      BY <2>1, <2>2, <3>1, <3>2, SettledJob
    <3>4. Fresh(job[r])'
      BY <3>3 DEF Fresh, ReliesOn
    <3> QED BY <1>4, <3>4, ReadingSession
  <2> QED BY <1>4, <1>a, <2>3, ReadingSession DEF DecidePatch
<1>5. CASE DecideDelete(r)
  <2>1. At(r, "count") /\ j.op = "delete"
    BY <1>5 DEF DecideDelete
  <2> DEFINE todo == OwnedBy(j.user)
  <2>2. j \in Jobs /\ todo \in SUBSET KeyIds
    BY <2>1, <1>b DEF PCs, OwnedBy, LiveKeys
  <2>3. CASE job' = [job EXCEPT ![r].pc = "revoke", ![r].todo = todo]
    <3> HIDE DEF todo
    <3> DEFINE x == Listed(j, todo)
    <3>1. x.pc = "revoke"
      BY <2>2, ListedType
    <3>2. job'[r] = x
      BY <2>3, JobBecomes
    <3> HIDE DEF x
    <3>3. Fresh(job[r])'
      BY <3>1, <3>2 DEF Fresh, ReliesOn
    <3> QED BY <1>5, <3>3, ReadingSession
  <2> QED BY <1>5, <1>a, <2>3, ReadingSession DEF DecideDelete
<1>6. ASSUME NEW k \in KeyIds, RevokeOwned(r, k) PROVE SessionInv'
  <2>1. At(r, "revoke") /\ job' = [job EXCEPT ![r].todo = @ \ {k}]
    BY <1>6 DEF RevokeOwned
  <2>2. j \in Jobs /\ j.pc = "revoke"
    BY <2>1, <1>b DEF PCs
  <2> DEFINE x == [j EXCEPT !.todo = j.todo \ {k}]
  <2>3. x.pc = "revoke"
    BY <2>2 DEF Jobs
  <2>4. job'[r] = x
    BY <2>1, JobBecomes
  <2> HIDE DEF x
  <2>5. Fresh(job[r])'
    BY <2>3, <2>4 DEF Fresh, ReliesOn
  <2> QED BY <1>6, <2>5, ReadingSession
<1>7. CASE \/ \E k \in KeyIds : CreateKey(r, k)
           \/ RevokeKey(r) \/ RotateKey(r)
  <2>1. job'[r] = None
    BY <1>7, <1>a DEF CreateKey, RevokeKey, RotateKey
  <2> QED BY <1>7, <2>1, ReadingSession
<1>8. CASE PasswordRead(r)
  <2>1. Begin(r, "password")
    BY <1>8 DEF PasswordRead
  <2>2. j \in Jobs /\ j.op = "password" /\ j.user \in Names /\ j.secret \in Secrets
    BY <2>1, BegunJob DEF JobFits, UserOps, TypeInv
  <2> DEFINE rec == [users[j.user] EXCEPT !.hash = j.secret]
  <2>3. CASE users[j.user] # None /\ Settle(r, "put", rec)
    <3>1. users[j.user] \in UserRecord
      BY <1>0, <2>2, <2>3
    <3>2. rec \in UserRecord
      BY <2>2, <3>1 DEF UserRecord
    <3> HIDE DEF rec
    <3>3. job'[r].pc = "put" /\ job'[r].op = "password"
      BY <2>2, <2>3, <3>2, SettledJob
    <3>4. Fresh(job[r])'
      BY <3>3 DEF Fresh, ReliesOn
    <3> QED BY <1>8, <3>4, ReadingSession
  <2> QED BY <1>8, <1>a, <2>3, ReadingSession DEF PasswordRead
<1>9. CASE ReadKey(r)
  <2>1. PICK op \in {"revokeKey", "rotateKey"} : Begin(r, op)
    BY <1>9 DEF ReadKey
  <2>2. j \in Jobs /\ j.op = op /\ j.key \in KeyIds
    BY <2>1, BegunJob DEF JobFits, UserOps, TypeInv
  <2>3. CASE j.key \in LiveKeys /\ Hold(r, j.op, keys[j.key])
    <3>1. keys[j.key] \in AccessKeyRecord
      BY <2>2, <2>3 DEF LiveKeys, TypeInv, StoreOK
    <3>2. job'[r].pc = op
      BY <2>2, <2>3, <3>1, HeldJob
    <3>3. Fresh(job[r])'
      BY <3>2 DEF Fresh, ReliesOn
    <3> QED BY <1>9, <3>3, ReadingSession
  <2> QED BY <1>9, <1>a, <2>3, ReadingSession DEF ReadKey
<1>10. CASE LoginOpen(r) \/ Reopen(r)
  <2>1. PICK pc \in {"open", "reopen"} : At(r, pc)
    BY <1>10 DEF LoginOpen, Reopen
  <2>2. /\ j \in Jobs /\ j.rec \in UserRecord /\ j.user \in Names /\ j.pc = pc /\ j.op # "create"
        /\ Fresh(j)
    BY <2>1, <1>b DEF JobFits, UserOps, PCs, Self
  <2>3. sessions' = sessions \cup {PrincipalOf(j.user, j.rec)} /\ UNCHANGED <<users, raced>>
    BY <1>10 DEF LoginOpen, Reopen, store
  <2>4. j.user \in raced \/ (j.rec = users[j.user] /\ users[j.user] # None)
    <3>1. ReliesOn(j, j.user)
      BY <2>2 DEF ReliesOn
    <3> QED BY <2>2, <3>1, ConsoleAssumption DEF Fresh
  <2>5. PICK new : new = PrincipalOf(j.user, j.rec)
    OBVIOUS
  <2>6. ASSUME NEW u, Closing(u) PROVE Closing(u)'
    <3>1. PICK q \in Running : job[q].pc = "close" /\ job[q].user = u
      BY <2>6 DEF Closing
    <3>2. q # r
      BY <2>2, <3>1
    <3> QED BY <1>d, <3>1, <3>2 DEF Closing
  <2>7. CopiesRow(new)'
    BY <2>3, <2>4, <2>5 DEF CopiesRow, PrincipalOf
  <2>8. sessions' = sessions \cup {new}
    BY <2>3, <2>5
  <2>9. SessionsCopyRows'
    BY <2>3, <2>6, <2>7, <2>8 DEF SessionsCopyRows, CopiesRow
  <2>10. \A q \in Running \ {r} : Fresh(job[q])'
    BY <1>d, <2>3 DEF Fresh
  <2>11. job'[r] = None
    BY <1>10, <1>a DEF LoginOpen, Reopen
  <2> QED BY <2>9, <2>10, <2>11, SessionKeeps
<1>11. CASE PutUser(r) \/ DeleteUser(r)
  <2>1. PICK pc \in {"put", "revoke"} : At(r, pc)
    BY <1>11 DEF PutUser, DeleteUser
  <2>2. j \in Jobs /\ j.user \in Names /\ j.pc = pc /\ Fresh(j) /\ JobFits(j) /\ r \in Running
    BY <2>1, <1>b DEF JobFits, UserOps, PCs
  <2>3. Raced(r, j.user) /\ UNCHANGED sessions
    BY <1>11 DEF PutUser, DeleteUser
  <2>4. \A u \in Names : u # j.user => users'[u] = users[u]
    BY <1>0, <1>11, <2>2 DEF PutUser, DeleteUser
  <2>5. raced \subseteq raced' /\ \A u \in raced' : u = j.user \/ u \in raced
    BY <2>3 DEF Raced
  <2>6. \A q \in Running \ {r} : Fresh(job[q])'
    <3> SUFFICES ASSUME NEW q \in Running \ {r}, NEW u \in Names \ raced', ReliesOn(job[q], u)
                 PROVE  IF job[q].op = "create" THEN users'[u] = None ELSE job[q].rec = users'[u]
      BY <1>d DEF Fresh, ReliesOn, Self
    <3>1. u # j.user
      BY <2>3 DEF Raced
    <3> QED BY <1>d, <2>4, <2>5, <3>1 DEF Fresh
  <2>7. ASSUME NEW u, Closing(u) PROVE Closing(u)'
    <3>1. PICK q \in Running : job[q].pc = "close" /\ job[q].user = u
      BY <2>7 DEF Closing
    <3>2. q # r
      BY <2>2, <3>1
    <3> QED BY <1>d, <3>1, <3>2 DEF Closing
  <2>8. ASSUME \A p \in sessions : p.username = j.user => CopiesRow(p)' PROVE SessionsCopyRows'
    <3> SUFFICES ASSUME NEW p \in sessions, p.username # j.user PROVE CopiesRow(p)'
      BY <2>3, <2>8 DEF SessionsCopyRows
    <3>1. CopiesRow(p) /\ users'[p.username] = users[p.username]
      BY <1>c, <2>4 DEF SessionsCopyRows
    <3> QED BY <2>5, <2>7, <3>1 DEF CopiesRow
  <2>9. CASE Finish(r)
    <3>1. j.op = "create" /\ j.pc = "put"
      <4>1. ASSUME DeleteUser(r) PROVE FALSE
        <5>1. Settle(r, "close", None)
          BY <4>1 DEF DeleteUser
        <5>2. job'[r].pc = "close" /\ job'[r] \in Jobs
          BY <2>2, <5>1, SettledJob
        <5> QED BY <1>a, <2>9, <5>2, ConsoleAssumption
      <4>2. PutUser(r) /\ At(r, "put")
        BY <1>11, <4>1 DEF PutUser
      <4>3. j.pc = "put"
        BY <4>2 DEF At
      <4>4. ASSUME j.op # "create" PROVE FALSE
        <5> DEFINE rec == IF Self(j) THEN j.rec ELSE None
        <5>1. Settle(r, "close", rec) /\ rec \in UserRecord \cup {None}
          BY <2>2, <4>2, <4>3, <4>4 DEF PutUser, JobFits
        <5> HIDE DEF rec
        <5>2. job'[r] \in Jobs
          BY <2>2, <5>1, SettledJob
        <5> QED BY <1>a, <2>9, <5>2, ConsoleAssumption
      <4> QED BY <4>3, <4>4
    <3>2. j.user \in raced \/ users[j.user] = None
      BY <2>2, <3>1 DEF Fresh, ReliesOn
    <3>3. \A p \in sessions : p.username = j.user => CopiesRow(p)'
      BY <2>5, <2>7, <3>2 DEF SessionsCopyRows, CopiesRow
    <3> QED BY <1>a, <2>6, <2>8, <2>9, <3>3, SessionKeeps
  <2>10. CASE \E rec \in UserRecord \cup {None} :
                Settle(r, "close", rec) /\ (Self(j) => rec = users'[j.user])
    <3>1. PICK rec \in UserRecord \cup {None} :
                 Settle(r, "close", rec) /\ (Self(j) => rec = users'[j.user])
      BY <2>10
    <3>2. /\ job'[r] \in Jobs /\ job'[r].op = j.op /\ job'[r].actor = j.actor
          /\ job'[r].user = j.user /\ job'[r].pc = "close" /\ job'[r].rec = rec
      BY <2>2, <3>1, SettledJob
    <3>3. \A u : u = j.user => Closing(u)'
      BY <3>2, ConsoleAssumption DEF Closing, Running
    <3>4. Fresh(job[r])'
      BY <3>1, <3>2 DEF Fresh, ReliesOn, Self
    <3>5. \A p \in sessions : p.username = j.user => CopiesRow(p)'
      BY <3>3 DEF CopiesRow
    <3> QED BY <2>6, <2>8, <3>4, <3>5, SessionKeeps
  <2>11. CASE DeleteUser(r)
    <3>1. Settle(r, "close", None) /\ At(r, "revoke")
      BY <2>11 DEF DeleteUser
    <3>2. ~Self(j)
      BY <2>2, <3>1 DEF At, JobFits, Self
    <3> QED BY <2>10, <3>1, <3>2
  <2>12. CASE PutUser(r) /\ j.op # "create"
    <3> DEFINE rec == IF Self(j) THEN j.rec ELSE None
    <3>1. At(r, "put") /\ users' = [users EXCEPT ![j.user] = j.rec] /\ Settle(r, "close", rec)
      BY <2>12 DEF PutUser
    <3>2. j.rec \in UserRecord /\ users'[j.user] = j.rec
      BY <1>0, <2>2, <3>1 DEF At, JobFits
    <3> QED BY <2>10, <3>1, <3>2
  <2>13. CASE PutUser(r) /\ j.op = "create"
    BY <2>9, <2>13 DEF PutUser
  <2> QED BY <1>11, <2>11, <2>12, <2>13
<1>12. CASE CloseUser(r)
  <2>1. At(r, "close") /\ sessions' = {p \in sessions : p.username # j.user} /\ UNCHANGED users
    BY <1>12 DEF CloseUser, store
  <2>2. j \in Jobs /\ j.pc = "close" /\ r \in Running /\ Fresh(j)
    BY <2>1, <1>b DEF PCs
  <2>3. raced' = IF \E q \in Running : ReliesOn(job[q], j.user) THEN raced ELSE raced \ {j.user}
    BY <1>12 DEF CloseUser
  <2>4. ASSUME NEW q \in Running, NEW u \in Names \ raced', ReliesOn(job[q], u)
        PROVE  u \in Names \ raced
    <3>1. q \in Running /\ ReliesOn(job[q], u)
      BY <2>4
    <3>2. job[q].user = u
      BY <3>1 DEF ReliesOn
    <3>3. CASE u = j.user
      BY <2>3, <2>4, <3>1, <3>3
    <3>4. CASE u # j.user
      BY <2>3, <2>4, <3>4
    <3> QED BY <3>3, <3>4
  <2>5. \A q \in Running \ {r} : Fresh(job[q])'
    <3> SUFFICES ASSUME NEW q \in Running \ {r}, NEW u \in Names \ raced', ReliesOn(job[q], u)
                 PROVE  IF job[q].op = "create" THEN users'[u] = None ELSE job[q].rec = users'[u]
      BY <1>d DEF Fresh, ReliesOn, Self
    <3>1. u \in Names \ raced
      BY <2>4
    <3> QED BY <1>d, <2>1, <3>1 DEF Fresh
  <2>6. ASSUME NEW u, u # j.user, Closing(u) PROVE Closing(u)'
    <3>1. PICK q \in Running : job[q].pc = "close" /\ job[q].user = u
      BY <2>6 DEF Closing
    <3>2. q # r
      BY <2>6, <3>1
    <3> QED BY <1>d, <3>1, <3>2 DEF Closing
  <2>7. SessionsCopyRows'
    <3> SUFFICES ASSUME NEW p \in sessions, p.username # j.user PROVE CopiesRow(p)'
      BY <2>1 DEF SessionsCopyRows
    <3>1. CopiesRow(p)
      BY DEF SessionsCopyRows
    <3>2. p.username \in raced => p.username \in raced'
      BY <2>3
    <3> QED BY <2>1, <2>6, <3>1, <3>2 DEF CopiesRow
  <2>8. CASE Self(j) /\ Goto(r, "reopen")
    <3> DEFINE x == [j EXCEPT !.pc = "reopen"]
    <3>1. x.op = j.op /\ x.user = j.user /\ x.pc = "reopen" /\ x.rec = j.rec
      BY <2>2 DEF Jobs
    <3>2. job'[r] = x
      BY <2>8, JobBecomes
    <3> HIDE DEF x
    <3>3. ReliesOn(j, j.user) /\ j.op # "create"
      BY <2>2, <2>8 DEF ReliesOn, Self
    <3>4. raced' = raced
      BY <2>2, <2>3, <3>3
    <3>5. Fresh(job[r])'
      <4> SUFFICES ASSUME NEW u \in Names \ raced', u = j.user PROVE j.rec = users'[u]
        BY <3>1, <3>2, <3>3 DEF Fresh, ReliesOn
      <4> QED BY <2>1, <2>2, <3>3, <3>4 DEF Fresh
    <3> QED BY <2>5, <2>7, <3>5, SessionKeeps
  <2> QED BY <1>12, <1>a, <2>5, <2>7, <2>8, SessionKeeps DEF CloseUser
<1> QED BY <1>1, <1>2, <1>3, <1>4, <1>5, <1>6, <1>7, <1>8, <1>9, <1>10, <1>11, <1>12 DEF Step

\* Every step keeps the invariant of the sessions, whatever the size of the pool.
LEMMA SessionInvPreserved ==
    ASSUME SessionInv, [Next]_vars
    PROVE  SessionInv'
<1> USE DEF SessionInv
<1>0. TypeInv'
  BY TypePreserved
<1>1. CASE Boot
  <2>1. phase # "serving" /\ UNCHANGED <<sessions, job, queue>>
    BY <1>1 DEF Boot, MigrateAdministrator, AdoptForMigrated, DropLegacyRecord,
         StartWithStoredUsers, RestoreAdministrator, AdoptForRestored, Serving
  <2>2. sessions' = {} /\ queue' = <<>> /\ \A r \in Requests : job'[r] = None
    BY <2>1 DEF IdleBoot
  <2> QED BY <1>0, <2>2 DEF IdleBoot, ReadsCurrent, SessionsCopyRows, Running
<1>2. CASE Restart
  <2>1. sessions' = {} /\ queue' = <<>> /\ \A r \in Requests : job'[r] = None
    BY <1>2 DEF Restart
  <2> QED BY <1>0, <2>1 DEF IdleBoot, ReadsCurrent, SessionsCopyRows, Running
<1>3. CASE (\E p \in sessions : Logout(p)) \/ UNCHANGED vars
  <2>1. UNCHANGED <<phase, users, job, queue, raced>> /\ sessions' \subseteq sessions
    BY <1>3 DEF Logout, vars, store
  <2>2. ReadsCurrent'
    BY <2>1 DEF ReadsCurrent, Fresh, Running
  <2>3. SessionsCopyRows'
    BY <2>1 DEF SessionsCopyRows, CopiesRow, Closing, Running
  <2>4. IdleBoot'
    BY <2>1 DEF IdleBoot
  <2> QED BY <1>0, <2>2, <2>3, <2>4
<1>4. ASSUME NEW r \in Requests, Submit(r) PROVE SessionInv'
  <2>1. PICK x \in Jobs : x.pc = "queued" /\ Post(r, x)
    BY <1>4, SubmitPosts DEF Posts
  <2>2. UNCHANGED <<phase, users, sessions, raced>> /\ phase = "serving"
    BY <1>4, <2>1, SubmitPosts DEF Posts, store, Post
  <2>3. job[r] = None /\ job'[r] = x /\ \A q \in Requests \ {r} : job'[q] = job[q]
    BY <2>1 DEF TypeInv, JobsOK, Post
  <2>4. Running' = Running /\ \A q \in Running : q \in Requests /\ job'[q] = job[q]
    BY <2>1, <2>3 DEF Running
  <2>5. ReadsCurrent'
    BY <2>2, <2>4 DEF ReadsCurrent, Fresh
  <2>6. SessionsCopyRows'
    BY <2>2, <2>4 DEF SessionsCopyRows, CopiesRow, Closing
  <2>7. IdleBoot'
    BY <2>2 DEF IdleBoot
  <2> QED BY <1>0, <2>5, <2>6, <2>7
<1> QED BY <1>1, <1>2, <1>3, <1>4, SessionStep DEF Next

\* With any number of pool threads no session is worth more than the account
\* behind it, but for the two exceptions the property names: a close that is
\* about to happen, and an account that was written under a reader of its row.
THEOREM AuthoritySafety == Spec => []AuthorityIsCurrent
<1>1. Init => SessionInv
  BY InitType DEF Init, SessionInv, IdleBoot, ReadsCurrent, SessionsCopyRows, Running
<1>2. SessionInv => AuthorityIsCurrent
  <2> SUFFICES ASSUME SessionInv, NEW p \in sessions, ~Closing(p.username), p.username \notin raced
               PROVE  Backed(p)
    BY DEF AuthorityIsCurrent
  <2>1. users[p.username] # None /\ p = PrincipalOf(p.username, users[p.username])
    BY DEF SessionInv, SessionsCopyRows, CopiesRow
  <2>2. p.role = users[p.username].role /\ p.buckets = users[p.username].buckets
    BY <2>1 DEF PrincipalOf
  <2> QED BY <2>1, <2>2 DEF Backed, GuardBucket
<1> QED BY <1>1, <1>2, SessionInvPreserved, PTL DEF Spec

\* A step of a sign-in or of a change of an account leaves the job where no key
\* is changed.
LEMMA AccountStep ==
    ASSUME TypeInv, NEW r \in Requests,
           \/ LoginVerify(r) \/ LoginOpen(r) \/ CheckTaken(r) \/ ReadUser(r) \/ DecidePatch(r)
           \/ DecideDelete(r) \/ DeleteUser(r) \/ PasswordRead(r) \/ PutUser(r)
           \/ CloseUser(r) \/ Reopen(r)
    PROVE  job'[r] = None \/ job'[r].pc # "rotateKey"
<1>1. job \in [Requests -> Jobs \cup {None}]
  BY DEF TypeInv, JobsOK
<1>2. ASSUME NEW pc \in PCs \ {"rotateKey"}, NEW rec, Hold(r, pc, rec) \/ Goto(r, pc),
             job[r] \in Jobs
      PROVE  job'[r].pc # "rotateKey"
  BY <1>1, <1>2 DEF Hold, Goto, Jobs
<1>3. ASSUME NEW pc \in PCs \ {"rotateKey"}, NEW rec, Settle(r, pc, rec)
      PROVE  job'[r].pc # "rotateKey"
  BY <1>1, <1>3 DEF Settle, Job
<1>4. ASSUME NEW todo, job' = [job EXCEPT ![r].pc = "revoke", ![r].todo = todo], job[r] \in Jobs
      PROVE  job'[r].pc # "rotateKey"
  BY <1>1, <1>4 DEF Jobs
<1>5. Finish(r) => job'[r] = None
  BY <1>1 DEF Finish
<1>6. ASSUME NEW op, Begin(r, op) PROVE job[r] \in Jobs
  BY <1>6, BegunJob DEF TypeInv
<1>7. ASSUME NEW pc, At(r, pc) PROVE job[r] \in Jobs
  BY <1>7, AtJob
<1>8. CASE LoginVerify(r) \/ CheckTaken(r) \/ PasswordRead(r)
  BY <1>3, <1>5, <1>8 DEF LoginVerify, CheckTaken, PasswordRead, PCs
<1>9. CASE ReadUser(r)
  BY <1>2, <1>5, <1>6, <1>9 DEF ReadUser, PCs
<1>10. CASE DecidePatch(r) \/ DeleteUser(r) \/ PutUser(r)
  BY <1>3, <1>5, <1>10 DEF DecidePatch, DeleteUser, PutUser, PCs
<1>11. CASE DecideDelete(r)
  BY <1>4, <1>5, <1>7, <1>11 DEF DecideDelete
<1>12. CASE CloseUser(r)
  BY <1>2, <1>5, <1>7, <1>12 DEF CloseUser, PCs
<1>13. CASE LoginOpen(r) \/ Reopen(r)
  BY <1>5, <1>13 DEF LoginOpen, Reopen
<1> QED BY <1>8, <1>9, <1>10, <1>11, <1>12, <1>13

\* With any number of pool threads, over restarts, no step brings back a key
\* that was revoked while no rotation of it was under way: a rotation insists
\* on a row when it reads.
THEOREM RevocationIsFinal == Spec => RevokedStaysRevoked
<1> DEFINE Rotating(q, k) == q \in Running /\ job[q].pc = "rotateKey" /\ job[q].key = k
<1>1. ASSUME TypeInv, [Next]_vars, NEW k \in KeyIds, Gone(k) PROVE Gone(k)'
  <2>0. /\ keys \in [KeyIds -> AccessKeyRecord \cup {None, Revoked}] /\ keys[k] = Revoked
        /\ job \in [Requests -> Jobs \cup {None}]
    BY <1>1 DEF TypeInv, StoreOK, JobsOK, Gone
  <2>a. \A q \in Requests : ~Rotating(q, k)
    BY <1>1 DEF Gone
  <2>b. ASSUME keys'[k] = Revoked, \A q \in Requests : ~Rotating(q, k)' PROVE Gone(k)'
    BY <2>b DEF Gone, Running
  <2>1. ASSUME NEW i \in KeyIds, NEW owner, AdoptKey(i, owner) PROVE keys'[k] = Revoked
    BY <2>0, <2>1 DEF AdoptKey, OwnedBy, LiveKeys
  <2>2. CASE Boot
    <3>1. keys'[k] = Revoked
      BY <2>0, <2>1, <2>2 DEF Boot, MigrateAdministrator, AdoptForMigrated, DropLegacyRecord,
           StartWithStoredUsers, RestoreAdministrator, AdoptForRestored, store
    <3>2. UNCHANGED job
      BY <2>2 DEF Boot, MigrateAdministrator, AdoptForMigrated, DropLegacyRecord,
           StartWithStoredUsers, RestoreAdministrator, AdoptForRestored, Serving
    <3> QED BY <2>a, <2>b, <3>1, <3>2 DEF Running
  <2>3. CASE Restart
    BY <2>0, <2>b, <2>3 DEF Restart, store, Running
  <2>4. CASE (\E p \in sessions : Logout(p)) \/ UNCHANGED vars
    BY <2>0, <2>a, <2>b, <2>4 DEF Logout, vars, store, Running
  <2>5. ASSUME NEW r \in Requests, Submit(r) PROVE Gone(k)'
    <3>1. PICK x \in Jobs : x.pc = "queued" /\ Post(r, x)
      BY <1>1, <2>5, SubmitPosts DEF Posts
    <3>2. UNCHANGED keys
      BY <1>1, <2>5, SubmitPosts DEF Posts, store
    <3>3. job' = [job EXCEPT ![r] = x]
      BY <3>1 DEF Post
    <3>4. \A q \in Requests : ~Rotating(q, k)'
      BY <2>0, <2>a, <3>1, <3>3 DEF Running
    <3> QED BY <2>0, <2>b, <3>2, <3>4
  <2>6. ASSUME NEW r \in Requests, Step(r) PROVE Gone(k)'
    <3>1. ASSUME NEW q \in Requests, q # r PROVE ~Rotating(q, k)'
      <4>1. job'[q] = job[q]
        BY <2>0, <2>6, <3>1 DEF Step, LoginVerify, LoginOpen, CheckTaken, ReadUser, DecidePatch,
             DecideDelete, RevokeOwned, CreateKey, DeleteUser, PasswordRead, PutUser, CloseUser,
             Reopen, ReadKey, RevokeKey, RotateKey, Finish, Goto, Hold, Settle
      <4> QED BY <2>a, <3>1, <4>1 DEF Running
    <3>a. ASSUME Finish(r) PROVE ~Rotating(r, k)'
      BY <2>0, <3>a DEF Finish, Running
    <3>2. CASE RotateKey(r)
      <4>1. At(r, "rotateKey") /\ keys' = [keys EXCEPT ![job[r].key] = job[r].rec] /\ Finish(r)
        BY <3>2 DEF RotateKey
      <4>2. r \in Running /\ job[r].pc = "rotateKey"
        BY <4>1 DEF At, Running
      <4>3. job[r].key # k
        BY <2>a, <4>2
      <4>4. keys'[k] = Revoked
        BY <2>0, <4>1, <4>3
      <4> QED BY <2>b, <3>1, <3>a, <4>1, <4>4
    <3>3. ASSUME NEW i \in KeyIds, RevokeOwned(r, i) PROVE Gone(k)'
      <4>1. At(r, "revoke") /\ job' = [job EXCEPT ![r].todo = @ \ {i}]
            /\ keys' = [keys EXCEPT ![i] = Revoked]
        BY <3>3 DEF RevokeOwned
      <4>2. job[r] \in Jobs /\ job[r].pc = "revoke"
        BY <1>1, <4>1, AtJob
      <4> DEFINE x == [job[r] EXCEPT !.todo = job[r].todo \ {i}]
      <4>3. x.pc = "revoke"
        BY <4>2 DEF Jobs
      <4>4. job'[r] = x
        BY <1>1, <4>1, JobBecomes
      <4> HIDE DEF x
      <4>5. ~Rotating(r, k)'
        BY <4>3, <4>4
      <4> QED BY <2>0, <2>b, <3>1, <4>1, <4>5
    <3>4. CASE (\E i \in KeyIds : CreateKey(r, i)) \/ RevokeKey(r)
      BY <2>0, <2>b, <3>1, <3>a, <3>4, ConsoleAssumption DEF CreateKey, RevokeKey
    <3>5. CASE ReadKey(r)
      <4>1. PICK op \in {"revokeKey", "rotateKey"} : Begin(r, op)
        BY <3>5 DEF ReadKey
      <4>2. job[r] \in Jobs /\ job[r].op = op
        BY <1>1, <4>1, BegunJob DEF TypeInv
      <4>3. UNCHANGED keys
        BY <3>5 DEF ReadKey, store
      <4>4. CASE job[r].key \in LiveKeys /\ Hold(r, job[r].op, keys[job[r].key])
        <5>1. keys[job[r].key] \in AccessKeyRecord /\ job[r].key # k
          BY <2>0, <4>4 DEF LiveKeys
        <5>2. job'[r].key = job[r].key
          BY <1>1, <4>2, <4>4, <5>1, HeldJob
        <5> QED BY <2>0, <2>b, <3>1, <4>3, <5>1, <5>2
      <4> QED BY <2>0, <2>b, <3>1, <3>5, <3>a, <4>3, <4>4 DEF ReadKey
    <3>6. CASE \/ LoginVerify(r) \/ LoginOpen(r) \/ CheckTaken(r) \/ ReadUser(r) \/ DecidePatch(r)
               \/ DecideDelete(r) \/ DeleteUser(r) \/ PasswordRead(r) \/ PutUser(r)
               \/ CloseUser(r) \/ Reopen(r)
      <4>1. UNCHANGED keys
        BY <3>6 DEF LoginVerify, LoginOpen, CheckTaken, ReadUser, DecidePatch, DecideDelete,
             DeleteUser, PasswordRead, PutUser, CloseUser, Reopen, store
      <4>2. job'[r] = None \/ job'[r].pc # "rotateKey"
        BY <1>1, <3>6, AccountStep
      <4>3. ~Rotating(r, k)'
        BY <4>2 DEF Running
      <4> QED BY <2>0, <2>b, <3>1, <4>1, <4>3
    <3> QED BY <2>6, <3>2, <3>3, <3>4, <3>5, <3>6 DEF Step
  <2> QED BY <1>1, <2>2, <2>3, <2>4, <2>5, <2>6 DEF Next
<1>2. TypeInv /\ [Next]_vars => \A k \in KeyIds : Gone(k) => Gone(k)'
  BY <1>1
<1> QED BY InitType, TypePreserved, <1>2, PTL DEF Spec, RevokedStaysRevoked

-----------------------------------------------------------------------------
(* One pool thread.                                                         *)

OneRunner == \A r, q \in Running : r = q

OtherAdmin(u) == \E v \in EnabledAdministrators : v # u

\* What the running request has read is still so: the record it judges is the
\* row, and an account is taken only if another administrator is left.
StillTrue(j) ==
    /\ j.pc = "count" => j.rec = users[j.user]
    /\ j.pc = "put" /\ IsEnabledAdmin(users[j.user]) /\ ~IsEnabledAdmin(j.rec) => OtherAdmin(j.user)
    /\ j.pc = "revoke" /\ IsEnabledAdmin(users[j.user]) => OtherAdmin(j.user)

ReadsHold == \A r \in Running : StillTrue(job[r])

\* A restored administrator is there before the console serves.
RestoredFirst == phase = "adoptRestored" => EnabledAdministrators # {}

ConsoleInv ==
    /\ TypeInv /\ OneRunner /\ ReadsHold /\ IdleBoot
    /\ RestoredFirst /\ AdminRemains

\* A thread takes a job only when nothing runs.
LEMMA BeginAlone ==
    ASSUME TypeInv, OneRunner, IoThreads = 1, NEW r \in Requests, NEW op, Begin(r, op)
    PROVE  Running = {}
<1> SUFFICES ASSUME NEW q \in Running PROVE FALSE
  OBVIOUS
<1>1. Running = {q}
  BY DEF OneRunner
<1>2. Cardinality(Running) = 1
  BY <1>1, FS_Singleton
<1> QED BY <1>2 DEF Begin

\* With one thread, the job that moves is the only one under way.
LEMMA AtAlone ==
    ASSUME OneRunner, NEW r \in Requests, NEW pc \in PCs \ {"queued"}, At(r, pc)
    PROVE  Running = {r}
BY DEF OneRunner, At, Running

\* While the console serves, a pool thread works on r alone, and on no other job.
LEMMA StepAlone ==
    ASSUME ConsoleInv, IoThreads = 1, NEW r \in Requests, Step(r)
    PROVE  /\ Running \subseteq {r} /\ Running' \subseteq {r}
           /\ phase = "serving" /\ phase' = "serving"
<1> USE DEF ConsoleInv
<1>1. (\E op : Begin(r, op)) \/ (\E pc \in PCs \ {"queued"} : At(r, pc))
  BY DEF Step, LoginVerify, LoginOpen, CheckTaken, ReadUser, DecidePatch, DecideDelete, RevokeOwned,
         CreateKey, DeleteUser, PasswordRead, PutUser, CloseUser, Reopen, ReadKey, RevokeKey,
         RotateKey, PCs
<1>2. Running \subseteq {r}
  BY <1>1, BeginAlone, AtAlone
<1> QED BY <1>2, StepOfOne

\* If nobody but u administers, there is at most one administrator.
LEMMA ManyAdmins ==
    ASSUME NEW u, ~(Cardinality(EnabledAdministrators) <= 1)
    PROVE  OtherAdmin(u)
<1> SUFFICES ASSUME ~OtherAdmin(u) PROVE FALSE
  OBVIOUS
<1>1. EnabledAdministrators = {} \/ EnabledAdministrators = {u}
  BY DEF OtherAdmin
<1>2. Cardinality(EnabledAdministrators) = 0 \/ Cardinality(EnabledAdministrators) = 1
  BY <1>1, FS_Singleton, FS_EmptySet
<1> QED BY <1>2

\* What is left to show for a step, once it runs alone.
LEMMA StepKeeps ==
    ASSUME ConsoleInv, IoThreads = 1, NEW r \in Requests, Step(r),
           job'[r] = None \/ StillTrue(job[r])', AdminRemains'
    PROVE  ConsoleInv'
<1>1. Running' \subseteq {r} /\ phase' = "serving"
  BY StepAlone
<1>2. TypeInv'
  BY StepType DEF ConsoleInv
<1>3. OneRunner'
  BY <1>1 DEF OneRunner
<1>4. ReadsHold'
  BY <1>1 DEF ReadsHold, Running
<1>5. IdleBoot' /\ RestoredFirst'
  BY <1>1 DEF IdleBoot, RestoredFirst
<1> QED BY <1>2, <1>3, <1>4, <1>5 DEF ConsoleInv

\* The steps that only read, and those that write keys.
LEMMA ReadingStep ==
    ASSUME ConsoleInv, IoThreads = 1, NEW r \in Requests, Step(r),
           \/ LoginVerify(r) \/ CheckTaken(r) \/ ReadUser(r) \/ DecidePatch(r) \/ DecideDelete(r)
           \/ (\E k \in KeyIds : RevokeOwned(r, k) \/ CreateKey(r, k))
           \/ PasswordRead(r) \/ ReadKey(r) \/ RevokeKey(r) \/ RotateKey(r),
           job'[r] = None \/ StillTrue(job[r])'
    PROVE  ConsoleInv'
<1>1. UNCHANGED <<phase, users>>
  BY DEF LoginVerify, CheckTaken, ReadUser, DecidePatch, DecideDelete, RevokeOwned, CreateKey,
         PasswordRead, ReadKey, RevokeKey, RotateKey, store
<1>2. AdminRemains'
  BY <1>1 DEF ConsoleInv, AdminRemains, EnabledAdministrators, IsEnabledAdmin
<1> QED BY <1>2, StepKeeps

\* Every step of a pool thread, alone, keeps the invariant.
LEMMA StepInv ==
    ASSUME ConsoleInv, IoThreads = 1, NEW r \in Requests, Step(r)
    PROVE  ConsoleInv'
<1> USE DEF ConsoleInv
<1> DEFINE j == job[r]
<1>0. /\ job \in [Requests -> Jobs \cup {None}]
      /\ users \in [Names -> UserRecord \cup {None}]
      /\ keys \in [KeyIds -> AccessKeyRecord \cup {None, Revoked}]
      /\ sessions \subseteq Principal
  BY DEF TypeInv, StoreOK, JobsOK
<1>a. ASSUME Finish(r) PROVE job'[r] = None
  BY <1>0, <1>a DEF Finish
<1>b. ASSUME NEW pc \in PCs \ {"queued"}, At(r, pc)
      PROVE  j \in Jobs /\ j.pc = pc /\ JobFits(j) /\ StillTrue(j) /\ Running = {r}
  <2>1. Running = {r}
    BY <1>b, AtAlone
  <2> QED BY <1>b, <2>1, AtJob DEF ReadsHold
<1>c. \A p \in sessions : p.username \in Names
  BY <1>0 DEF Principal
<1>1. CASE LoginVerify(r)
  <2>1. Begin(r, "login") /\ UNCHANGED users
    BY <1>1 DEF LoginVerify, store
  <2>2. j \in Jobs /\ j.op = "login" /\ j.user \in Names
    BY <2>1, BegunJob DEF JobFits, UserOps, TypeInv
  <2>3. CASE users[j.user] # None /\ Settle(r, "open", users[j.user])
    <3>1. users[j.user] \in UserRecord
      BY <1>0, <2>2, <2>3
    <3>2. job'[r].user = j.user /\ job'[r].pc = "open" /\ job'[r].rec = users[j.user]
      BY <2>2, <2>3, <3>1, SettledJob
    <3> QED BY <1>1, <2>1, <3>2, ReadingStep DEF StillTrue
  <2> QED BY <1>1, <1>a, <2>3, ReadingStep DEF LoginVerify
<1>2. CASE CheckTaken(r)
  <2>1. Begin(r, "create") /\ UNCHANGED users
    BY <1>2 DEF CheckTaken, store
  <2>2. j \in Jobs /\ j.op = "create" /\ j.user \in Names
    BY <2>1, BegunJob DEF JobFits, UserOps, TypeInv
  <2> DEFINE rec == User(j.secret, j.role, FALSE, j.buckets)
  <2>3. rec \in UserRecord
    BY <2>1, BegunJob DEF JobFits, UserOps, User, UserRecord, TypeInv
  <2>4. CASE users[j.user] = None /\ Settle(r, "put", rec)
    <3> HIDE DEF rec
    <3>1. job'[r].user = j.user /\ job'[r].pc = "put" /\ job'[r].op = "create"
      BY <2>2, <2>3, <2>4, SettledJob
    <3> QED BY <1>2, <2>1, <2>4, <3>1, ReadingStep DEF StillTrue, IsEnabledAdmin
  <2> QED BY <1>2, <1>a, <2>4, ReadingStep DEF CheckTaken
<1>3. CASE ReadUser(r)
  <2>1. PICK op \in {"patch", "delete"} : Begin(r, op)
    BY <1>3 DEF ReadUser
  <2>2. j \in Jobs /\ j.op = op /\ j.user \in Names
    BY <2>1, BegunJob DEF JobFits, UserOps, TypeInv
  <2>3. UNCHANGED users
    BY <1>3 DEF ReadUser, store
  <2>4. CASE users[j.user] # None /\ Hold(r, "count", users[j.user])
    <3>1. users[j.user] \in UserRecord
      BY <1>0, <2>2, <2>4
    <3>2. job'[r].user = j.user /\ job'[r].pc = "count" /\ job'[r].rec = users[j.user]
      BY <2>2, <2>4, <3>1, HeldJob
    <3> QED BY <1>3, <2>3, <3>2, ReadingStep DEF StillTrue
  <2> QED BY <1>3, <1>a, <2>4, ReadingStep DEF ReadUser
<1>4. CASE DecidePatch(r)
  <2>1. At(r, "count") /\ j.op = "patch" /\ UNCHANGED users
    BY <1>4 DEF DecidePatch, store
  <2>2. j \in Jobs /\ j.rec \in UserRecord /\ j.user \in Names /\ j.rec = users[j.user]
    BY <2>1, <1>b DEF JobFits, UserOps, StillTrue, PCs
  <2>3. CASE ~(WasLastAdmin(r) /\ LosesAdmin(j)) /\ Settle(r, "put", Patched(j))
    <3> DEFINE rec == Patched(j)
    <3>1. IsEnabledAdmin(users[j.user]) /\ ~IsEnabledAdmin(rec) => LosesAdmin(j)
      <4>1. rec # None
        BY <2>2, PatchedType, ConsoleAssumption
      <4>2. /\ rec.role = (IF j.role = None THEN j.rec.role ELSE j.role)
            /\ rec.disabled = (IF j.disabled = None THEN j.rec.disabled ELSE j.disabled)
        BY DEF Patched, User, Choose
      <4>3. j.disabled \in BOOLEAN \cup {None}
        BY <2>2 DEF Jobs
      <4> HIDE DEF rec
      <4> QED BY <2>2, <4>1, <4>2, <4>3 DEF IsEnabledAdmin, LosesAdmin
    <3>2. IsEnabledAdmin(users[j.user]) /\ ~IsEnabledAdmin(rec) => OtherAdmin(j.user)
      BY <2>2, <2>3, <3>1, ManyAdmins DEF WasLastAdmin
    <3>3. rec \in UserRecord
      BY <2>2, PatchedType
    <3>4. Settle(r, "put", rec)
      BY <2>3
    <3> HIDE DEF rec
    <3>5. /\ job'[r].user = j.user /\ job'[r].pc = "put" /\ job'[r].op = "patch"
          /\ job'[r].rec = rec
      BY <2>1, <2>2, <3>3, <3>4, SettledJob
    <3>6. StillTrue(job[r])'
      BY <2>1, <3>2, <3>5 DEF StillTrue, OtherAdmin, EnabledAdministrators
    <3> QED BY <1>4, <3>6, ReadingStep
  <2> QED BY <1>4, <1>a, <2>3, ReadingStep DEF DecidePatch
<1>5. CASE DecideDelete(r)
  <2>1. At(r, "count") /\ j.op = "delete" /\ UNCHANGED users
    BY <1>5 DEF DecideDelete, store
  <2>2. j \in Jobs /\ j.rec \in UserRecord /\ j.user \in Names /\ j.rec = users[j.user]
    BY <2>1, <1>b DEF JobFits, UserOps, StillTrue, PCs
  <2> DEFINE todo == OwnedBy(j.user)
  <2>3. CASE ~WasLastAdmin(r) /\ job' = [job EXCEPT ![r].pc = "revoke", ![r].todo = todo]
    <3> DEFINE x == Listed(j, todo)
    <3>1. IsEnabledAdmin(users[j.user]) => OtherAdmin(j.user)
      BY <2>2, <2>3, ManyAdmins DEF WasLastAdmin
    <3>2. todo \in SUBSET KeyIds
      BY DEF OwnedBy, LiveKeys
    <3> HIDE DEF todo
    <3>3. x.user = j.user /\ x.pc = "revoke" /\ x.op = "delete"
      BY <2>1, <2>2, <3>2, ListedType
    <3>4. job'[r] = x
      BY <2>3, JobBecomes
    <3> HIDE DEF x
    <3>5. StillTrue(job[r])'
      BY <2>1, <3>1, <3>3, <3>4 DEF StillTrue, OtherAdmin, EnabledAdministrators
    <3> QED BY <1>5, <3>5, ReadingStep
  <2> QED BY <1>5, <1>a, <2>3, ReadingStep DEF DecideDelete
<1>6. ASSUME NEW k \in KeyIds, RevokeOwned(r, k) PROVE ConsoleInv'
  <2>1. At(r, "revoke") /\ job' = [job EXCEPT ![r].todo = @ \ {k}] /\ UNCHANGED users
    BY <1>6 DEF RevokeOwned
  <2>2. j \in Jobs /\ j.pc = "revoke" /\ StillTrue(j)
    BY <2>1, <1>b DEF PCs
  <2> DEFINE x == [j EXCEPT !.todo = j.todo \ {k}]
  <2>3. x.user = j.user /\ x.pc = j.pc
    BY <2>2 DEF Jobs
  <2>4. job'[r] = x
    BY <2>1, JobBecomes
  <2> HIDE DEF x
  <2>5. StillTrue(job[r])'
    BY <2>1, <2>2, <2>3, <2>4 DEF StillTrue, OtherAdmin, EnabledAdministrators
  <2> QED BY <1>6, <2>5, ReadingStep
<1>7. CASE \/ \E k \in KeyIds : CreateKey(r, k)
           \/ RevokeKey(r) \/ RotateKey(r)
  <2>1. job'[r] = None
    BY <1>7, <1>a DEF CreateKey, RevokeKey, RotateKey
  <2> QED BY <1>7, <2>1, ReadingStep
<1>8. CASE PasswordRead(r)
  <2>1. Begin(r, "password") /\ UNCHANGED users
    BY <1>8 DEF PasswordRead, store
  <2>2. j \in Jobs /\ j.op = "password" /\ j.user \in Names /\ j.secret \in Secrets
    BY <2>1, BegunJob DEF JobFits, UserOps, TypeInv
  <2> DEFINE rec == [users[j.user] EXCEPT !.hash = j.secret]
  <2>3. CASE users[j.user] # None /\ Settle(r, "put", rec)
    <3>1. users[j.user] \in UserRecord
      BY <1>0, <2>2, <2>3
    <3>2. rec \in UserRecord /\ rec.role = users[j.user].role
          /\ rec.disabled = users[j.user].disabled
      BY <2>2, <3>1 DEF UserRecord
    <3>3. rec # None
      BY <3>2, ConsoleAssumption
    <3> HIDE DEF rec
    <3>4. ~IsEnabledAdmin(rec) => ~IsEnabledAdmin(users[j.user])
      BY <3>2, <3>3 DEF IsEnabledAdmin
    <3>5. /\ job'[r].user = j.user /\ job'[r].pc = "put" /\ job'[r].op = "password"
          /\ job'[r].rec = rec
      BY <2>2, <2>3, <3>2, SettledJob
    <3>6. StillTrue(job[r])'
      BY <2>1, <3>4, <3>5 DEF StillTrue
    <3> QED BY <1>8, <3>6, ReadingStep
  <2> QED BY <1>8, <1>a, <2>3, ReadingStep DEF PasswordRead
<1>9. CASE ReadKey(r)
  <2>1. PICK op \in {"revokeKey", "rotateKey"} : Begin(r, op)
    BY <1>9 DEF ReadKey
  <2>2. j \in Jobs /\ j.op = op /\ j.key \in KeyIds
    BY <2>1, BegunJob DEF JobFits, UserOps, TypeInv
  <2>3. UNCHANGED keys
    BY <1>9 DEF ReadKey, store
  <2>4. CASE j.key \in LiveKeys /\ Hold(r, j.op, keys[j.key])
    <3>1. keys[j.key] \in AccessKeyRecord /\ keys[j.key] # Revoked
      BY <1>0, <2>2, <2>4 DEF LiveKeys
    <3>2. job'[r].key = j.key /\ job'[r].pc = op
      BY <2>2, <2>4, <3>1, HeldJob
    <3>3. StillTrue(job[r])'
      BY <2>3, <3>1, <3>2 DEF StillTrue
    <3> QED BY <1>9, <3>3, ReadingStep
  <2> QED BY <1>9, <1>a, <2>4, ReadingStep DEF ReadKey
<1>10. CASE LoginOpen(r) \/ Reopen(r)
  <2>1. UNCHANGED <<phase, users>> /\ job'[r] = None
    BY <1>10, <1>a DEF LoginOpen, Reopen, store
  <2>2. AdminRemains'
    BY <2>1 DEF AdminRemains, EnabledAdministrators, IsEnabledAdmin
  <2> QED BY <2>1, <2>2, StepKeeps
<1>11. CASE DeleteUser(r)
  <2>1. At(r, "revoke") /\ Settle(r, "close", None) /\ users' = [users EXCEPT ![j.user] = None]
        /\ UNCHANGED phase
    BY <1>11 DEF DeleteUser
  <2>2. j \in Jobs /\ j.op = "delete" /\ j.user \in Names /\ StillTrue(j) /\ j.pc = "revoke"
        /\ Running = {r}
    BY <2>1, <1>b DEF JobFits, UserOps, PCs
  <2>3. /\ job'[r].user = j.user /\ job'[r].pc = "close" /\ job'[r].op = "delete"
        /\ job'[r] \in Jobs
    BY <2>1, <2>2, SettledJob
  <2>5. StillTrue(job[r])'
    BY <2>3 DEF StillTrue, Self
  <2>9. IsEnabledAdmin(users[j.user]) => OtherAdmin(j.user)
    BY <2>2 DEF StillTrue
  <2>10. AdminRemains'
    <3>1. EnabledAdministrators # {}
      BY StepAlone DEF AdminRemains
    <3>2. PICK v \in EnabledAdministrators : v # j.user
      BY <2>9, <3>1 DEF OtherAdmin, EnabledAdministrators
    <3>3. v \in EnabledAdministrators'
      BY <1>0, <2>1, <2>2, <3>2 DEF EnabledAdministrators
    <3> QED BY <3>3 DEF AdminRemains
  <2> QED BY <2>5, <2>10, StepKeeps
<1>12. CASE PutUser(r)
  <2>1. At(r, "put") /\ users' = [users EXCEPT ![j.user] = j.rec] /\ UNCHANGED phase
    BY <1>12 DEF PutUser
  <2>2. /\ j \in Jobs /\ j.user \in Names /\ StillTrue(j) /\ j.pc = "put" /\ Running = {r}
        /\ j.rec \in UserRecord /\ j.op \in UserOps
    BY <2>1, <1>b DEF JobFits, UserOps, PCs
  <2>4. IsEnabledAdmin(users[j.user]) /\ ~IsEnabledAdmin(j.rec) => OtherAdmin(j.user)
    BY <2>2 DEF StillTrue
  <2>5. AdminRemains'
    <3>1. PICK v \in EnabledAdministrators : TRUE
      BY StepAlone DEF AdminRemains
    <3>2. CASE v # j.user
      <4>1. v \in EnabledAdministrators'
        BY <1>0, <2>1, <2>2, <3>2 DEF EnabledAdministrators
      <4> QED BY <4>1 DEF AdminRemains
    <3>3. CASE v = j.user /\ IsEnabledAdmin(j.rec)
      <4>1. v \in EnabledAdministrators'
        BY <1>0, <2>1, <2>2, <3>3 DEF EnabledAdministrators
      <4> QED BY <4>1 DEF AdminRemains
    <3>4. CASE v = j.user /\ ~IsEnabledAdmin(j.rec)
      <4>1. PICK w \in EnabledAdministrators : w # j.user
        BY <2>4, <3>4 DEF OtherAdmin, EnabledAdministrators
      <4>2. w \in EnabledAdministrators'
        BY <1>0, <2>1, <2>2, <4>1 DEF EnabledAdministrators
      <4> QED BY <4>2 DEF AdminRemains
    <3> QED BY <3>2, <3>3, <3>4
  <2>6. CASE j.op = "create" /\ Finish(r)
    BY <1>a, <2>5, <2>6, StepKeeps
  <2>7. CASE j.op # "create" /\ Settle(r, "close", IF Self(j) THEN j.rec ELSE None)
    <3> DEFINE rec == IF Self(j) THEN j.rec ELSE None
    <3>1. rec \in UserRecord \cup {None}
      BY <2>2
    <3>2. Settle(r, "close", rec) /\ (Self(j) => rec = j.rec)
      BY <2>7
    <3> HIDE DEF rec
    <3>3. /\ job'[r].user = j.user /\ job'[r].pc = "close" /\ job'[r].op = j.op
          /\ job'[r].actor = j.actor /\ job'[r].rec = rec /\ job'[r] \in Jobs
      BY <2>2, <3>1, <3>2, SettledJob
    <3>5. StillTrue(job[r])'
      BY <1>0, <2>1, <2>2, <3>2, <3>3 DEF StillTrue, Self
    <3> QED BY <2>5, <3>5, StepKeeps
  <2> QED BY <1>12, <2>6, <2>7 DEF PutUser
<1>13. CASE CloseUser(r)
  <2>1. At(r, "close") /\ UNCHANGED <<phase, users>>
    BY <1>13 DEF CloseUser, store
  <2>2. j \in Jobs
    BY <2>1, <1>b DEF PCs
  <2>3. AdminRemains'
    BY <2>1 DEF AdminRemains, EnabledAdministrators, IsEnabledAdmin
  <2>4. CASE Goto(r, "reopen")
    <3> DEFINE x == [j EXCEPT !.pc = "reopen"]
    <3>1. x.pc = "reopen"
      BY <2>2 DEF Jobs
    <3>2. job'[r] = x
      BY <2>4, JobBecomes
    <3> HIDE DEF x
    <3>3. StillTrue(job[r])'
      BY <3>1, <3>2 DEF StillTrue
    <3> QED BY <2>3, <3>3, StepKeeps
  <2> QED BY <1>13, <1>a, <2>3, <2>4, StepKeeps DEF CloseUser
<1> QED BY <1>1, <1>2, <1>3, <1>4, <1>5, <1>6, <1>7, <1>8, <1>9, <1>10, <1>11, <1>12, <1>13
        DEF Step

\* The invariant holds at the first start.
LEMMA InitInv ==
    ASSUME Init
    PROVE  ConsoleInv
<1>1. Running = {}
  BY DEF Init, Running
<1>2. OneRunner /\ ReadsHold
  BY <1>1 DEF OneRunner, ReadsHold
<1>3. IdleBoot /\ RestoredFirst /\ AdminRemains
  BY DEF Init, IdleBoot, RestoredFirst, AdminRemains, SessionsCopyRows
<1> QED BY <1>2, <1>3, InitType DEF ConsoleInv

\* Start-up runs with no session and no request, and ends with an administrator.
LEMMA BootInv ==
    ASSUME ConsoleInv, Boot
    PROVE  ConsoleInv'
<1> USE DEF ConsoleInv
<1>1. phase # "serving" /\ UNCHANGED <<sessions, job, queue>>
  BY DEF Boot, MigrateAdministrator, AdoptForMigrated, DropLegacyRecord, StartWithStoredUsers,
         RestoreAdministrator, AdoptForRestored, Serving
<1>2. sessions' = {} /\ queue' = <<>> /\ \A r \in Requests : job'[r] = None
  BY <1>1 DEF IdleBoot
<1>3. OneRunner' /\ ReadsHold' /\ IdleBoot'
  BY <1>2 DEF OneRunner, ReadsHold, IdleBoot, Running
<1>4. RestoredFirst' /\ AdminRemains'
  <2>1. CASE MigrateAdministrator \/ AdoptForMigrated \/ DropLegacyRecord
    <3>1. phase' \notin {"adoptRestored", "serving"}
      BY <2>1 DEF MigrateAdministrator, AdoptForMigrated, DropLegacyRecord
    <3> QED BY <3>1 DEF RestoredFirst, AdminRemains
  <2>2. CASE StartWithStoredUsers
    <3>1. EnabledAdministrators' = EnabledAdministrators
      BY <2>2 DEF StartWithStoredUsers, store, EnabledAdministrators
    <3> QED BY <2>2, <3>1 DEF StartWithStoredUsers, RestoredFirst, AdminRemains
  <2>3. ASSUME NEW s \in Secrets, RestoreAdministrator(s) PROVE RestoredFirst' /\ AdminRemains'
    <3>1. MigratedAdministrator(s) \in UserRecord
      BY UnrestrictedType DEF MigratedAdministrator, User, UserRecord, Roles
    <3>2. IsEnabledAdmin(MigratedAdministrator(s))
      BY <3>1, ConsoleAssumption DEF MigratedAdministrator, User, IsEnabledAdmin
    <3>3. users'[AdminUsername] = MigratedAdministrator(s)
      BY <2>3, ConsoleAssumption DEF RestoreAdministrator, TypeInv, StoreOK
    <3>4. AdminUsername \in EnabledAdministrators'
      BY <3>2, <3>3, ConsoleAssumption DEF EnabledAdministrators
    <3> QED BY <3>4 DEF RestoredFirst, AdminRemains
  <2>4. CASE AdoptForRestored
    <3>1. EnabledAdministrators' = EnabledAdministrators
      BY <2>4 DEF AdoptForRestored, EnabledAdministrators
    <3> QED BY <2>4, <3>1 DEF AdoptForRestored, RestoredFirst, AdminRemains
  <2> QED BY <2>1, <2>2, <2>3, <2>4 DEF Boot
<1> QED BY <1>3, <1>4, BootType

\* The invariant outlives a restart: what was revoked stays revoked, and the
\* sessions are gone.
LEMMA RestartInv ==
    ASSUME ConsoleInv, Restart
    PROVE  ConsoleInv'
<1>1. sessions' = {} /\ queue' = <<>> /\ \A r \in Requests : job'[r] = None
  BY DEF Restart
<1>2. OneRunner' /\ ReadsHold' /\ IdleBoot'
  BY <1>1 DEF OneRunner, ReadsHold, IdleBoot, Running
<1>3. RestoredFirst' /\ AdminRemains'
  BY DEF Restart, RestoredFirst, AdminRemains
<1> QED BY <1>2, <1>3, RestartType DEF ConsoleInv

\* A request that is posted disturbs nobody.
LEMMA SubmitInv ==
    ASSUME ConsoleInv, NEW r \in Requests, Posts(r)
    PROVE  ConsoleInv'
<1> USE DEF ConsoleInv
<1>1. PICK x \in Jobs : x.pc = "queued" /\ Post(r, x)
  BY DEF Posts
<1>2. phase = "serving" /\ job[r] = None /\ job' = [job EXCEPT ![r] = x]
  BY <1>1 DEF Post
<1>3. UNCHANGED <<phase, users, keys, sessions>>
  BY DEF Posts, store
<1>4. job'[r] = x /\ \A q \in Requests \ {r} : job'[q] = job[q]
  BY <1>2 DEF TypeInv, JobsOK
<1>5. Running' = Running /\ \A q \in Running : q \in Requests /\ job'[q] = job[q]
  BY <1>1, <1>2, <1>4 DEF Running
<1>6. OneRunner'
  BY <1>5 DEF OneRunner
<1>7. ReadsHold'
  BY <1>3, <1>5 DEF ReadsHold, StillTrue, OtherAdmin, EnabledAdministrators
<1>10. IdleBoot' /\ RestoredFirst' /\ AdminRemains'
  BY <1>2, <1>3 DEF IdleBoot, RestoredFirst, AdminRemains, EnabledAdministrators
<1> QED BY <1>6, <1>7, <1>10, SubmitType

\* A session that ends by itself takes authority and gives none.
LEMMA IdleInv ==
    ASSUME ConsoleInv, (\E p \in sessions : Logout(p)) \/ UNCHANGED vars
    PROVE  ConsoleInv'
<1> USE DEF ConsoleInv
<1>1. UNCHANGED <<phase, users, keys, job, queue>> /\ sessions' \subseteq sessions
  BY DEF Logout, vars, store
<1>2. TypeInv'
  BY TypePreserved DEF Next
<1>3. OneRunner' /\ ReadsHold'
  BY <1>1 DEF OneRunner, ReadsHold, Running, StillTrue, OtherAdmin, EnabledAdministrators
<1>5. IdleBoot' /\ RestoredFirst' /\ AdminRemains'
  BY <1>1 DEF IdleBoot, RestoredFirst, AdminRemains, EnabledAdministrators
<1> QED BY <1>2, <1>3, <1>5

\* With one thread, every step keeps the invariant.
LEMMA ConsoleInvPreserved ==
    ASSUME ConsoleInv, IoThreads = 1, [Next]_vars
    PROVE  ConsoleInv'
<1>1. ASSUME NEW r \in Requests, Submit(r) \/ Step(r) PROVE ConsoleInv'
  <2>1. CASE Submit(r)
    <3>1. Posts(r)
      BY <2>1, SubmitPosts DEF ConsoleInv
    <3> QED BY <3>1, SubmitInv
  <2> QED BY <1>1, <2>1, StepInv
<1> QED BY <1>1, BootInv, RestartInv, IdleInv DEF Next

\* With one thread, the invariant holds throughout.
LEMMA ConsoleInvariant ==
    ASSUME IoThreads = 1
    PROVE  Spec => []ConsoleInv
<1>1. ConsoleInv /\ [Next]_vars => ConsoleInv'
  BY ConsoleInvPreserved
<1> QED BY InitInv, <1>1, PTL DEF Spec

\* With one pool thread the console always keeps an enabled administrator,
\* whatever deletions, demotions, disablings, password changes and restarts
\* are asked for: the count is still right when the row is written.
THEOREM AdministratorSafety ==
    ASSUME IoThreads = 1
    PROVE  Spec => []AdminRemains
<1>1. ConsoleInv => AdminRemains
  BY DEF ConsoleInv
<1> QED BY ConsoleInvariant, <1>1, PTL

=============================================================================
