------------------------------ MODULE Identity ------------------------------
(***************************************************************************)
(* Who may do what: core/identity.cpp. A role is a set of permissions, a   *)
(* bucket grant narrows a role on the buckets it names, and the two are    *)
(* decided together, by the console for a session and by the S3 router for *)
(* the owner of an access key.                                             *)
(***************************************************************************)
EXTENDS Functions

Roles == {"administrator", "operator", "readonly"}

BucketScoped == {"bucket:read", "object:read", "bucket:write", "object:write", "capacity:write"}

Permissions ==
    BucketScoped \cup
    {"settings:read", "settings:write", "credential:read", "credential:write",
     "user:read", "user:write", "audit:read", "backup:write"}

BucketAccess == {"none", "read", "write"}

allows(role, permission) ==
    \/ role = "administrator"
    \/ /\ role = "operator"
       /\ permission \in {"bucket:read", "bucket:write", "object:read", "object:write",
                          "settings:read", "credential:read", "credential:write"}
    \/ /\ role = "readonly"
       /\ permission \in {"bucket:read", "object:read", "settings:read", "credential:read"}

\* Only the bucket-scoped permissions are narrowed by the access to a bucket.
permits(access, permission) ==
    CASE permission \in {"bucket:read", "object:read"} -> access # "none"
      [] permission \in {"bucket:write", "object:write", "capacity:write"} -> access = "write"
      [] OTHER -> TRUE

\* Grants are a fallback and a partial function from bucket names.
BucketGrants(names) ==
    [fallback : BucketAccess, exceptions : UNION {[E -> BucketAccess] : E \in SUBSET names}]

Unrestricted == [fallback |-> "write", exceptions |-> <<>>]
unrestricted(grants) == grants.fallback = "write" /\ DOMAIN grants.exceptions = {}

forBucket(grants, bucket) ==
    IF bucket \in DOMAIN grants.exceptions THEN grants.exceptions[bucket] ELSE grants.fallback

\* What the console stores for the grants a request states: an exception that
\* repeats the fallback is dropped.
readBucketGrants(stated) ==
    [stated EXCEPT !.exceptions =
        Restrict(@, {b \in DOMAIN @ : @[b] # stated.fallback})]

\* The whole decision for a request that names a bucket.
may(role, grants, bucket, permission) ==
    /\ allows(role, permission)
    /\ role = "administrator" \/ permits(forBucket(grants, bucket), permission)
=============================================================================
