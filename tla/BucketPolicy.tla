---------------------------- MODULE BucketPolicy ----------------------------
(***************************************************************************)
(* Bucket policies: s3/bucket_policy.cpp. A document is a sequence of      *)
(* statements; its JSON is parsed away. The server keeps two flags of a    *)
(* document, whether everybody may read the objects and whether everybody  *)
(* may list the bucket, and refuses a document those cannot express.       *)
(* EverybodyIsGranted is the reference: what the document says of a        *)
(* request without credentials when its statements are evaluated one by    *)
(* one and a Deny wins.                                                    *)
(***************************************************************************)
EXTENDS Naturals, Sequences

\* "qualified": a Condition, NotAction, NotResource or NotPrincipal element.
\* "part" is a Resource below a prefix of the bucket, "other" another bucket.
Statements ==
    [effect     : {"Allow", "Deny", "Log"},
     qualified  : BOOLEAN,
     principals : SUBSET {"everybody", "somebody"},
     resources  : SUBSET {"*", "bucket", "objects", "part", "other"},
     actions    : SUBSET {"*", "GetObject", "ListBucket", "PutObject"}]

\* A statement inside the grammar; an absent or unreadable element is the
\* empty set.
understood(s) ==
    /\ ~s.qualified
    /\ s.effect = "Allow"
    /\ s.principals = {"everybody"}
    /\ s.resources # {} /\ s.resources \subseteq {"*", "bucket", "objects"}
    /\ s.actions # {} /\ s.actions \subseteq {"*", "GetObject", "ListBucket"}

validateBucketPolicy(document) ==
    \A i \in DOMAIN document : understood(document[i])

\* An action grants only where its resource reaches.
analyseBucketPolicy(document) ==
    {flag \in {"read", "list"} :
        \E i \in DOMAIN document :
            LET s == document[i]
            IN  \/ /\ flag = "read"
                   /\ s.actions \cap {"*", "GetObject"} # {}
                   /\ s.resources \cap {"*", "objects"} # {}
                \/ /\ flag = "list"
                   /\ s.actions \cap {"*", "ListBucket"} # {}
                   /\ s.resources \cap {"*", "bucket"} # {}}
----------------------------------------------------------------------------
\* The reference. A qualified statement may fail to apply, so it grants
\* nothing and, as a Deny, may deny.
Concerns(s, flag) ==
    /\ "everybody" \in s.principals
    /\ flag = "read" => /\ s.resources \cap {"*", "objects"} # {}
                        /\ s.actions \cap {"*", "GetObject"} # {}
    /\ flag = "list" => /\ s.resources \cap {"*", "bucket"} # {}
                        /\ s.actions \cap {"*", "ListBucket"} # {}

MayDeny(s, flag) ==
    /\ s.effect = "Deny"
    /\ flag = "read" => s.resources \cap {"*", "objects", "part"} # {}
    /\ flag = "list" => s.resources \cap {"*", "bucket"} # {}
    /\ s.actions \cap {"*", IF flag = "read" THEN "GetObject" ELSE "ListBucket"} # {}

EverybodyIsGranted(document, flag) ==
    /\ \E i \in DOMAIN document :
          /\ document[i].effect = "Allow" /\ ~document[i].qualified
          /\ Concerns(document[i], flag)
    /\ \A i \in DOMAIN document : ~MayDeny(document[i], flag)
=============================================================================
