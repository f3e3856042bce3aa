--------------------------- MODULE RequestsProofs ---------------------------
(***************************************************************************)
(* What holds of the parts a request passes through, for every set of      *)
(* requests, policies, bodies, rules, objects and faults: the authority it *)
(* is served on, the body that is published, the cross-origin answer, the  *)
(* versions a download is made of, what a power cut leaves, and the rows a *)
(* paginated listing reports. Each part has its inductive invariant, a     *)
(* lemma for each step and a theorem; they share no variable.              *)
(***************************************************************************)
EXTENDS RequestPath, ChunkedBody, Cors, ObjectReads, PowerLoss, Listing,
        RecursionTheorems, SequenceTheorems, FiniteSetTheorems,
        WellFoundedInduction, TLAPS

-----------------------------------------------------------------------------
(* Sequences cut and put together. *)

\* The elements of two sequences put together.
LEMMA Joins ==
    ASSUME NEW S, NEW s \in Seq(S), NEW t \in Seq(S)
    PROVE  /\ s \o t \in Seq(S) /\ Len(s \o t) = Len(s) + Len(t)
           /\ \A i \in 1..Len(s) : (s \o t)[i] = s[i]
           /\ \A i \in 1..Len(t) : (s \o t)[Len(s) + i] = t[i]
<1>1. PICK m, n : m = Len(s) /\ n = Len(t)
  OBVIOUS
<1>2. m \in Nat /\ n \in Nat
  BY <1>1, LenProperties
<1>3. /\ s \o t \in Seq(S) /\ Len(s \o t) = m + n
      /\ \A i \in 1..m + n : (s \o t)[i] = IF i <= m THEN s[i] ELSE t[i - m]
  BY <1>1, ConcatProperties
<1>4. \A i \in 1..m : (s \o t)[i] = s[i]
  BY <1>2, <1>3
<1>5. ASSUME NEW i \in 1..n
      PROVE  (s \o t)[m + i] = t[i]
  <2>1. PICK k : k = m + i
    OBVIOUS
  <2>2. k \in 1..m + n /\ ~(k <= m) /\ k - m = i
    BY <1>2, <2>1
  <2>3. (s \o t)[k] = t[k - m]
    BY <1>3, <2>2
  <2> QED BY <2>1, <2>2, <2>3
<1> QED BY <1>1, <1>3, <1>4, <1>5

\* The elements of a piece of a sequence.
LEMMA Cuts ==
    ASSUME NEW S, NEW v \in Seq(S), NEW m \in Nat, NEW n \in Nat, m <= n, n <= Len(v)
    PROVE  /\ SubSeq(v, m + 1, n) \in Seq(S) /\ Len(SubSeq(v, m + 1, n)) = n - m
           /\ \A i \in 1..(n - m) : SubSeq(v, m + 1, n)[i] = v[m + i]
<1>1. Len(v) \in Nat /\ \A i \in 1..Len(v) : v[i] \in S
  BY LenProperties, ElementOfSeq
<1>2. PICK k : k = m + 1
  OBVIOUS
<1>3. k \in Int /\ n \in Int /\ \A i \in k..n : v[i] \in S
  BY <1>1, <1>2
<1>4. /\ SubSeq(v, k, n) \in Seq(S) /\ Len(SubSeq(v, k, n)) = IF k <= n THEN n - k + 1 ELSE 0
      /\ \A i \in 1..n - k + 1 : SubSeq(v, k, n)[i] = v[k + i - 1]
  BY <1>3, SubSeqProperties
<1>5. Len(SubSeq(v, k, n)) = n - m
  BY <1>2, <1>4
<1>6. ASSUME NEW i \in 1..(n - m)
      PROVE  SubSeq(v, k, n)[i] = v[m + i]
  <2>1. i \in 1..n - k + 1 /\ k + i - 1 = m + i
    BY <1>2
  <2> QED BY <1>4, <2>1
<1> QED BY <1>2, <1>4, <1>5, <1>6

\* The elements of a beginning of a sequence.
LEMMA Beginning ==
    ASSUME NEW S, NEW v \in Seq(S), NEW n \in Nat, n <= Len(v)
    PROVE  /\ SubSeq(v, 1, n) \in Seq(S) /\ Len(SubSeq(v, 1, n)) = n
           /\ \A i \in 1..n : SubSeq(v, 1, n)[i] = v[i]
<1>1. Len(v) \in Nat /\ \A i \in 1..Len(v) : v[i] \in S
  BY LenProperties, ElementOfSeq
<1>2. 1 \in Int /\ n \in Int /\ \A i \in 1..n : v[i] \in S
  BY <1>1
<1>3. /\ SubSeq(v, 1, n) \in Seq(S) /\ Len(SubSeq(v, 1, n)) = IF 1 <= n THEN n - 1 + 1 ELSE 0
      /\ \A i \in 1..n - 1 + 1 : SubSeq(v, 1, n)[i] = v[1 + i - 1]
  BY <1>2, SubSeqProperties
<1>4. ASSUME NEW i \in 1..n
      PROVE  SubSeq(v, 1, n)[i] = v[i]
  <2>1. i \in 1..n - 1 + 1 /\ 1 + i - 1 = i
    OBVIOUS
  <2> QED BY <1>3, <2>1
<1> QED BY <1>3, <1>4

\* A sequence cut in two is put together again.
LEMMA CutJoins ==
    ASSUME NEW S, NEW v \in Seq(S), NEW c \in Nat, c <= Len(v)
    PROVE  SubSeq(v, 1, c) \o SubSeq(v, c + 1, Len(v)) = v
<1>1. PICK n, x, z : n = Len(v) /\ x = SubSeq(v, 1, c) /\ z = SubSeq(v, c + 1, n)
  OBVIOUS
<1>2. n \in Nat /\ c <= n /\ n <= Len(v) /\ n - c \in Nat
  BY <1>1, LenProperties
<1>3. x \in Seq(S) /\ Len(x) = c /\ \A i \in 1..c : x[i] = v[i]
  BY <1>1, Beginning
<1>4. z \in Seq(S) /\ Len(z) = n - c /\ \A i \in 1..(n - c) : z[i] = v[c + i]
  BY <1>1, <1>2, Cuts
<1>5. /\ x \o z \in Seq(S) /\ Len(x \o z) = Len(x) + Len(z)
      /\ \A i \in 1..Len(x) : (x \o z)[i] = x[i]
      /\ \A i \in 1..Len(z) : (x \o z)[Len(x) + i] = z[i]
  <2>1. x \in Seq(S) /\ z \in Seq(S)
    BY <1>3, <1>4
  <2> QED BY ONLY <2>1, Joins
<1>6. Len(x \o z) = n
  BY <1>2, <1>3, <1>4, <1>5
<1>7. ASSUME NEW i \in 1..n
      PROVE  (x \o z)[i] = v[i]
  <2>1. CASE i <= c
    <3>1. i \in 1..c
      BY <1>2, <2>1
    <3> QED BY <1>3, <1>5, <3>1
  <2>2. CASE ~(i <= c)
    <3>1. PICK j : j = i - c
      OBVIOUS
    <3>2. j \in 1..(n - c) /\ c + j = i
      BY <1>2, <2>2, <3>1
    <3>3. (x \o z)[Len(x) + j] = z[j] /\ z[j] = v[c + j]
      BY <1>4, <1>5, <3>2
    <3> QED BY <1>3, <3>2, <3>3
  <2> QED BY <2>1, <2>2
<1>8. x \o z = v
  BY <1>1, <1>5, <1>6, <1>7, SeqEqual
<1> QED BY <1>1, <1>8

\* Sequences that agree as far as a piece goes have the same piece.
LEMMA SamePiece ==
    ASSUME NEW S, NEW v \in Seq(S), NEW w \in Seq(S), NEW m \in Nat, NEW n \in Nat, m <= n,
           NEW c \in Nat, n <= c, c <= Len(v), Len(w) = c, \A i \in 1..c : w[i] = v[i]
    PROVE  SubSeq(w, m + 1, n) = SubSeq(v, m + 1, n)
<1>1. PICK s, t : s = SubSeq(v, m + 1, n) /\ t = SubSeq(w, m + 1, n)
  OBVIOUS
<1>2. n <= Len(v) /\ n <= Len(w)
  BY LenProperties
<1>3. s \in Seq(S) /\ Len(s) = n - m /\ \A i \in 1..(n - m) : s[i] = v[m + i]
  BY <1>1, <1>2, Cuts
<1>4. t \in Seq(S) /\ Len(t) = n - m /\ \A i \in 1..(n - m) : t[i] = w[m + i]
  BY <1>1, <1>2, Cuts
<1>5. \A i \in 1..(n - m) : m + i \in 1..c
  OBVIOUS
<1>6. \A i \in 1..Len(t) : t[i] = s[i]
  BY <1>3, <1>4, <1>5
<1>7. t = s
  BY <1>3, <1>4, <1>6, SeqEqual
<1> QED BY <1>1, <1>7

\* And the same beginning.
LEMMA SameBeginning ==
    ASSUME NEW S, NEW v \in Seq(S), NEW w \in Seq(S), NEW n \in Nat,
           n <= Len(v), n <= Len(w), \A i \in 1..n : w[i] = v[i]
    PROVE  SubSeq(w, 1, n) = SubSeq(v, 1, n)
<1>1. PICK s, t : s = SubSeq(v, 1, n) /\ t = SubSeq(w, 1, n)
  OBVIOUS
<1>2. s \in Seq(S) /\ Len(s) = n /\ \A i \in 1..n : s[i] = v[i]
  BY <1>1, Beginning
<1>3. t \in Seq(S) /\ Len(t) = n /\ \A i \in 1..n : t[i] = w[i]
  BY <1>1, Beginning
<1>4. t = s
  BY <1>2, <1>3, SeqEqual
<1> QED BY <1>1, <1>4

\* What was put together begins and ends with its parts.
LEMMA JoinCuts ==
    ASSUME NEW S, NEW x \in Seq(S), NEW z \in Seq(S)
    PROVE  /\ SubSeq(x \o z, 1, Len(x)) = x
           /\ SubSeq(x \o z, Len(x) + 1, Len(x) + Len(z)) = z
<1>1. PICK v, a, c, k : v = x \o z /\ a = Len(x) /\ c = Len(z) /\ k = a + c
  OBVIOUS
<1>2. a \in Nat /\ c \in Nat /\ k \in Nat /\ a <= k
  BY <1>1, LenProperties
<1>3. /\ v \in Seq(S) /\ Len(v) = k /\ \A i \in 1..a : v[i] = x[i]
      /\ \A i \in 1..c : v[a + i] = z[i]
  BY <1>1, Joins
<1>4. PICK s, t : s = SubSeq(v, 1, a) /\ t = SubSeq(v, a + 1, k)
  OBVIOUS
<1>5. s \in Seq(S) /\ Len(s) = a /\ \A i \in 1..a : s[i] = v[i]
  BY <1>2, <1>3, <1>4, Beginning
<1>6. t \in Seq(S) /\ Len(t) = k - a /\ \A i \in 1..(k - a) : t[i] = v[a + i]
  <2>1. k <= Len(v)
    BY <1>2, <1>3
  <2> QED BY <1>2, <1>3, <1>4, <2>1, Cuts
<1>7. k - a = c
  BY <1>1, <1>2
<1>8. s = x
  BY <1>1, <1>3, <1>5, SeqEqual
<1>9. t = z
  BY <1>1, <1>3, <1>6, <1>7, SeqEqual
<1> QED BY <1>1, <1>4, <1>8, <1>9

-----------------------------------------------------------------------------
(* The request path: who is served, and on whose authority. *)

\* What a signed message is made of, and what one without a signature is.
SignedMessages ==
    [kind : {"header", "presigned"}, form : Forms, by : Nat, at : Nat, life : Nat,
     flawed : BOOLEAN, link : BOOLEAN, signed : [form : Forms, by : Nat, at : Nat, life : Nat]]
PlainMessages == [kind : {"anonymous"}, form : Forms, link : {FALSE}]

\* A message some client or the console made, changed on its way or not. The
\* signature of a link covers the reading of one object.
Genuine(m) ==
    /\ m \in SignedMessages \cup PlainMessages
    /\ m.link => m.kind # "anonymous" /\ m.signed.form.object /\ m.signed.form.method = "GET"
                 /\ m.signed.form.query = {}

\* The operations dispatch has no handler for.
NoHandler == {"Unsupported", "MethodNotAllowed"}

\* What the steps of serve have established by each phase. What was true when a
\* step read it is in the warrant, though it may have changed since.
InService ==
    LET m == served.msg
        operation == classify(served.form)
        signed == m.kind # "anonymous"
    IN  /\ served.phase \in {"arrived", "identify", "classify", "fill", "dispatch"} \cup Answered
        /\ Genuine(m) /\ warrant \subseteq Grounds(m)
        /\ signed /\ m.by = Root => "owner" \in warrant
        /\ served.phase = "arrived" => served.form = Arrived(m.form)
        /\ served.phase = "identify" => signed
        /\ served.phase = "classify" /\ ~signed => served.form = Arrived(m.form)
        /\ served.phase \in {"identify", "classify", "fill", "dispatch"} =>
              served.form.method # "OPTIONS"
        /\ served.phase = "fill" =>
              /\ ~signed /\ served.form = Arrived(m.form)
              /\ served.basis.at \in 1..Len(records) /\ ~served.basis.late
              /\ Opens(served.basis.at, m.form) => "open" \in warrant
        /\ served.phase \in {"identify", "classify", "dispatch", "served"} /\ signed =>
              served.form = m.signed.form /\ {"key", "fresh"} \subseteq warrant
        /\ served.phase = "classify" /\ signed /\ operation \notin NoHandler
              /\ IdentityMay(served.identity, served.form, operation) => "owner" \in warrant
        /\ served.phase \in {"dispatch", "served"} /\ ~signed =>
              served.basis.at \in 1..Len(records)
        /\ served.phase = "dispatch" /\ operation \notin NoHandler =>
              Grounds(m) \subseteq warrant \/ ServedLate
        /\ served.phase = "served" =>
              /\ Grounds(m) \subseteq warrant \/ ServedLate
              /\ m.link => operation = "GetObject"

\* The cached entry: one that was put in time is of a record that still stands,
\* because every writer drops the entry before a record stops standing. The
\* flags of every record are what its owner opened.
CacheSound ==
    /\ records \in Seq([flags : SUBSET {"read", "list"}, opens : SUBSET {"read", "list"}])
    /\ Len(records) > 0
    /\ \A v \in 1..Len(records) : records[v].flags = records[v].opens
    /\ filling \subseteq 1..Len(records)
    /\ cached # NoEntry =>
          /\ cached.at \in 1..Len(records)
          /\ ~cached.late => Standing(cached.at)

\* The inductive invariant of the request path.
RequestInv ==
    /\ now \in Nat /\ CacheSound
    /\ message = Nothing \/ Genuine(message)
    /\ served.phase = "idle" \/ InService

\* The table decides by one of its rows, or not at all.
LEMMA FirstOf ==
    ASSUME NEW f, NEW table, NEW n \in Nat, DOMAIN table = 1..n, NEW otherwise
    PROVE  \/ First(f, table, otherwise) = otherwise
           \/ \E i \in 1..n : First(f, table, otherwise) = table[i][2]
<1> DEFINE hits == {i \in DOMAIN table : table[i][1] \in f.query}
<1>1. CASE hits = {}
  BY <1>1 DEF First
<1>2. CASE hits # {}
  <2>1. \E i \in hits : \A j \in hits : i <= j
    <3>1. hits \in SUBSET Nat
      OBVIOUS
    <3> HIDE DEF hits
    <3> QED BY <1>2, <3>1, LeastNumber
  <2>2. PICK i : i = CHOOSE k \in hits : \A j \in hits : k <= j
    OBVIOUS
  <2>3. i \in hits
    <3> HIDE DEF hits
    <3> QED BY <2>1, <2>2
  <2>4. First(f, table, otherwise) = table[i][2]
    BY <1>2, <2>2 DEF First
  <2> QED BY <2>3, <2>4
<1> QED BY <1>1, <1>2

\* What every row and the default belong to, the answer belongs to.
LEMMA FirstIn ==
    ASSUME NEW f, NEW table, NEW n \in Nat, DOMAIN table = 1..n, NEW otherwise, NEW S,
           otherwise \in S, \A i \in 1..n : table[i][2] \in S
    PROVE  First(f, table, otherwise) \in S
<1>1. \/ First(f, table, otherwise) = otherwise
      \/ \E i \in 1..n : First(f, table, otherwise) = table[i][2]
  BY FirstOf
<1> QED BY <1>1

\* A query that names none of the subresources leaves the default.
LEMMA FirstOfNone ==
    ASSUME NEW f, f.query = {}, NEW table, NEW otherwise
    PROVE  First(f, table, otherwise) = otherwise
BY DEF First

BucketReads == {"ListMultipartUploads", "GetBucketLocation", "GetBucketVersioning",
                "GetBucketPolicy", "GetBucketAcl", "GetBucketCors", "ListObjectsV1",
                "ListObjectsV2"}
BucketWrites == {"CreateBucket", "DeleteBucket", "PutBucketPolicy", "DeleteBucketPolicy",
                 "PutBucketAcl", "PutBucketCors", "DeleteBucketCors"}
ObjectWrites == {"DeleteObjects", "PutObject", "DeleteObject", "CreateMultipartUpload",
                 "UploadPart", "CompleteMultipartUpload", "AbortMultipartUpload"}

\* classifyBucket names an operation on the bucket, by the method.
LEMMA ClassifyBucket ==
    ASSUME NEW f
    PROVE  /\ f.method = "GET" => classifyBucket(f) \in BucketReads
           /\ f.method = "HEAD" => classifyBucket(f) = "HeadBucket"
           /\ f.method \notin {"GET", "HEAD"} =>
                 classifyBucket(f) \in BucketWrites \cup {"DeleteObjects"} \cup NoHandler
<1>1. CASE f.method = "GET"
  <2> DEFINE table == <<<<"uploads", "ListMultipartUploads">>, <<"location", "GetBucketLocation">>,
                        <<"versioning", "GetBucketVersioning">>, <<"policy", "GetBucketPolicy">>,
                        <<"acl", "GetBucketAcl">>, <<"cors", "GetBucketCors">>,
                        <<"list2", "ListObjectsV2">>>>
  <2>1. classifyBucket(f) = First(f, table, "ListObjectsV1")
    BY <1>1 DEF classifyBucket
  <2>2. DOMAIN table = 1..7 /\ \A i \in 1..7 : table[i][2] \in BucketReads
    BY DEF BucketReads
  <2>3. First(f, table, "ListObjectsV1") \in BucketReads
    <3> HIDE DEF table
    <3>1. "ListObjectsV1" \in BucketReads
      BY DEF BucketReads
    <3>2. 7 \in Nat
      OBVIOUS
    <3> QED BY <2>2, <3>1, <3>2, FirstIn
  <2> QED BY <1>1, <2>1, <2>3
<1>2. CASE f.method = "HEAD"
  BY <1>2 DEF classifyBucket
<1>3. CASE f.method = "PUT"
  <2> DEFINE table == <<<<"policy", "PutBucketPolicy">>, <<"acl", "PutBucketAcl">>,
                        <<"cors", "PutBucketCors">>>>
  <2>1. classifyBucket(f) = First(f, table, "CreateBucket")
    BY <1>3 DEF classifyBucket
  <2>2. DOMAIN table = 1..3 /\ \A i \in 1..3 : table[i][2] \in BucketWrites
    BY DEF BucketWrites
  <2>3. First(f, table, "CreateBucket") \in BucketWrites
    <3> HIDE DEF table
    <3>1. "CreateBucket" \in BucketWrites /\ 3 \in Nat
      BY DEF BucketWrites
    <3> QED BY <2>2, <3>1, FirstIn
  <2> QED BY <1>3, <2>1, <2>3
<1>4. CASE f.method = "DELETE"
  <2> DEFINE table == <<<<"policy", "DeleteBucketPolicy">>, <<"cors", "DeleteBucketCors">>>>
  <2>1. classifyBucket(f) = First(f, table, "DeleteBucket")
    BY <1>4 DEF classifyBucket
  <2>2. DOMAIN table = 1..2 /\ \A i \in 1..2 : table[i][2] \in BucketWrites
    BY DEF BucketWrites
  <2>3. First(f, table, "DeleteBucket") \in BucketWrites
    <3> HIDE DEF table
    <3>1. "DeleteBucket" \in BucketWrites /\ 2 \in Nat
      BY DEF BucketWrites
    <3> QED BY <2>2, <3>1, FirstIn
  <2> QED BY <1>4, <2>1, <2>3
<1>5. CASE f.method = "POST"
  <2> DEFINE table == <<<<"delete", "DeleteObjects">>, <<"uploadId", "Unsupported">>>>
             names == {"DeleteObjects"} \cup NoHandler
  <2>1. classifyBucket(f) = First(f, table, "MethodNotAllowed")
    BY <1>5 DEF classifyBucket
  <2>2. DOMAIN table = 1..2 /\ \A i \in 1..2 : table[i][2] \in names
    BY DEF NoHandler
  <2>3. First(f, table, "MethodNotAllowed") \in names
    <3>1. "MethodNotAllowed" \in names /\ 2 \in Nat
      BY DEF NoHandler
    <3> HIDE DEF table, names
    <3> QED BY <2>2, <3>1, FirstIn
  <2> QED BY <1>5, <2>1, <2>3
<1>6. CASE f.method \notin {"GET", "HEAD", "PUT", "DELETE", "POST"}
  BY <1>6 DEF classifyBucket, NoHandler
<1> QED BY <1>1, <1>2, <1>3, <1>4, <1>5, <1>6

\* classifyObject names an operation on the object, by the method.
LEMMA ClassifyObject ==
    ASSUME NEW f
    PROVE  /\ f.method = "GET" => classifyObject(f) \in {"GetObject", "ListParts", "GetBucketAcl"}
           /\ f.method = "HEAD" => classifyObject(f) = "HeadObject"
           /\ f.method \notin {"GET", "HEAD"} => classifyObject(f) \in ObjectWrites \cup NoHandler
           /\ f.method = "GET" /\ f.query = {} => classifyObject(f) = "GetObject"
<1>1. CASE f.method = "GET"
  <2> DEFINE table == <<<<"uploadId", "ListParts">>, <<"acl", "GetBucketAcl">>>>
             names == {"GetObject", "ListParts", "GetBucketAcl"}
  <2>1. classifyObject(f) = First(f, table, "GetObject")
    BY <1>1 DEF classifyObject
  <2>2. DOMAIN table = 1..2 /\ \A i \in 1..2 : table[i][2] \in names
    OBVIOUS
  <2>3. First(f, table, "GetObject") \in names
    <3>1. "GetObject" \in names /\ 2 \in Nat
      OBVIOUS
    <3> HIDE DEF table, names
    <3> QED BY <2>2, <3>1, FirstIn
  <2>4. f.query = {} => First(f, table, "GetObject") = "GetObject"
    BY FirstOfNone
  <2> QED BY <1>1, <2>1, <2>3, <2>4
<1>2. CASE f.method = "HEAD"
  BY <1>2 DEF classifyObject
<1>3. CASE f.method = "PUT"
  BY <1>3 DEF classifyObject, ObjectWrites, NoHandler
<1>4. CASE f.method = "DELETE"
  <2> DEFINE table == <<<<"uploadId", "AbortMultipartUpload">>>>
  <2>1. classifyObject(f) = First(f, table, "DeleteObject")
    BY <1>4 DEF classifyObject
  <2>2. DOMAIN table = 1..1 /\ \A i \in 1..1 : table[i][2] \in ObjectWrites
    BY DEF ObjectWrites
  <2>3. First(f, table, "DeleteObject") \in ObjectWrites
    <3> HIDE DEF table
    <3>1. "DeleteObject" \in ObjectWrites /\ 1 \in Nat
      BY DEF ObjectWrites
    <3> QED BY <2>2, <3>1, FirstIn
  <2> QED BY <1>4, <2>1, <2>3
<1>5. CASE f.method = "POST"
  <2> DEFINE table == <<<<"uploads", "CreateMultipartUpload">>,
                        <<"uploadId", "CompleteMultipartUpload">>>>
             names == ObjectWrites \cup NoHandler
  <2>1. classifyObject(f) = First(f, table, "MethodNotAllowed")
    BY <1>5 DEF classifyObject
  <2>2. DOMAIN table = 1..2 /\ \A i \in 1..2 : table[i][2] \in names
    BY DEF ObjectWrites
  <2>3. First(f, table, "MethodNotAllowed") \in names
    <3>1. "MethodNotAllowed" \in names /\ 2 \in Nat
      BY DEF NoHandler
    <3> HIDE DEF table, names
    <3> QED BY <2>2, <3>1, FirstIn
  <2> QED BY <1>5, <2>1, <2>3
<1>6. CASE f.method \notin {"GET", "HEAD", "PUT", "DELETE", "POST"}
  BY <1>6 DEF classifyObject, NoHandler
<1> QED BY <1>1, <1>2, <1>3, <1>4, <1>5, <1>6

\* The router asks for the permission of what the handler does.
LEMMA AsksForWhatItDoes ==
    ASSUME NEW f, f.method # "OPTIONS", classify(f) \notin NoHandler
    PROVE  permissionFor(classify(f)) = Needs(classify(f))
<1> DEFINE op == classify(f)
<1>1. op \in {"ListBuckets", "HeadBucket", "GetObject", "ListParts", "HeadObject"} \cup BucketReads
             \cup BucketWrites \cup ObjectWrites
  <2>1. classifyService(f) \in {"ListBuckets"} \cup NoHandler
    BY DEF classifyService, NoHandler
  <2>2. "Unsupported" \in NoHandler
    BY DEF NoHandler
  <2>3. "DeleteObjects" \in ObjectWrites /\ "GetBucketAcl" \in BucketReads
    BY DEF ObjectWrites, BucketReads
  <2> QED BY <2>1, <2>2, <2>3, ClassifyBucket, ClassifyObject DEF classify
<1> HIDE DEF op
<1>2. ASSUME op \in {"ListBuckets", "HeadBucket", "GetObject", "ListParts", "HeadObject"}
      PROVE  permissionFor(op) = Needs(op)
  BY <1>2 DEF permissionFor, Needs, OnObjects, Writes
<1>3. ASSUME op \in BucketReads
      PROVE  permissionFor(op) = Needs(op)
  BY <1>3 DEF permissionFor, Needs, OnObjects, Writes, BucketReads
<1>4. ASSUME op \in BucketWrites
      PROVE  permissionFor(op) = Needs(op)
  BY <1>4 DEF permissionFor, Needs, OnObjects, Writes, BucketWrites
<1>5. ASSUME op \in ObjectWrites
      PROVE  permissionFor(op) = Needs(op)
  BY <1>5 DEF permissionFor, Needs, OnObjects, Writes, ObjectWrites
<1>6. permissionFor(op) = Needs(op)
  BY <1>1, <1>2, <1>3, <1>4, <1>5
<1> QED BY <1>6 DEF op

\* What is open to everybody as a GET is open as the HEAD it may have been.
LEMMA OpenEitherWay ==
    ASSUME NEW form \in Forms, NEW v \in 1..Len(records), NEW flags,
           CacheSound, flags \subseteq records[v].flags,
           LET f == Arrived(form) IN f.method # "OPTIONS" /\ EverybodyMay(flags, f, classify(f))
    PROVE  Opens(v, form)
<1> DEFINE f == Arrived(form)
           op == classify(f)
<1>1. form \in RequestForms
  BY RequestConstants
<1>2. /\ f.bucket = form.bucket /\ f.object = form.object /\ f.query = form.query
      /\ f.method = IF form.method = "HEAD" THEN "GET" ELSE form.method
  BY <1>1 DEF Arrived, RequestForms
<1>3. /\ f.bucket # NoService /\ f.method # "OPTIONS"
      /\ \/ op \in {"GetObject", "HeadObject"} /\ "read" \in records[v].opens
         \/ op \in {"ListObjectsV1", "ListObjectsV2", "HeadBucket"} /\ "list" \in records[v].opens
  BY DEF EverybodyMay, CacheSound
<1>4. CASE form.method = "HEAD"
  <2>1. f.method = "GET"
    BY <1>2, <1>4
  <2>2. op \notin BucketReads => op \notin {"ListObjectsV1", "ListObjectsV2"}
    BY DEF BucketReads
  <2>3. op # "Unsupported"
    BY <1>3
  <2>4. "versions" \notin f.query
    BY <2>1, <2>3 DEF classify
  <2>5. CASE f.object
    <3>1. op \in {"GetObject", "ListParts", "GetBucketAcl"}
      BY <1>3, <2>1, <2>4, <2>5, ClassifyObject DEF classify
    <3>2. classify(form) = "HeadObject"
      BY <1>2, <1>3, <1>4, <2>4, <2>5, ClassifyObject DEF classify
    <3> QED BY <1>3, <3>1, <3>2 DEF Opens
  <2>6. CASE ~f.object
    <3>1. op \in BucketReads
      BY <1>3, <2>1, <2>4, <2>6, ClassifyBucket DEF classify
    <3>2. classify(form) = "HeadBucket"
      BY <1>2, <1>3, <1>4, <2>4, <2>6, ClassifyBucket DEF classify
    <3>3. op \notin {"GetObject", "HeadObject"}
      BY <3>1 DEF BucketReads
    <3> QED BY <1>3, <3>2, <3>3 DEF Opens
  <2> QED BY <2>5, <2>6
<1>5. CASE form.method # "HEAD"
  <2>1. f = form
    BY <1>5 DEF Arrived
  <2> QED BY <1>3, <2>1 DEF Opens
<1> QED BY <1>4, <1>5

\* For a document inside the grammar the two flags are what it grants.
LEMMA FlagsAreGrants ==
    ASSUME NEW d, validateBucketPolicy(d)
    PROVE  analyseBucketPolicy(d) = {flag \in {"read", "list"} : EverybodyIsGranted(d, flag)}
<1>1. \A i \in DOMAIN d : /\ d[i].effect = "Allow" /\ ~d[i].qualified
                          /\ "everybody" \in d[i].principals
  BY DEF validateBucketPolicy, understood
<1>2. \A flag \in {"read", "list"} : \A i \in DOMAIN d : ~MayDeny(d[i], flag)
  BY <1>1 DEF MayDeny
<1>3. "read" \in analyseBucketPolicy(d) <=> EverybodyIsGranted(d, "read")
  BY <1>1, <1>2 DEF analyseBucketPolicy, EverybodyIsGranted, Concerns
<1>4. "list" \in analyseBucketPolicy(d) <=> EverybodyIsGranted(d, "list")
  BY <1>1, <1>2 DEF analyseBucketPolicy, EverybodyIsGranted, Concerns
<1>5. analyseBucketPolicy(d) \subseteq {"read", "list"}
  BY DEF analyseBucketPolicy
<1> QED BY <1>3, <1>4, <1>5

\* What is observed adds to the warrant of a request in service, and nothing else.
LEMMA Observed ==
    ASSUME NEW m, m = served.msg, m = served'.msg, served'.phase # "idle", Observe,
           warrant \subseteq Grounds(m)
    PROVE  /\ warrant \subseteq warrant' /\ warrant' \subseteq Grounds(m)
           /\ Holding(m)' \subseteq warrant'
<1>1. warrant' = warrant \cup Holding(m)'
  BY DEF Observe
<1>2. Holding(m)' \subseteq Grounds(m)
  BY DEF Holding, Grounds
<1> QED BY <1>1, <1>2

\* No record is ever changed: a new one is put after them.
RecordsStay ==
    \A v \in 1..Len(records) : v \in 1..Len(records') /\ records'[v] = records[v]

LEMMA OpensStays ==
    ASSUME RecordsStay, NEW v \in 1..Len(records), NEW form
    PROVE  v \in 1..Len(records)' /\ (Opens(v, form)' <=> Opens(v, form))
BY DEF RecordsStay, Opens

\* A record served late stays what it was.
LEMMA LateStays ==
    ASSUME RecordsStay, served'.msg = served.msg, served'.basis = served.basis,
           served.basis.at \in 1..Len(records)
    PROVE  served'.basis.at \in 1..Len(records)' /\ (ServedLate' <=> ServedLate)
<1>1. PICK m, b : m = served.msg /\ b = served.basis
  OBVIOUS
<1>2. b.at \in 1..Len(records)' /\ (Opens(b.at, m.form)' <=> Opens(b.at, m.form))
  BY <1>1, OpensStays
<1> QED BY <1>1, <1>2 DEF ServedLate

\* A step outside serve leaves the request as it is, and what it had established.
LEMMA OutsideServe ==
    ASSUME RequestInv, UNCHANGED <<message, served>>, Observe, now' \in Nat, CacheSound',
           RecordsStay
    PROVE  RequestInv'
<1>1. CASE served.phase = "idle"
  BY <1>1 DEF RequestInv, Genuine
<1>2. CASE served.phase # "idle"
  <2>1. InService
    BY <1>2 DEF RequestInv
  <2>2. PICK m : m = served.msg
    OBVIOUS
  <2>3. warrant \subseteq warrant' /\ warrant' \subseteq Grounds(m)
    BY <1>2, <2>1, <2>2, Observed DEF InService
  <2>4. served.basis.at \in 1..Len(records) =>
          /\ served'.basis.at \in 1..Len(records)' /\ (ServedLate' <=> ServedLate)
          /\ Opens(served.basis.at, m.form)' <=> Opens(served.basis.at, m.form)
    <3> SUFFICES ASSUME served.basis.at \in 1..Len(records)
                 PROVE  /\ served'.basis.at \in 1..Len(records)' /\ (ServedLate' <=> ServedLate)
                        /\ Opens(served.basis.at, m.form)' <=> Opens(served.basis.at, m.form)
      OBVIOUS
    <3>1. PICK v : v = served.basis.at
      OBVIOUS
    <3>2. Opens(v, m.form)' <=> Opens(v, m.form)
      BY <3>1, OpensStays
    <3> QED BY <3>1, <3>2, LateStays
  <2>5. ~(m.kind = "anonymous") => ~ServedLate /\ ~ServedLate'
    BY <2>2 DEF ServedLate
  <2>6. InService'
    BY <2>1, <2>2, <2>3, <2>4, <2>5 DEF InService, Grounds, IdentityMay, Genuine
  <2> QED BY <2>6 DEF RequestInv
<1> QED BY <1>1, <1>2

\* A change of the bucket leaves the entry, which still stands.
LEMMA CommitKeeps ==
    ASSUME CacheSound, NEW flags \in SUBSET {"read", "list"}, Commit(BucketState(flags, flags))
    PROVE  CacheSound' /\ RecordsStay
<1> DEFINE T == [flags : SUBSET {"read", "list"}, opens : SUBSET {"read", "list"}]
           s == BucketState(flags, flags)
<1>1. s \in T /\ s.flags = s.opens
  BY DEF BucketState
<1>2. /\ records \in Seq(T) /\ Len(records) \in Nat /\ Len(records) > 0
      /\ records' = Append(records, s)
      /\ pending' = pending \cup {Len(records) + 1} /\ filling' = filling /\ cached' = cached
  BY LenProperties DEF CacheSound, Commit
<1> HIDE DEF s, T
<1>3. /\ records' \in Seq(T) /\ Len(records') = Len(records) + 1
      /\ \A v \in 1..Len(records) : records'[v] = records[v]
      /\ records'[Len(records) + 1] = s
  BY <1>1, <1>2, AppendProperties
<1>4. RecordsStay
  BY <1>2, <1>3 DEF RecordsStay
<1>5. \A v \in 1..Len(records)' : records'[v].flags = records'[v].opens
  <2> SUFFICES ASSUME NEW v \in 1..(Len(records) + 1)
               PROVE  records'[v].flags = records'[v].opens
    BY <1>3
  <2>1. CASE v = Len(records) + 1
    BY <1>1, <1>3, <2>1
  <2>2. CASE v # Len(records) + 1
    <3>1. v \in 1..Len(records)
      BY <1>2, <2>2
    <3> QED BY <1>3, <3>1 DEF CacheSound
  <2> QED BY <2>1, <2>2
<1>6. \A v : Standing(v) => Standing(v)'
  <2> SUFFICES ASSUME NEW v, Standing(v), NEW u \in (v + 1)..(Len(records) + 1)
               PROVE  u \in pending'
    BY <1>3 DEF Standing
  <2>1. CASE u = Len(records) + 1
    BY <1>2, <2>1
  <2>2. CASE u # Len(records) + 1
    <3>1. u \in (v + 1)..Len(records)
      BY <1>2, <2>2
    <3> QED BY <1>2, <3>1 DEF Standing
  <2> QED BY <2>1, <2>2
<1>7. cached' # NoEntry => cached'.at \in 1..Len(records)' /\ (~cached'.late => Standing(cached.at)')
  <2>1. PICK c : c = cached.at
    OBVIOUS
  <2>2. Standing(c) => Standing(c)'
    BY <1>6
  <2> QED BY <1>2, <1>3, <2>1, <2>2 DEF CacheSound, NoEntry
<1>8. filling' \subseteq 1..Len(records)'
  BY <1>2, <1>3 DEF CacheSound
<1>9. Len(records)' > 0 /\ (records \in Seq(T))'
  BY <1>2, <1>3
<1>10. Standing(cached.at)' <=> (Standing(cached.at))'
  OBVIOUS
<1> QED BY <1>4, <1>5, <1>7, <1>8, <1>9 DEF CacheSound, T, NoEntry

\* Readers cache what they read, and writers and time drop it.
LEMMA CacheKeeps ==
    ASSUME CacheSound, InvalidateBucket \/ ReadBucket \/ CacheBucket \/ DropEntry
    PROVE  CacheSound' /\ RecordsStay /\ Observe
             /\ UNCHANGED <<now, secret, owner, message, served>>
<1>1. records' = records /\ Observe /\ UNCHANGED <<now, secret, owner, message, served>>
  BY DEF InvalidateBucket, ReadBucket, CacheBucket, DropEntry
<1>2. RecordsStay
  BY <1>1 DEF RecordsStay
<1>3. filling' \subseteq 1..Len(records)
  <2>1. Len(records) \in Nat /\ Len(records) > 0
    BY LenProperties DEF CacheSound
  <2>2. CASE ReadBucket
    <3>1. filling' = filling \cup {Len(records)} /\ filling \subseteq 1..Len(records)
      BY <2>2 DEF ReadBucket, CacheSound
    <3>2. PICK n : n = Len(records)
      OBVIOUS
    <3>3. n \in 1..n /\ filling' = filling \cup {n} /\ filling \subseteq 1..n
      BY <2>1, <3>1, <3>2
    <3>4. filling' \subseteq 1..n
      BY ONLY <3>3
    <3> QED BY <3>2, <3>4
  <2>3. CASE CacheBucket
    BY <2>3 DEF CacheBucket, CacheSound
  <2>4. CASE InvalidateBucket \/ DropEntry
    BY <2>4 DEF InvalidateBucket, DropEntry, CacheSound
  <2> QED BY <2>2, <2>3, <2>4
<1>4. (cached # NoEntry => cached.at \in 1..Len(records) /\ (~cached.late => Standing(cached.at)))'
  <2>1. CASE InvalidateBucket \/ DropEntry
    BY <2>1 DEF InvalidateBucket, DropEntry
  <2>2. CASE ReadBucket
    BY <2>2 DEF ReadBucket, CacheSound, Standing, NoEntry
  <2>3. CASE CacheBucket
    <3>1. PICK v \in filling : cached' = Entry(v)
      BY <2>3 DEF CacheBucket
    <3>2. v \in 1..Len(records) /\ cached'.at = v /\ (~cached'.late => Standing(v))
      BY <3>1 DEF CacheSound, Entry
    <3>3. Standing(v) => Standing(v)'
      BY <1>1, <2>3 DEF CacheBucket, Standing
    <3> QED BY <1>1, <3>2, <3>3 DEF Standing
  <2> QED BY <2>1, <2>2, <2>3
<1>5. CacheSound'
  BY <1>1, <1>3, <1>4 DEF CacheSound, NoEntry, Standing
<1> QED BY <1>1, <1>2, <1>5

\* A client's message is genuine.
LEMMA SendGenuine ==
    ASSUME NEW form \in Forms, NEW at \in Nat, NEW m \in Messages(form, at)
    PROVE  Genuine(m)
<1>1. Secrets \in Nat /\ MaxExpires \in Nat
  BY RequestConstants
<1>2. CASE m = Unsigned(form)
  BY <1>2 DEF Unsigned, Genuine, PlainMessages
<1>3. CASE m = Signed("header", form, Root, at, 0, TRUE, FALSE)
  <2>1. m \in SignedMessages /\ m.link = FALSE
    BY <1>3 DEF Signed, Cover, SignedMessages, Root
  <2> QED BY <2>1 DEF Genuine
<1>6. CASE m = Signed("presigned", form, Root, at, 1, TRUE, FALSE)
  <2>1. m \in SignedMessages /\ m.link = FALSE
    BY <1>6 DEF Signed, Cover, SignedMessages, Root
  <2> QED BY <2>1 DEF Genuine
<1>4. ASSUME NEW by \in 0..Secrets, m = Signed("header", form, by, at, 0, FALSE, FALSE)
      PROVE  Genuine(m)
  <2>1. by \in Nat
    BY <1>1
  <2>2. m \in SignedMessages /\ m.link = FALSE
    BY <1>4, <2>1 DEF Signed, Cover, SignedMessages
  <2> QED BY <2>2 DEF Genuine
<1>5. ASSUME NEW by \in 0..Secrets, NEW life \in 0..(MaxExpires + 1),
             m = Signed("presigned", form, by, at, life, FALSE, FALSE)
      PROVE  Genuine(m)
  <2>1. by \in Nat /\ life \in Nat
    BY <1>1
  <2>2. m \in SignedMessages /\ m.link = FALSE
    BY <1>5, <2>1 DEF Signed, Cover, SignedMessages
  <2> QED BY <2>2 DEF Genuine
<1>7. \/ m \in {Unsigned(form), Signed("header", form, Root, at, 0, TRUE, FALSE),
                Signed("presigned", form, Root, at, 1, TRUE, FALSE)}
      \/ \E by \in 0..Secrets : m = Signed("header", form, by, at, 0, FALSE, FALSE)
      \/ \E life \in 0..(MaxExpires + 1) : \E by \in 0..Secrets :
            m = Signed("presigned", form, by, at, life, FALSE, FALSE)
  BY DEF Messages
<1> QED BY <1>2, <1>3, <1>4, <1>5, <1>6, <1>7

\* A link covers the reading of one object.
LEMMA MintGenuine ==
    ASSUME NEW form \in Forms, form.object, form.method = "GET", form.query = {},
           NEW at \in Nat, NEW life \in Nat
    PROVE  Genuine(Signed("presigned", form, Root, at, life, FALSE, TRUE))
<1> DEFINE m == Signed("presigned", form, Root, at, life, FALSE, TRUE)
<1>1. m \in SignedMessages /\ m.signed.form = form /\ m.kind = "presigned"
  BY DEF Signed, Cover, SignedMessages, Root
<1> QED BY <1>1 DEF Genuine

\* A change on the way leaves what was signed.
LEMMA AlterGenuine ==
    ASSUME NEW m, Genuine(m), m.kind # "anonymous"
    PROVE  /\ \A form \in Forms : Genuine([m EXCEPT !.form = form])
           /\ Genuine([m EXCEPT !.life = m.life + 1])
<1>1. m \in SignedMessages
  BY DEF Genuine, PlainMessages
<1>2. ASSUME NEW form \in Forms
      PROVE  Genuine([m EXCEPT !.form = form])
  <2> DEFINE k == [m EXCEPT !.form = form]
  <2>1. k \in SignedMessages
    BY <1>1 DEF SignedMessages
  <2>2. k.signed = m.signed /\ k.link = m.link /\ k.kind = m.kind
    BY <1>1 DEF SignedMessages
  <2> HIDE DEF k
  <2>3. Genuine(k)
    BY <2>1, <2>2 DEF Genuine
  <2> QED BY <2>3 DEF k
<1>3. Genuine([m EXCEPT !.life = m.life + 1])
  <2> DEFINE k == [m EXCEPT !.life = m.life + 1]
  <2>1. k \in SignedMessages
    BY <1>1 DEF SignedMessages
  <2>2. k.signed = m.signed /\ k.link = m.link /\ k.kind = m.kind
    BY <1>1 DEF SignedMessages
  <2> HIDE DEF k
  <2>3. Genuine(k)
    BY <2>1, <2>2 DEF Genuine
  <2> QED BY <2>3 DEF k
<1> QED BY <1>2, <1>3

\* The clients, the network and the console's edits.
LEMMA ClientsKeep ==
    ASSUME RequestInv,
           (\E form \in Forms : Send(form) \/ MintLink(form)) \/ Alter \/ Tick \/ ChangeKey
           \/ ChangeOwner \/ PutPolicy \/ PublishObjects
           \/ InvalidateBucket \/ ReadBucket \/ CacheBucket \/ DropEntry
    PROVE  RequestInv'
<1>1. ASSUME NEW m, message' = m, Genuine(m),
             UNCHANGED <<now, bucketCache, served, warrant>>
      PROVE  RequestInv'
  <2>1. (served.phase = "idle")' \/ InService'
    BY <1>1 DEF RequestInv, InService, Grounds, IdentityMay, Genuine, ServedLate, Opens, bucketCache
  <2>2. CacheSound'
    BY <1>1 DEF RequestInv, CacheSound, Standing, bucketCache
  <2> QED BY <1>1, <2>1, <2>2 DEF RequestInv, Genuine
<1>2. ASSUME NEW form \in Forms, Send(form)
      PROVE  RequestInv'
  <2>1. PICK at \in 0..MaxNow : \E m \in Messages(form, at) : message' = m
    BY <1>2 DEF Send
  <2>2. PICK m \in Messages(form, at) : message' = m
    BY <2>1
  <2>3. MaxNow \in Nat /\ at \in Nat
    BY RequestConstants
  <2>4. Genuine(m)
    BY <2>3, SendGenuine
  <2> QED BY <1>1, <1>2, <2>2, <2>4 DEF Send
<1>3. ASSUME NEW form \in Forms, MintLink(form)
      PROVE  RequestInv'
  <2>1. PICK life \in 1..MaxExpires :
           message' = Signed("presigned", form, Root, now, life, FALSE, TRUE)
    BY <1>3 DEF MintLink
  <2>2. life \in Nat /\ now \in Nat
    BY RequestConstants DEF RequestInv
  <2>3. PICK m : m = Signed("presigned", form, Root, now, life, FALSE, TRUE)
    OBVIOUS
  <2>4. Genuine(m)
    BY <1>3, <2>2, <2>3, MintGenuine DEF MintLink
  <2> QED BY <1>1, <1>3, <2>1, <2>3, <2>4 DEF MintLink
<1>4. CASE Alter
  <2>1. Genuine(message) /\ message.kind # "anonymous"
    BY <1>4 DEF Alter, RequestInv
  <2>2. /\ \A form \in Forms : Genuine([message EXCEPT !.form = form])
        /\ Genuine([message EXCEPT !.life = message.life + 1])
    BY <2>1, AlterGenuine
  <2>3. \/ \E form \in Forms : message' = [message EXCEPT !.form = form]
        \/ message' = [message EXCEPT !.life = message.life + 1]
    BY <1>4 DEF Alter, Near
  <2>4. \E m : message' = m /\ Genuine(m)
    BY <2>2, <2>3
  <2> QED BY <1>1, <1>4, <2>4 DEF Alter
<1>5. CASE Tick \/ ChangeKey \/ ChangeOwner
  <2>1. UNCHANGED bucketCache /\ UNCHANGED <<message, served>> /\ Observe /\ now' \in Nat
    BY <1>5 DEF Tick, ChangeKey, ChangeOwner, Edit, RequestInv
  <2>2. CacheSound' /\ RecordsStay
    BY <2>1 DEF RequestInv, CacheSound, Standing, bucketCache, RecordsStay
  <2> QED BY <2>1, <2>2, OutsideServe
<1>6. CASE PutPolicy \/ PublishObjects
  <2>1. UNCHANGED <<now, message, served>>
    BY <1>6 DEF PutPolicy, PublishObjects, Edit
  <2>2. \E flags \in SUBSET {"read", "list"} : Commit(BucketState(flags, flags))
    <3>1. CASE PutPolicy
      <4>1. PICK d \in Documents :
               /\ validateBucketPolicy(d)
               /\ Commit(BucketState(analyseBucketPolicy(d),
                            {flag \in {"read", "list"} : EverybodyIsGranted(d, flag)}))
        BY <3>1 DEF PutPolicy
      <4>2. PICK flags : flags = analyseBucketPolicy(d)
        OBVIOUS
      <4>3. flags = {flag \in {"read", "list"} : EverybodyIsGranted(d, flag)}
        BY <4>1, <4>2, FlagsAreGrants
      <4>4. flags \in SUBSET {"read", "list"}
        BY <4>3
      <4>5. Commit(BucketState(flags, flags))
        BY <4>1, <4>2, <4>3
      <4> QED BY <4>4, <4>5
    <3>2. CASE PublishObjects
      BY <3>2 DEF PublishObjects
    <3> QED BY <1>6, <3>1, <3>2
  <2>3. PICK flags \in SUBSET {"read", "list"} : Commit(BucketState(flags, flags))
    BY <2>2
  <2>4. CacheSound' /\ RecordsStay
    BY <2>3, CommitKeeps DEF RequestInv
  <2> QED BY <2>1, <2>3, <2>4, OutsideServe DEF Commit, RequestInv
<1>7. CASE InvalidateBucket \/ ReadBucket \/ CacheBucket \/ DropEntry
  BY <1>7, CacheKeeps, OutsideServe DEF RequestInv
<1> QED BY <1>2, <1>3, <1>4, <1>5, <1>6, <1>7

\* What holds of a signed message, after a step that changes no record.
LEMMA HoldsAfter ==
    ASSUME NEW m, UNCHANGED <<now, secret, owner, records, pending>>
    PROVE  /\ m.kind # "anonymous" /\ m.by \in {Root, secret} => "key" \in Holding(m)'
           /\ m.kind # "anonymous" /\ (m.by = Root \/ OwnerMay(m.signed.form)) =>
                 "owner" \in Holding(m)'
           /\ m.kind # "anonymous" /\ Fresh(m) => "fresh" \in Holding(m)'
           /\ m.kind = "anonymous" /\ OpenTo(m.form) => "open" \in Holding(m)'
<1>1. m.kind # "anonymous" /\ m.by \in {Root, secret} => "key" \in Holding(m)'
  BY DEF Holding, Grounds
<1>2. OwnerMay(m.signed.form)' <=> OwnerMay(m.signed.form)
  BY DEF OwnerMay
<1>3. m.kind # "anonymous" /\ (m.by = Root \/ OwnerMay(m.signed.form)) => "owner" \in Holding(m)'
  BY <1>2 DEF Holding, Grounds
<1>4. Fresh(m)' <=> Fresh(m)
  BY DEF Fresh
<1>5. m.kind # "anonymous" /\ Fresh(m) => "fresh" \in Holding(m)'
  BY <1>4 DEF Holding, Grounds
<1>6. OpenTo(m.form)' <=> OpenTo(m.form)
  BY DEF OpenTo, Standing, Opens
<1>7. m.kind = "anonymous" /\ OpenTo(m.form) => "open" \in Holding(m)'
  BY <1>6 DEF Holding, Grounds
<1> QED BY <1>1, <1>3, <1>5, <1>7

\* A step of serve that leaves the cache alone.
LEMMA CacheStays ==
    ASSUME CacheSound, UNCHANGED bucketCache
    PROVE  CacheSound' /\ RecordsStay
BY DEF CacheSound, Standing, bucketCache, RecordsStay

\* A refusal establishes nothing.
LEMMA RefusalKeeps ==
    ASSUME RequestInv, served.phase # "idle", NEW basis, Reach("refused", basis), Observe,
           CacheSound', UNCHANGED <<now, message>>
    PROVE  RequestInv'
<1>1. PICK m : m = served.msg
  OBVIOUS
<1>2. InService
  BY DEF RequestInv
<1>3. served'.phase = "refused" /\ served'.msg = m /\ served'.form = served.form
  BY <1>1 DEF Reach
<1>4. warrant \subseteq warrant' /\ warrant' \subseteq Grounds(m)
  BY <1>1, <1>2, <1>3, Observed DEF InService
<1>5. InService'
  BY <1>1, <1>2, <1>3, <1>4 DEF InService, Answered, Grounds, Genuine
<1> QED BY <1>5 DEF RequestInv, Genuine

LEMMA DenyKeeps ==
    ASSUME RequestInv, served.phase # "idle", Deny, Observe,
           UNCHANGED <<now, bucketCache, message>>
    PROVE  RequestInv'
BY RefusalKeeps, CacheStays DEF Deny, Answer, RequestInv

\* A message that arrives is in service, with what holds of it now.
LEMMA DeliverKeeps ==
    ASSUME RequestInv, Deliver
    PROVE  RequestInv'
<1>1. PICK m : m = message
  OBVIOUS
<1>2. Genuine(m)
  BY <1>1 DEF Deliver, RequestInv
<1>3. /\ served'.phase = "arrived" /\ served'.msg = m /\ served'.form = Arrived(m.form)
      /\ warrant' = Holding(m) /\ message' \in {Nothing, m}
      /\ UNCHANGED <<now, bucketCache>>
  BY <1>1 DEF Deliver
<1>4. Holding(m) \subseteq Grounds(m)
  BY DEF Holding
<1>5. m.kind # "anonymous" /\ m.by = Root => "owner" \in Holding(m)
  BY DEF Holding, Grounds
<1>6. InService'
  BY <1>2, <1>3, <1>4, <1>5 DEF InService, Answered, Grounds, Genuine
<1> QED BY <1>2, <1>3, <1>6, CacheStays DEF RequestInv, Genuine

\* The answer of SignedForm is what was signed.
LEMMA SignedFormIsSigned ==
    ASSUME NEW form, form.method # "OPTIONS", NEW m \in SignedMessages, SignedForm(form, m) # Nothing
    PROVE  SignedForm(form, m) = m.signed.form /\ SignedForm(form, m).method # "OPTIONS"
<1>1. ASSUME NEW f, Verifying(f, m)
      PROVE  f = m.signed.form
  BY <1>1 DEF Verifying, Cover
<1>2. CASE Verifying(form, m)
  BY <1>1, <1>2 DEF SignedForm
<1>3. CASE ~Verifying(form, m)
  <2>1. /\ SignedForm(form, m) = [form EXCEPT !.method = "HEAD"]
        /\ Verifying([form EXCEPT !.method = "HEAD"], m)
    BY <1>3 DEF SignedForm
  <2>2. SignedForm(form, m) = m.signed.form
    BY <1>1, <2>1
  <2>3. m.signed.form \in Forms
    BY DEF SignedMessages
  <2>4. m.signed.form \in RequestForms
    BY <2>3, RequestConstants
  <2>5. m.signed.form.method # "OPTIONS"
    <3> DEFINE k == [form EXCEPT !.method = "HEAD"]
    <3>1. "method" \in DOMAIN k
      BY <2>1, <2>2, <2>4 DEF RequestForms
    <3>2. "method" \in DOMAIN form
      BY <3>1
    <3>3. k.method = "HEAD"
      BY <3>2
    <3> HIDE DEF k
    <3>4. m.signed.form = k
      BY <2>1, <2>2 DEF k
    <3> QED BY <3>3, <3>4
  <2> QED BY <2>2, <2>5
<1> QED BY <1>2, <1>3

\* authenticate: the key and the date, as they are at this step.
LEMMA AuthenticateKeeps ==
    ASSUME RequestInv, Authenticate
    PROVE  RequestInv'
<1>1. PICK m : m = served.msg
  OBVIOUS
<1>2. InService /\ served.phase = "arrived" /\ served.form.method # "OPTIONS" /\ Genuine(m)
      /\ served.form = Arrived(m.form) /\ now \in Nat
  BY <1>1 DEF Authenticate, RequestInv, InService
<1>3. UNCHANGED <<now, secret, owner, bucketCache, message>> /\ Observe
  BY DEF Authenticate
<1>4. ASSUME m.kind = "anonymous",
             served' = [phase |-> "classify", msg |-> m, form |-> served.form]
      PROVE  RequestInv'
  <2>1. served'.phase = "classify" /\ served'.msg = m /\ served'.form = served.form
    BY <1>4
  <2>2. warrant \subseteq warrant' /\ warrant' \subseteq Grounds(m)
    BY <1>1, <1>2, <1>3, <2>1, Observed DEF InService
  <2>3. InService'
    BY <1>2, <1>4, <2>1, <2>2 DEF InService, Answered, Grounds, Genuine
  <2> QED BY <1>3, <2>3, CacheStays DEF RequestInv, Genuine
<1>5. ASSUME NEW form, m.kind # "anonymous", InTime(m), m.by \in {Root, secret},
             form = SignedForm(served.form, m), form # Nothing,
             served' = [phase |-> "identify", msg |-> m, form |-> form]
      PROVE  RequestInv'
  <2>1. served'.phase = "identify" /\ served'.msg = m /\ served'.form = form
    BY <1>5
  <2>2. m \in SignedMessages
    BY <1>2, <1>5 DEF Genuine, PlainMessages
  <2>3. form = m.signed.form /\ form.method # "OPTIONS"
    BY <1>2, <1>5, <2>2, SignedFormIsSigned
  <2>4. /\ warrant \subseteq warrant' /\ warrant' \subseteq Grounds(m)
        /\ Holding(m)' \subseteq warrant'
    BY <1>1, <1>2, <1>3, <2>1, Observed DEF InService
  <2>5. Fresh(m)
    <3>1. /\ m.at \in Nat /\ m.life \in Nat /\ m.kind \in {"header", "presigned"}
          /\ MaxExpires \in Nat /\ Skew \in Nat
      BY <2>2, RequestConstants DEF SignedMessages
    <3> QED BY <1>2, <1>5, <3>1 DEF Fresh, InTime
  <2>6. {"key", "fresh"} \subseteq warrant'
    BY <1>3, <1>5, <2>4, <2>5, HoldsAfter DEF bucketCache
  <2>7. m.by = Root => "owner" \in warrant'
    BY <1>1, <1>2, <1>5, <2>4 DEF InService
  <2>8. InService'
    BY <1>2, <1>5, <2>1, <2>3, <2>4, <2>6, <2>7 DEF InService, Answered, Grounds, Genuine
  <2> QED BY <1>3, <2>8, CacheStays DEF RequestInv, Genuine
<1>6. CASE Deny
  BY <1>2, <1>3, <1>6, DenyKeeps
<1> QED BY <1>1, <1>4, <1>5, <1>6 DEF Authenticate

\* getUser: the owner, as it is at this step.
LEMMA IdentifyKeeps ==
    ASSUME RequestInv, Identify
    PROVE  RequestInv'
<1>1. PICK m, form, identity :
        /\ m = served.msg /\ form = served.form
        /\ identity = IF served.msg.by = Root THEN RootIdentity
                      ELSE IF owner = NoUser \/ owner.disabled THEN Nothing
                      ELSE [role |-> owner.role, grants |-> owner.grants]
  OBVIOUS
<1>2. /\ InService /\ served.phase = "identify" /\ Genuine(m) /\ m.kind # "anonymous"
      /\ form = m.signed.form /\ form.method # "OPTIONS" /\ {"key", "fresh"} \subseteq warrant
      /\ m.by = Root => "owner" \in warrant
  BY <1>1 DEF Identify, RequestInv, InService
<1>3. UNCHANGED <<now, secret, owner, bucketCache, message>> /\ Observe
  BY DEF Identify
<1>4. served' = [phase |-> "classify", msg |-> m, form |-> form, identity |-> identity]
  BY <1>1 DEF Identify
<1>5. /\ served'.phase = "classify" /\ served'.msg = m /\ served'.form = form
      /\ served'.identity = identity
  BY <1>4
<1>6. /\ warrant \subseteq warrant' /\ warrant' \subseteq Grounds(m)
      /\ Holding(m)' \subseteq warrant'
  BY <1>1, <1>2, <1>3, <1>5, Observed DEF InService
<1>7. ASSUME classify(form) \notin NoHandler, IdentityMay(identity, form, classify(form))
      PROVE  "owner" \in warrant'
  <2>1. CASE m.by = Root
    BY <1>2, <1>6, <2>1
  <2>2. CASE m.by # Root
    <3>1. /\ owner # NoUser /\ ~owner.disabled
          /\ identity = [role |-> owner.role, grants |-> owner.grants]
      BY <1>1, <1>7, <2>2 DEF IdentityMay
    <3>2. permissionFor(classify(form)) = Needs(classify(form))
      BY <1>2, <1>7, AsksForWhatItDoes
    <3>3. OwnerMay(form)
      BY <1>7, <3>1, <3>2 DEF OwnerMay, IdentityMay
    <3> QED BY <1>2, <1>3, <1>6, <3>3, HoldsAfter DEF bucketCache
  <2> QED BY <2>1, <2>2
<1>8. InService'
  BY <1>2, <1>5, <1>6, <1>7 DEF InService, Answered, Grounds, Genuine, IdentityMay
<1> QED BY <1>3, <1>8, CacheStays DEF RequestInv, Genuine

\* authorize for a signed request, on the identity that was read.
LEMMA AuthorizeKeeps ==
    ASSUME RequestInv, Authorize
    PROVE  RequestInv'
<1>1. PICK m, form : m = served.msg /\ form = served.form
  OBVIOUS
<1>2. /\ InService /\ served.phase = "classify" /\ Genuine(m) /\ form.method # "OPTIONS"
      /\ m.kind # "anonymous" /\ form = m.signed.form /\ {"key", "fresh"} \subseteq warrant
  BY <1>1 DEF Authorize, RequestInv, InService
<1>3. UNCHANGED <<now, secret, owner, bucketCache, message>> /\ Observe
  BY DEF Authorize
<1>4. CASE Deny
  BY <1>2, <1>3, <1>4, DenyKeeps
<1>5. ASSUME Reach("dispatch", NoEntry), IdentityMay(served.identity, form, classify(form))
      PROVE  RequestInv'
  <2>1. served'.phase = "dispatch" /\ served'.msg = m /\ served'.form = form
    BY <1>1, <1>5 DEF Reach
  <2>2. warrant \subseteq warrant' /\ warrant' \subseteq Grounds(m)
    BY <1>1, <1>2, <1>3, <2>1, Observed DEF InService
  <2>3. ASSUME classify(form) \notin NoHandler
        PROVE  Grounds(m) \subseteq warrant'
    <3>1. "owner" \in warrant
      BY <1>1, <1>2, <1>5, <2>3 DEF InService
    <3> QED BY <1>2, <2>2, <3>1 DEF Grounds
  <2>4. m.kind # "anonymous" /\ m.by = Root => "owner" \in warrant'
    BY <1>1, <1>2, <2>2 DEF InService
  <2>5. InService'
    BY <1>2, <2>1, <2>2, <2>3, <2>4 DEF InService, Answered, Genuine, Grounds
  <2> QED BY <1>3, <2>5, CacheStays DEF RequestInv, Genuine
<1> QED BY <1>1, <1>4, <1>5 DEF Authorize

\* What the records open is in the warrant, when the record still stands.
LEMMA StandingOpens ==
    ASSUME CacheSound, NEW v \in 1..Len(records), NEW m, m.kind = "anonymous", m = served.msg,
           m = served'.msg, served'.phase # "idle", Standing(v), Opens(v, m.form),
           UNCHANGED <<now, secret, owner, records, pending>>, Observe
    PROVE  "open" \in warrant'
<1>1. OpenTo(m.form)
  <2>1. DOMAIN records = 1..Len(records)
    BY LenProperties DEF CacheSound
  <2> QED BY <2>1 DEF OpenTo
<1>2. "open" \in Holding(m)'
  BY <1>1, HoldsAfter
<1>3. warrant' = warrant \cup Holding(m)'
  BY DEF Observe
<1> QED BY <1>2, <1>3

\* The end of authorize: a request without a signature is served on the record
\* that it was given, which opens the bucket to it.
LEMMA DecidedKeeps ==
    ASSUME RequestInv, served.phase \in {"classify", "fill"}, served.msg.kind = "anonymous",
           NEW v \in 1..Len(records), NEW basis, basis.at = v, NEW flags,
           flags \subseteq records[v].flags, AccessDecided(flags, basis), Observe, CacheSound',
           UNCHANGED <<now, secret, owner, records, pending, message>>,
           ~basis.late /\ Opens(v, served.msg.form) => "open" \in warrant'
    PROVE  RequestInv'
<1>1. PICK m, form : m = served.msg /\ form = served.form
  OBVIOUS
<1>2. /\ InService /\ Genuine(m) /\ form.method # "OPTIONS" /\ m.kind = "anonymous"
      /\ form = Arrived(m.form)
  BY <1>1 DEF RequestInv, InService
<1>3. CASE Reach("refused", basis)
  BY <1>3, RefusalKeeps
<1>4. ASSUME Reach("dispatch", basis), EverybodyMay(flags, form, classify(form))
      PROVE  RequestInv'
  <2>1. served'.phase = "dispatch" /\ served'.msg = m /\ served'.form = form /\ served'.basis = basis
    BY <1>1, <1>4 DEF Reach
  <2>2. warrant \subseteq warrant' /\ warrant' \subseteq Grounds(m)
    BY <1>1, <1>2, <2>1, Observed DEF InService
  <2>3. m.form \in Forms
    BY <1>2 DEF Genuine, SignedMessages, PlainMessages
  <2>4. Opens(v, m.form)
    BY <1>2, <1>4, <2>3, OpenEitherWay DEF RequestInv
  <2>5. Opens(v, m.form)'
    BY <2>4 DEF Opens
  <2>6. Grounds(m) \subseteq warrant' \/ ServedLate'
    <3>1. CASE basis.late
      BY <1>2, <2>1, <2>5, <3>1 DEF ServedLate
    <3>2. CASE ~basis.late
      <4>1. "open" \in warrant'
        BY <1>1, <2>4, <3>2
      <4> QED BY <1>2, <4>1 DEF Grounds
    <3> QED BY <3>1, <3>2
  <2>7. InService'
    BY <1>2, <2>1, <2>2, <2>6 DEF InService, Answered, Genuine, Grounds
  <2> QED BY <2>7 DEF RequestInv, Genuine
<1> QED BY <1>1, <1>3, <1>4 DEF AccessDecided

\* requireBucket: the entry, or the stored record, which stands.
LEMMA RequireBucketKeeps ==
    ASSUME RequestInv, RefuseAnonymous \/ HitBucket \/ MissBucket \/ FillBucket
    PROVE  RequestInv'
<1>0. PICK m : m = served.msg
  OBVIOUS
<1>1. CacheSound /\ Len(records) \in Nat
  BY LenProperties DEF RequestInv, CacheSound
<1>2. CASE RefuseAnonymous
  BY <1>2, DenyKeeps DEF RefuseAnonymous
<1>3. CASE HitBucket
  <2>1. /\ served.phase = "classify" /\ m.kind = "anonymous" /\ cached # NoEntry
        /\ AccessDecided(Encoded(records[cached.at].flags), cached) /\ Observe
        /\ UNCHANGED <<now, secret, owner, bucketCache, message>>
    BY <1>0, <1>3 DEF HitBucket, LooksUp
  <2>2. PICK v, c : v = cached.at /\ c = cached
    OBVIOUS
  <2>3. v \in 1..Len(records) /\ c.at = v /\ (~c.late => Standing(v))
    BY <1>1, <2>1, <2>2 DEF CacheSound
  <2>4. CacheSound'
    BY <1>1, <2>1, CacheStays
  <2>5. served'.phase # "idle" /\ served'.msg = m
    BY <1>0, <2>1 DEF AccessDecided, Reach
  <2>6. ~c.late /\ Opens(v, m.form) => "open" \in warrant'
    BY <1>0, <1>1, <2>1, <2>3, <2>5, StandingOpens DEF bucketCache
  <2>7. Encoded(records[v].flags) \subseteq records[v].flags
    BY DEF Encoded
  <2> QED BY <1>0, <2>1, <2>2, <2>3, <2>4, <2>6, <2>7, DecidedKeeps DEF bucketCache
<1>4. CASE MissBucket
  <2>1. /\ served.phase = "classify" /\ m.kind = "anonymous" /\ Observe
        /\ Reach("fill", [at |-> Len(records), late |-> FALSE])
        /\ UNCHANGED <<now, secret, owner, bucketCache, message>>
    BY <1>0, <1>4 DEF MissBucket, LooksUp
  <2>2. PICK v : v = Len(records)
    OBVIOUS
  <2>3. v \in 1..Len(records) /\ Standing(v)
    BY <1>1, <2>2 DEF CacheSound, Standing
  <2>4. /\ served'.phase = "fill" /\ served'.msg = m /\ served'.form = served.form
        /\ served'.basis.at = v /\ ~served'.basis.late
    BY <1>0, <2>1, <2>2 DEF Reach
  <2>5. Opens(v, m.form) => "open" \in warrant'
    BY <1>0, <1>1, <2>1, <2>3, <2>4, StandingOpens DEF bucketCache
  <2>6. Opens(v, m.form)' <=> Opens(v, m.form)
    BY <2>1 DEF Opens, bucketCache
  <2>7. /\ InService /\ Genuine(m) /\ served.form = Arrived(m.form)
        /\ served.form.method # "OPTIONS"
    BY <1>0, <2>1 DEF RequestInv, InService
  <2>8. warrant \subseteq warrant' /\ warrant' \subseteq Grounds(m)
    BY <1>0, <2>1, <2>4, <2>7, Observed DEF InService
  <2>9. v \in 1..Len(records')
    BY <2>1, <2>3 DEF bucketCache
  <2>10. InService'
    BY <2>1, <2>4, <2>5, <2>6, <2>7, <2>8, <2>9 DEF InService, Answered, Genuine, Grounds
  <2> QED BY <1>1, <2>1, <2>10, CacheStays DEF RequestInv, Genuine
<1>5. CASE FillBucket
  <2>1. PICK v, b : v = served.basis.at /\ b = served.basis
    OBVIOUS
  <2>2. /\ served.phase = "fill" /\ cached' = Entry(v) /\ Observe
        /\ AccessDecided(records[v].flags, b)
        /\ UNCHANGED <<now, secret, owner, records, pending, filling, message>>
    BY <1>5, <2>1 DEF FillBucket
  <2>3. /\ InService /\ m.kind = "anonymous" /\ v \in 1..Len(records) /\ b.at = v
        /\ Opens(v, m.form) => "open" \in warrant
    BY <1>0, <2>1, <2>2 DEF RequestInv, InService
  <2>4. served'.phase # "idle" /\ served'.msg = m
    BY <1>0, <2>2 DEF AccessDecided, Reach
  <2>5. warrant \subseteq warrant'
    BY <1>0, <2>2, <2>3, <2>4, Observed DEF InService
  <2>6. CacheSound'
    <3>1. cached'.at = v /\ (~cached'.late => Standing(v))
      BY <2>2 DEF Entry
    <3>2. Standing(v) => Standing(v)'
      BY <2>2 DEF Standing
    <3>3. (cached # NoEntry => cached.at \in 1..Len(records) /\ (~cached.late => Standing(cached.at)))'
      BY <2>2, <2>3, <3>1, <3>2 DEF Standing
    <3> QED BY <1>1, <2>2, <3>3 DEF CacheSound, NoEntry, Standing
  <2> QED BY <1>0, <2>1, <2>2, <2>3, <2>5, <2>6, DecidedKeeps
<1> QED BY <1>2, <1>3, <1>4, <1>5

\* A link is served as the reading of its object.
LEMMA LinkReads ==
    ASSUME NEW m, Genuine(m), m.link
    PROVE  classify(m.signed.form) = "GetObject"
<1>1. m \in SignedMessages
  BY DEF Genuine, PlainMessages
<1>2. m.signed.form \in Forms
  BY <1>1 DEF SignedMessages
<1>3. m.signed.form.bucket # NoService
  BY <1>2, RequestConstants DEF Genuine
<1> QED BY <1>3, ClassifyObject DEF Genuine, classify

\* dispatch, and the end of the exchange.
LEMMA DispatchKeeps ==
    ASSUME RequestInv, Dispatch
    PROVE  RequestInv'
<1>1. PICK m, form : m = served.msg /\ form = served.form
  OBVIOUS
<1>2. /\ InService /\ served.phase = "dispatch" /\ Genuine(m)
      /\ m.kind # "anonymous" => form = m.signed.form /\ {"key", "fresh"} \subseteq warrant
      /\ classify(form) \notin NoHandler => Grounds(m) \subseteq warrant \/ ServedLate
      /\ m.kind = "anonymous" => served.basis.at \in 1..Len(records)
  BY <1>1 DEF Dispatch, RequestInv, InService
<1>3. UNCHANGED <<now, secret, owner, bucketCache, message>> /\ Observe
  BY DEF Dispatch
<1>4. CASE Deny
  BY <1>2, <1>3, <1>4, DenyKeeps
<1>5. ASSUME classify(form) \notin NoHandler, Reach("served", served.basis)
      PROVE  RequestInv'
  <2>1. /\ served'.phase = "served" /\ served'.msg = m /\ served'.form = form
        /\ served'.basis = served.basis
    BY <1>1, <1>5 DEF Reach
  <2>2. warrant \subseteq warrant' /\ warrant' \subseteq Grounds(m)
    BY <1>1, <1>2, <1>3, <2>1, Observed DEF InService
  <2>3. m.link => classify(form) = "GetObject"
    BY <1>2, LinkReads DEF Genuine
  <2>4. m.kind # "anonymous" /\ m.by = Root => "owner" \in warrant'
    BY <1>1, <1>2, <2>2 DEF InService
  <2>5. CacheSound' /\ RecordsStay
    BY <1>3, CacheStays DEF RequestInv
  <2>6. m.kind = "anonymous" =>
          served'.basis.at \in 1..Len(records)' /\ (ServedLate' <=> ServedLate)
    BY <1>1, <1>2, <2>1, <2>5, LateStays
  <2>7. m.kind # "anonymous" => ~ServedLate
    BY <1>1 DEF ServedLate
  <2>8. Grounds(m) \subseteq warrant' \/ ServedLate'
    BY <1>2, <1>5, <2>2, <2>6, <2>7
  <2>9. InService'
    BY <1>2, <1>5, <2>1, <2>2, <2>3, <2>4, <2>6, <2>8 DEF InService, Answered, Genuine, Grounds
  <2> QED BY <1>3, <2>5, <2>9 DEF RequestInv, Genuine
<1> QED BY <1>1, <1>4, <1>5 DEF Dispatch, NoHandler

\* The other answers of serve.
LEMMA AnswersKeep ==
    ASSUME RequestInv, Preflight \/ Respond
    PROVE  RequestInv'
<1>1. CASE Preflight
  <2>1. PICK m : m = served.msg
    OBVIOUS
  <2>2. InService /\ Genuine(m)
    BY <1>1, <2>1 DEF Preflight, RequestInv, InService
  <2>3. served'.phase = "preflight" /\ served'.msg = m
    BY <1>1, <2>1 DEF Preflight, Answer, Reach
  <2>4. warrant \subseteq warrant' /\ warrant' \subseteq Grounds(m)
    BY <1>1, <2>1, <2>2, <2>3, Observed DEF InService, Preflight
  <2>5. InService'
    BY <2>1, <2>2, <2>3, <2>4 DEF InService, Answered, Grounds, Genuine
  <2> QED BY <1>1, <2>5, CacheStays DEF Preflight, RequestInv, Genuine
<1>2. CASE Respond
  BY <1>2, CacheStays DEF Respond, NoRequest, RequestInv, Genuine
<1> QED BY <1>1, <1>2

\* The invariant of serve holds throughout.
LEMMA RequestInvariant == RequestSpec => []RequestInv
<1>1. RequestInit => RequestInv
  <2> SUFFICES ASSUME RequestInit PROVE RequestInv
    OBVIOUS
  <2>1. CacheSound
    BY DEF RequestInit, CacheSound, BucketState, NoEntry
  <2> QED BY <2>1 DEF RequestInit, RequestInv, NoRequest
<1>2. RequestInv /\ [RequestNext]_requestVars => RequestInv'
  <2> SUFFICES ASSUME RequestInv, [RequestNext]_requestVars PROVE RequestInv'
    OBVIOUS
  <2>1. CASE UNCHANGED requestVars
    <3>1. UNCHANGED <<now, bucketCache, message, served, warrant>>
      BY <2>1 DEF requestVars
    <3>2. CacheSound' /\ records' = records
      BY <3>1, CacheStays DEF RequestInv, bucketCache
    <3>3. (served.phase = "idle")' \/ InService'
      BY <3>1, <3>2 DEF RequestInv, InService, Genuine, Grounds, IdentityMay, ServedLate, Opens
    <3> QED BY <3>1, <3>2, <3>3 DEF RequestInv, Genuine
  <2>2. CASE RequestNext
    BY <2>2, ClientsKeep, DeliverKeeps, AuthenticateKeeps, IdentifyKeeps, AuthorizeKeeps,
       RequireBucketKeeps, DispatchKeeps, AnswersKeep DEF RequestNext
  <2> QED BY <2>1, <2>2
<1> QED BY <1>1, <1>2, PTL DEF RequestSpec

(***************************************************************************)
(* serve hands a handler only what was justified while the request was in  *)
(* service: for any requests, policies, keys and clock, however the        *)
(* console's edits, the readers that fill requireBucket's cache and the    *)
(* altered, repeated and delayed messages fall between its steps. The one  *)
(* exception is an entry that was cached after a change had been answered, *)
(* and then the record in it is one that the bucket has had.               *)
(***************************************************************************)
THEOREM WarrantSafety == RequestSpec => []ServedWasWarranted
<1>1. RequestInv => ServedWasWarranted
  BY DEF RequestInv, InService, ServedWasWarranted
<1> QED BY <1>1, RequestInvariant, PTL

-----------------------------------------------------------------------------
(* The body of a request. *)

\* Signatures on the wire cover a beginning of what the client closed, in a
\* body that is signed chunk by chunk.
Data == Chunks \cup {"end", "malformed"}
Symbols == Data \cup {"seed"}
Closed == Append(sent, "end")
Covered == {Seed \o SubSeq(Closed, 1, i) : i \in 1..Len(Closed)}
BodyFrames == [data : Data, sig : IF verifySignatures THEN Covered ELSE {None}]

\* What the wire holds, whatever happened to it on the way.
WireInv ==
    /\ wire = [frames |-> wire.frames, trailer |-> wire.trailer]
    /\ wire.frames \in Seq(BodyFrames)
    /\ DOMAIN wire.trailer = {"value", "sig", "intact"}
    /\ shape.claim = "trailer" /\ wire.trailer.intact => wire.trailer.value = sent

\* What was read of it: the signature chain has followed the file, and the
\* closing chunk was accepted only at the end of what was sent.
SunkInv ==
    /\ stage = "whole" => ~chunked(shape)
    /\ stage \in {"chunks", "trailers"} => chunked(shape)
    /\ stage \in {"path", "chunks"} =>
          sunk \in Seq(Data) /\ (verifySignatures => prev = Seed \o sunk)
    /\ stage \in {"trailers", "checks", "published"} /\ verifySignatures => sunk = sent
    /\ stage \in {"checks", "published"} /\ shape.payload = "signed" /\ ~chunked(shape) => sunk = sent

\* The inductive invariant of a body.
BodyInv ==
    /\ sent \in Seq(Chunks)
    /\ WireInv
    /\ SunkInv
    /\ PublishedAsSent

\* A function over 1..n is a sequence.
LEMMA ListIsSeq ==
    ASSUME NEW S, NEW n \in Nat, NEW f \in [1..n -> S]
    PROVE  f \in Seq(S) /\ Len(f) = n
OBVIOUS

\* A piece of a sequence, as RemoveAt and InsertAt cut it.
LEMMA AnyPiece ==
    ASSUME NEW S, NEW s \in Seq(S), NEW i \in 1..Len(s)
    PROVE  /\ SubSeq(s, 1, i - 1) \in Seq(S)
           /\ SubSeq(s, i, Len(s)) \in Seq(S)
           /\ SubSeq(s, i + 1, Len(s)) \in Seq(S)
<1>1. PICK n, a : n = Len(s) /\ a = i - 1
  OBVIOUS
<1>2. n \in Nat /\ a \in Nat /\ i \in Nat /\ a <= n /\ i <= n /\ n <= Len(s) /\ a + 1 = i
  BY <1>1, LenProperties
<1>3. SubSeq(s, 1, a) \in Seq(S)
  BY <1>1, <1>2, Beginning
<1>4. SubSeq(s, a + 1, n) \in Seq(S)
  BY <1>1, <1>2, Cuts
<1>5. SubSeq(s, i + 1, n) \in Seq(S)
  BY <1>1, <1>2, Cuts
<1> QED BY <1>1, <1>2, <1>3, <1>4, <1>5

\* A sequence stays one over the same elements when one is lost or repeated.
LEMMA RemovedInserted ==
    ASSUME NEW S, NEW s \in Seq(S), NEW i \in 1..Len(s)
    PROVE  RemoveAt(s, i) \in Seq(S) /\ InsertAt(s, i, s[i]) \in Seq(S)
<1>1. s[i] \in S
  BY ElementOfSeq
<1>2. PICK x, y, z : x = SubSeq(s, 1, i - 1) /\ y = SubSeq(s, i, Len(s)) /\ z = SubSeq(s, i + 1, Len(s))
  OBVIOUS
<1>3. x \in Seq(S) /\ y \in Seq(S) /\ z \in Seq(S)
  BY <1>2, AnyPiece
<1>4. PICK e : e = <<s[i]>>
  OBVIOUS
<1>5. e \in Seq(S)
  BY <1>1, <1>4
<1>6. x \o z \in Seq(S) /\ x \o e \in Seq(S)
  BY <1>3, <1>5, Joins
<1>7. (x \o e) \o y \in Seq(S)
  BY <1>3, <1>6, Joins
<1> QED BY <1>2, <1>4, <1>6, <1>7 DEF RemoveAt, InsertAt

\* Two things the chain may say of one frame: that it follows what was read,
\* and that the client signed it. Then it closes the body exactly when
\* everything sent has been read.
LEMMA ChainCloses ==
    ASSUME sent \in Seq(Chunks), NEW read \in Seq(Data), NEW sig \in Covered,
           sig = Append(Seed \o read, "end")
    PROVE  read = sent
<1>1. PICK i \in 1..Len(Closed) : sig = Seed \o SubSeq(Closed, 1, i)
  BY DEF Covered
<1>2. "end" \in Data /\ Chunks \subseteq Data /\ Data \subseteq Symbols /\ "seed" \in Symbols
  BY DEF Data, Symbols
<1>3. sent \in Seq(Data)
  BY <1>2, SeqMonotonic
<1>4. PICK c, n, m : c = Closed /\ n = Len(sent) /\ m = Len(read)
  OBVIOUS
<1>5. n \in Nat /\ m \in Nat
  BY <1>3, <1>4, LenProperties
<1>6. c \in Seq(Data) /\ Len(c) = n + 1 /\ (\A k \in 1..n : c[k] = sent[k]) /\ c[n + 1] = "end"
  BY <1>2, <1>3, <1>4, AppendProperties DEF Closed
<1>7. PICK b : b = SubSeq(c, 1, i)
  OBVIOUS
<1>8. b \in Seq(Data) /\ Len(b) = i /\ \A k \in 1..i : b[k] = c[k]
  <2>1. i \in Nat /\ i <= Len(c)
    BY <1>1, <1>4, <1>5, <1>6
  <2> QED BY <1>6, <1>7, <2>1, Beginning
<1>9. PICK h : h = Seed
  OBVIOUS
<1>10. h \in Seq(Symbols) /\ Len(h) = 1
  BY <1>2, <1>9 DEF Seed
<1>11. b \in Seq(Symbols) /\ read \in Seq(Symbols) /\ "end" \in Symbols
  BY <1>2, <1>8, SeqMonotonic
<1>12. /\ Len(h \o b) = 1 + i /\ \A k \in 1..i : (h \o b)[1 + k] = b[k]
  <2>0. h \in Seq(Symbols) /\ b \in Seq(Symbols)
    BY <1>10, <1>11
  <2>1. /\ Len(h \o b) = Len(h) + Len(b) /\ \A k \in 1..Len(b) : (h \o b)[Len(h) + k] = b[k]
    BY ONLY <2>0, Joins
  <2> QED BY <1>8, <1>10, <2>1
<1>13. /\ h \o read \in Seq(Symbols) /\ Len(h \o read) = 1 + m
       /\ \A k \in 1..m : (h \o read)[1 + k] = read[k]
  <2>0. h \in Seq(Symbols) /\ read \in Seq(Symbols)
    BY <1>10, <1>11
  <2>1. /\ h \o read \in Seq(Symbols) /\ Len(h \o read) = Len(h) + Len(read)
        /\ \A k \in 1..Len(read) : (h \o read)[Len(h) + k] = read[k]
    BY ONLY <2>0, Joins
  <2> QED BY <1>4, <1>10, <2>1
<1>14. PICK r, q : r = h \o read /\ q = Append(r, "end")
  OBVIOUS
<1>15. /\ Len(q) = Len(r) + 1 /\ (\A k \in 1..Len(r) : q[k] = r[k]) /\ q[Len(r) + 1] = "end"
  <2>1. r \in Seq(Symbols)
    BY <1>13, <1>14
  <2> QED BY <1>11, <1>14, <2>1, AppendProperties
<1>16. Len(q) = m + 2 /\ q[m + 2] = "end" /\ \A k \in 1..m : q[1 + k] = read[k]
  <2>1. Len(r) = 1 + m
    BY <1>13, <1>14
  <2>2. Len(q) = m + 2 /\ q[m + 2] = "end"
    BY <1>5, <1>15, <2>1
  <2>3. ASSUME NEW k \in 1..m
        PROVE  q[1 + k] = read[k]
    <3>1. 1 + k \in 1..Len(r)
      BY <1>5, <2>1
    <3>2. q[1 + k] = r[1 + k]
      BY <1>15, <3>1
    <3> QED BY <1>13, <1>14, <3>2
  <2> QED BY <2>2, <2>3
<1>17. q = h \o b
  BY <1>1, <1>4, <1>7, <1>9, <1>14
<1>18. i = m + 1 /\ i \in Nat
  BY <1>1, <1>5, <1>12, <1>16, <1>17
<1>19. c[m + 1] = "end" /\ \A k \in 1..m : c[k] = read[k]
  <2>1. ASSUME NEW k \in 1..i
        PROVE  q[1 + k] = c[k]
    BY <1>8, <1>12, <1>17
  <2>2. m + 1 \in 1..i /\ 1 + (m + 1) = m + 2
    BY <1>5, <1>18
  <2>3. c[m + 1] = "end"
    BY <1>16, <2>1, <2>2
  <2>4. ASSUME NEW k \in 1..m
        PROVE  c[k] = read[k]
    <3>1. k \in 1..i
      BY <1>5, <1>18
    <3> QED BY <1>16, <2>1, <3>1
  <2> QED BY <2>3, <2>4
<1>20. m = n
  <2>1. m + 1 <= n + 1
    BY <1>1, <1>4, <1>5, <1>6, <1>18
  <2>2. ASSUME m + 1 <= n
        PROVE  FALSE
    <3>1. m + 1 \in 1..n
      BY <1>5, <2>2
    <3>2. sent[m + 1] = "end" /\ sent[m + 1] \in Chunks
      BY <1>4, <1>6, <1>19, <3>1, ElementOfSeq
    <3> QED BY <3>2, ChunkedConstants
  <2> QED BY <1>5, <2>1, <2>2
<1>21. \A k \in 1..m : read[k] = sent[k]
  BY <1>6, <1>19, <1>20
<1> QED BY <1>3, <1>4, <1>20, <1>21, SeqEqual

\* The chain and the file grow together.
LEMMA AppendAfterSeed ==
    ASSUME NEW read \in Seq(Data), NEW d \in Data
    PROVE  Append(Seed \o read, d) = Seed \o Append(read, d)
<1>1. Data \subseteq Symbols /\ "seed" \in Symbols
  BY DEF Symbols
<1>2. PICK h, a, b, x, y, m : /\ h = Seed /\ a = h \o read /\ b = Append(read, d)
                              /\ x = Append(a, d) /\ y = h \o b /\ m = Len(read)
  OBVIOUS
<1>3. h \in Seq(Symbols) /\ Len(h) = 1 /\ read \in Seq(Symbols) /\ d \in Symbols
  BY <1>1, <1>2, SeqMonotonic DEF Seed
<1>4. m \in Nat
  BY <1>2, <1>3, LenProperties
<1>5. /\ a \in Seq(Symbols) /\ Len(a) = 1 + m /\ a[1] = h[1]
      /\ \A k \in 1..m : a[1 + k] = read[k]
  <2>1. h \in Seq(Symbols) /\ read \in Seq(Symbols)
    BY <1>3
  <2>2. /\ h \o read \in Seq(Symbols) /\ Len(h \o read) = Len(h) + Len(read)
        /\ \A i \in 1..Len(h) : (h \o read)[i] = h[i]
        /\ \A i \in 1..Len(read) : (h \o read)[Len(h) + i] = read[i]
    BY ONLY <2>1, Joins
  <2> QED BY <1>2, <1>3, <2>2
<1>6. b \in Seq(Symbols) /\ Len(b) = m + 1 /\ (\A k \in 1..m : b[k] = read[k]) /\ b[m + 1] = d
  BY <1>2, <1>3, AppendProperties
<1>7. /\ x \in Seq(Symbols) /\ Len(x) = Len(a) + 1
      /\ (\A k \in 1..Len(a) : x[k] = a[k]) /\ x[Len(a) + 1] = d
  BY <1>2, <1>3, <1>5, AppendProperties
<1>8. /\ y \in Seq(Symbols) /\ Len(y) = 1 + (m + 1) /\ y[1] = h[1]
      /\ \A k \in 1..(m + 1) : y[1 + k] = b[k]
  <2>1. h \in Seq(Symbols) /\ b \in Seq(Symbols)
    BY <1>3, <1>6
  <2>2. /\ h \o b \in Seq(Symbols) /\ Len(h \o b) = Len(h) + Len(b)
        /\ \A i \in 1..Len(h) : (h \o b)[i] = h[i]
        /\ \A i \in 1..Len(b) : (h \o b)[Len(h) + i] = b[i]
    BY ONLY <2>1, Joins
  <2> QED BY <1>2, <1>3, <1>6, <2>2
<1>9. ASSUME NEW i \in 1..(m + 2)
      PROVE  x[i] = y[i]
  <2>1. CASE i = 1
    BY <1>4, <1>5, <1>7, <1>8, <2>1
  <2>2. CASE i \in 2..(m + 1)
    <3>1. PICK k : k = i - 1
      OBVIOUS
    <3>2. k \in 1..m /\ k \in 1..(m + 1) /\ 1 + k = i /\ i \in 1..(1 + m)
      BY <1>4, <2>2, <3>1
    <3>3. x[i] = a[i] /\ a[1 + k] = read[k] /\ y[1 + k] = b[k] /\ b[k] = read[k]
      BY <1>5, <1>6, <1>7, <1>8, <3>2
    <3> QED BY <3>2, <3>3
  <2>3. CASE i = m + 2
    <3>1. Len(a) + 1 = m + 2 /\ 1 + (m + 1) = m + 2 /\ m + 1 \in 1..(m + 1)
      BY <1>4, <1>5
    <3>2. x[m + 2] = d
      BY <1>7, <3>1
    <3>3. y[m + 2] = b[m + 1]
      BY <1>8, <3>1
    <3> QED BY <1>6, <2>3, <3>2, <3>3
  <2>4. i = 1 \/ i \in 2..(m + 1) \/ i = m + 2
    BY <1>4
  <2> QED BY <2>1, <2>2, <2>3, <2>4
<1>10. Len(x) = m + 2 /\ Len(y) = m + 2
  BY <1>4, <1>5, <1>7, <1>8
<1>11. x = y
  BY <1>7, <1>8, <1>9, <1>10, SeqEqual
<1> QED BY <1>2, <1>11

\* The beginnings and ends of a body.
LEMMA InitBody ==
    ASSUME BodyInit
    PROVE  BodyInv
<1>1. PICK n \in 1..MaxSent : sent \in [1..n -> Chunks]
  BY DEF BodyInit
<1>2. n \in Nat
  BY <1>1, ChunkedConstants
<1>3. sent \in Seq(Chunks)
  BY <1>1, <1>2, ListIsSeq
<1>5. /\ wire = [frames |-> Frames(sent), trailer |-> Trailer(sent)]
      /\ prev = Seed /\ sunk = << >> /\ stage = "path"
  BY DEF BodyInit
<1>6. wire.frames = Frames(sent) /\ wire.trailer = Trailer(sent)
  BY <1>5
<1>7. Frames(sent) \in Seq(BodyFrames)
  <2>1. Chunks \subseteq Data /\ "end" \in Data
    BY DEF Data
  <2>2. sent \in Seq(Data)
    BY <1>3, <2>1, SeqMonotonic
  <2>3. PICK c, k : c = Closed /\ k = Len(c)
    OBVIOUS
  <2>4. c \in Seq(Data) /\ k \in Nat
    BY <2>1, <2>2, <2>3, AppendProperties, LenProperties DEF Closed
  <2>5. PICK f : f = Frames(sent)
    OBVIOUS
  <2>6. f = [i \in 1..k |-> [data |-> c[i],
                             sig |-> IF verifySignatures THEN Seed \o SubSeq(c, 1, i) ELSE None]]
    BY <2>3, <2>5 DEF Frames, Closed
  <2>7. ASSUME NEW i \in 1..k
        PROVE  f[i] \in BodyFrames
    <3>1. c[i] \in Data
      BY <2>3, <2>4, ElementOfSeq
    <3>2. Seed \o SubSeq(c, 1, i) \in Covered
      BY <2>3 DEF Covered
    <3> QED BY <2>6, <3>1, <3>2 DEF BodyFrames
  <2>8. f \in [1..k -> BodyFrames]
    BY <2>6, <2>7
  <2> QED BY <2>4, <2>5, <2>8, ListIsSeq
<1>8. WireInv
  <2>1. /\ DOMAIN Trailer(sent) = {"value", "sig", "intact"}
        /\ shape.claim = "trailer" => Trailer(sent).value = sent
    BY DEF Trailer
  <2> QED BY <1>5, <1>6, <1>7, <2>1 DEF WireInv
<1>9. SunkInv
  <2>1. << >> \in Seq(Data)
    BY EmptySeq
  <2>2. Seed \o << >> = Seed
    <3>1. Seed \in Seq({"seed"})
      BY DEF Seed
    <3> QED BY <3>1, ConcatEmptySeq
  <2> QED BY <1>5, <2>1, <2>2 DEF SunkInv
<1>10. PublishedAsSent
  BY <1>5 DEF PublishedAsSent
<1> QED BY <1>3, <1>8, <1>9, <1>10 DEF BodyInv

\* A fault leaves frames the client signed, if not where it put them, and a
\* trailer that came through or is known not to have.
LEMMA FaultKeeps ==
    ASSUME BodyInv, NEW frames \in Seq(BodyFrames), NEW trailer, Fault(frames, trailer),
           DOMAIN trailer = {"value", "sig", "intact"},
           trailer = wire.trailer \/ trailer.intact = FALSE
    PROVE  BodyInv'
<1>1. /\ wire' = [frames |-> frames, trailer |-> trailer] /\ stage = "path"
      /\ sent' = sent /\ shape' = shape /\ prev' = prev /\ sunk' = sunk /\ stage' = stage
  BY DEF Fault
<1>2. wire'.frames = frames /\ wire'.trailer = trailer
  BY <1>1
<1>3. BodyFrames' = BodyFrames
  BY <1>1 DEF BodyFrames, Covered, Closed, verifySignatures
<1>4. shape.claim = "trailer" /\ trailer.intact => trailer.value = sent
  BY DEF BodyInv, WireInv
<1>5. WireInv'
  BY <1>1, <1>2, <1>3, <1>4 DEF WireInv
<1>6. SunkInv'
  BY <1>1 DEF BodyInv, SunkInv, verifySignatures
<1>7. PublishedAsSent'
  BY <1>1 DEF PublishedAsSent
<1> QED BY <1>1, <1>5, <1>6, <1>7 DEF BodyInv

\* Each of the things that may happen on the path is such a fault.
LEMMA PathKeeps ==
    ASSUME BodyInv,
           LoseFrame \/ RepeatFrame \/ SwapFrames \/ GarbleFrame \/ GarbleTrailer \/ LoseTrailer
    PROVE  BodyInv'
<1>1. PICK fs, t : fs = wire.frames /\ t = wire.trailer
  OBVIOUS
<1>2. fs \in Seq(BodyFrames) /\ DOMAIN t = {"value", "sig", "intact"}
  BY <1>1 DEF BodyInv, WireInv
<1>3. Len(fs) \in Nat
  BY <1>2, LenProperties
<1>4. CASE LoseFrame
  <2>1. PICK i \in 1..Len(fs) : Fault(RemoveAt(fs, i), t)
    BY <1>1, <1>4 DEF LoseFrame
  <2>2. RemoveAt(fs, i) \in Seq(BodyFrames)
    BY <1>2, RemovedInserted
  <2> QED BY <1>1, <1>2, <2>1, <2>2, FaultKeeps
<1>5. CASE RepeatFrame
  <2>1. PICK i \in 1..Len(fs) : Fault(InsertAt(fs, i, fs[i]), t)
    BY <1>1, <1>5 DEF RepeatFrame
  <2>2. InsertAt(fs, i, fs[i]) \in Seq(BodyFrames)
    BY <1>2, RemovedInserted
  <2> QED BY <1>1, <1>2, <2>1, <2>2, FaultKeeps
<1>6. CASE SwapFrames
  <2>1. PICK i \in 1..(Len(fs) - 1) :
           Fault([fs EXCEPT ![i] = fs[i + 1], ![i + 1] = fs[i]], t)
    BY <1>1, <1>6 DEF SwapFrames
  <2>2. i \in 1..Len(fs) /\ i + 1 \in 1..Len(fs)
    BY <1>3
  <2>3. PICK g : g = [fs EXCEPT ![i] = fs[i + 1]]
    OBVIOUS
  <2>4. fs[i] \in BodyFrames /\ fs[i + 1] \in BodyFrames
    BY <1>2, <2>2, ElementOfSeq
  <2>5. g \in Seq(BodyFrames) /\ Len(g) = Len(fs)
    BY <1>2, <2>2, <2>3, <2>4, ExceptSeq
  <2>6. [g EXCEPT ![i + 1] = fs[i]] \in Seq(BodyFrames)
    BY <2>2, <2>4, <2>5, ExceptSeq
  <2>7. Fault([g EXCEPT ![i + 1] = fs[i]], t)
    BY <2>1, <2>3
  <2> QED BY <1>1, <1>2, <2>6, <2>7, FaultKeeps
<1>7. CASE GarbleFrame
  <2>1. PICK i \in 1..Len(fs), d \in Chunks \cup {"malformed", "end"} :
           Fault([fs EXCEPT ![i].data = d], t)
    BY <1>1, <1>7 DEF GarbleFrame
  <2>2. fs[i] \in BodyFrames
    BY <1>2, ElementOfSeq
  <2>3. PICK e : e = [fs[i] EXCEPT !.data = d]
    OBVIOUS
  <2>4. e \in BodyFrames
    BY <2>2, <2>3 DEF BodyFrames, Data
  <2>5. [fs EXCEPT ![i] = e] \in Seq(BodyFrames)
    BY <1>2, <2>4, ExceptSeq
  <2>6. Fault([fs EXCEPT ![i] = e], t)
    BY <2>1, <2>3
  <2> QED BY <1>1, <1>2, <2>5, <2>6, FaultKeeps
<1>8. CASE GarbleTrailer
  <2>1. PICK v : Fault(fs, [t EXCEPT !.value = v, !.intact = FALSE])
    BY <1>1, <1>8 DEF GarbleTrailer
  <2>2. PICK u : u = [t EXCEPT !.value = v, !.intact = FALSE]
    OBVIOUS
  <2>3. DOMAIN u = {"value", "sig", "intact"} /\ u.intact = FALSE
    BY <1>2, <2>2
  <2> QED BY <1>1, <1>2, <2>1, <2>2, <2>3, FaultKeeps
<1>9. CASE LoseTrailer
  <2>1. PICK u : u = [value |-> None, sig |-> None, intact |-> FALSE]
    OBVIOUS
  <2>2. DOMAIN u = {"value", "sig", "intact"} /\ u.intact = FALSE /\ Fault(fs, u)
    BY <1>1, <1>9, <2>1 DEF LoseTrailer
  <2> QED BY <1>1, <1>2, <2>2, FaultKeeps
<1> QED BY <1>4, <1>5, <1>6, <1>7, <1>8, <1>9

\* A refusal publishes nothing.
LEMMA RefuseKeeps ==
    ASSUME BodyInv, Refuse
    PROVE  BodyInv'
<1>1. /\ stage' = "refused" /\ sent' = sent /\ shape' = shape /\ wire' = wire
      /\ prev' = prev /\ sunk' = sunk
  BY DEF Refuse
<1>2. WireInv'
  BY <1>1 DEF BodyInv, WireInv, BodyFrames, Covered, Closed, verifySignatures
<1> QED BY <1>1, <1>2 DEF BodyInv, SunkInv, PublishedAsSent

\* One chunk: the file and the signature chain grow by the same element, and
\* the closing chunk comes when the file is what was sent.
LEMMA TakeChunkKeeps ==
    ASSUME BodyInv, TakeChunk
    PROVE  BodyInv'
<1>1. PICK fs, frame : fs = wire.frames /\ frame = Head(fs)
  OBVIOUS
<1>2. fs \in Seq(BodyFrames) /\ fs # << >> /\ stage = "chunks"
  BY <1>1 DEF BodyInv, WireInv, TakeChunk
<1>3. frame \in BodyFrames /\ Tail(fs) \in Seq(BodyFrames)
  BY <1>1, <1>2, HeadTailProperties
<1>4. CASE Refuse
  BY <1>4, RefuseKeeps
<1>5. CASE ~Refuse
  <2>1. /\ frame.data # "malformed" /\ SignatureHolds(frame)
        /\ wire' = [wire EXCEPT !.frames = Tail(fs)]
        /\ prev' = IF verifySignatures THEN Append(prev, frame.data) ELSE prev
        /\ sunk' = IF frame.data = "end" THEN sunk ELSE Append(sunk, frame.data)
        /\ stage' = IF frame.data = "end" THEN "trailers" ELSE "chunks"
        /\ sent' = sent /\ shape' = shape
    BY <1>1, <1>5 DEF TakeChunk
  <2>2. wire = [frames |-> wire.frames, trailer |-> wire.trailer]
    BY DEF BodyInv, WireInv
  <2>3. wire' = [frames |-> Tail(fs), trailer |-> wire.trailer]
    BY <2>1, <2>2
  <2>4. wire'.frames = Tail(fs) /\ wire'.trailer = wire.trailer
    BY <2>3
  <2>5. BodyFrames' = BodyFrames
    BY <2>1 DEF BodyFrames, Covered, Closed, verifySignatures
  <2>6. WireInv'
    BY <1>3, <2>1, <2>3, <2>4, <2>5 DEF BodyInv, WireInv
  <2>7. sunk \in Seq(Data) /\ (verifySignatures => prev = Seed \o sunk) /\ chunked(shape)
    BY <1>2 DEF BodyInv, SunkInv
  <2>8. frame.data \in Data /\ (verifySignatures => frame.sig \in Covered)
    BY <1>3 DEF BodyFrames
  <2>9. verifySignatures' = verifySignatures
    BY <2>1 DEF verifySignatures
  <2>10. CASE frame.data = "end"
    <3>1. ASSUME verifySignatures
          PROVE  sunk = sent
      <4>1. PICK sig : sig = frame.sig
        OBVIOUS
      <4>2. sig \in Covered /\ sig = Append(Seed \o sunk, "end")
        BY <2>1, <2>7, <2>8, <2>10, <3>1, <4>1 DEF SignatureHolds
      <4> QED BY <2>7, <4>2, ChainCloses DEF BodyInv
    <3>2. stage' = "trailers" /\ sunk' = sunk
      BY <2>1, <2>10
    <3> QED BY <2>1, <2>6, <2>7, <2>9, <3>1, <3>2 DEF BodyInv, SunkInv, PublishedAsSent
  <2>11. CASE frame.data # "end"
    <3>1. stage' = "chunks" /\ sunk' = Append(sunk, frame.data)
      BY <2>1, <2>11
    <3>2. sunk' \in Seq(Data)
      BY <2>7, <2>8, <3>1, AppendProperties
    <3>3. ASSUME verifySignatures
          PROVE  prev' = Seed \o sunk'
      <4>1. prev' = Append(Seed \o sunk, frame.data)
        BY <2>1, <2>7, <3>3
      <4>2. Append(Seed \o sunk, frame.data) = Seed \o Append(sunk, frame.data)
        BY <2>7, <2>8, AppendAfterSeed
      <4> QED BY <3>1, <4>1, <4>2
    <3> QED BY <2>1, <2>6, <2>7, <2>9, <3>1, <3>2, <3>3 DEF BodyInv, SunkInv, PublishedAsSent
  <2> QED BY <2>10, <2>11
<1> QED BY <1>4, <1>5

\* The steps that read no chunk and write nothing.
LEMMA QuietKeeps ==
    ASSUME BodyInv, wire' = wire, sent' = sent, shape' = shape, SunkInv', PublishedAsSent'
    PROVE  BodyInv'
BY DEF BodyInv, WireInv, BodyFrames, Covered, Closed, verifySignatures

\* A body of one piece is written only when its digest, if it was signed, is
\* the digest of what was sent.
LEMMA StreamWholeKeeps ==
    ASSUME BodyInv, StreamWhole
    PROVE  BodyInv'
<1>1. stage = "whole" /\ ~chunked(shape)
  BY DEF StreamWhole, BodyInv, SunkInv
<1>2. CASE Refuse
  BY <1>2, RefuseKeeps
<1>3. CASE ~Refuse
  <2>1. /\ shape.payload = "signed" => Raw = sent
        /\ sunk' = Raw /\ stage' = "checks" /\ sent' = sent /\ shape' = shape /\ wire' = wire
    BY <1>3 DEF StreamWhole
  <2>2. ~verifySignatures
    BY <1>1 DEF chunked, Streaming, verifySignatures
  <2>3. SunkInv' /\ PublishedAsSent'
    BY <2>1, <2>2 DEF SunkInv, PublishedAsSent, verifySignatures
  <2> QED BY <2>1, <2>3, QuietKeeps
<1> QED BY <1>2, <1>3

\* The checksum is the last word on what the chain did not cover.
LEMMA FinishWriteKeeps ==
    ASSUME BodyInv, FinishWrite
    PROVE  BodyInv'
<1>1. CASE Refuse
  BY <1>1, RefuseKeeps
<1>2. CASE ~Refuse
  <2>1. /\ stage = "checks" /\ ChecksumHolds /\ stage' = "published" /\ sent' = sent
        /\ shape' = shape /\ wire' = wire /\ sunk' = sunk
    BY <1>2 DEF FinishWrite
  <2>2. verifySignatures \/ (shape.payload = "signed" /\ ~chunked(shape)) => sunk = sent
    BY <2>1 DEF BodyInv, SunkInv
  <2>3. shape.claim = "header" => sunk = sent
    BY <2>1 DEF ChecksumHolds
  <2>4. shape.claim = "trailer" /\ wire.trailer.intact => sunk = sent
    BY <2>1 DEF ChecksumHolds, BodyInv, WireInv
  <2>5. Protected => sunk = sent
    BY <2>2, <2>3, <2>4 DEF Protected, verifySignatures
  <2>6. Protected' => sunk' = sent'
    BY <2>1, <2>5 DEF Protected
  <2>7. SunkInv'
    BY <2>1, <2>2 DEF SunkInv, verifySignatures
  <2>8. PublishedAsSent'
    BY <2>6 DEF PublishedAsSent
  <2> QED BY <2>1, <2>7, <2>8, QuietKeeps
<1> QED BY <1>1, <1>2

\* Every step keeps the invariant.
LEMMA BodyNextKeeps ==
    BodyInv /\ [BodyNext]_bodyVars => BodyInv'
<1> SUFFICES ASSUME BodyInv, [BodyNext]_bodyVars
             PROVE  BodyInv'
  OBVIOUS
<1>1. CASE LoseFrame \/ RepeatFrame \/ SwapFrames \/ GarbleFrame \/ GarbleTrailer \/ LoseTrailer
  BY <1>1, PathKeeps
<1>2. CASE Arrive
  <2>1. /\ stage = "path" /\ stage' = IF chunked(shape) THEN "chunks" ELSE "whole"
        /\ sent' = sent /\ shape' = shape /\ wire' = wire /\ prev' = prev /\ sunk' = sunk
    BY <1>2 DEF Arrive
  <2>2. SunkInv' /\ PublishedAsSent'
    BY <2>1 DEF BodyInv, SunkInv, PublishedAsSent, verifySignatures
  <2> QED BY <2>1, <2>2, QuietKeeps
<1>3. CASE StreamWhole
  BY <1>3, StreamWholeKeeps
<1>4. CASE TakeChunk
  BY <1>4, TakeChunkKeeps
<1>5. CASE RunOut
  BY <1>5, RefuseKeeps DEF RunOut
<1>6. CASE TakeTrailers
  <2>1. CASE Refuse
    BY <2>1, RefuseKeeps
  <2>2. CASE ~Refuse
    <3>1. /\ stage = "trailers" /\ stage' = "checks"
          /\ sent' = sent /\ shape' = shape /\ wire' = wire /\ prev' = prev /\ sunk' = sunk
      BY <1>6, <2>2 DEF TakeTrailers
    <3>2. SunkInv' /\ PublishedAsSent'
      BY <3>1 DEF BodyInv, SunkInv, PublishedAsSent, verifySignatures
    <3> QED BY <3>1, <3>2, QuietKeeps
  <2> QED BY <2>1, <2>2
<1>7. CASE FinishWrite
  BY <1>7, FinishWriteKeeps
<1>8. CASE UNCHANGED bodyVars
  <2>1. /\ stage' = stage /\ sent' = sent /\ shape' = shape /\ wire' = wire
        /\ prev' = prev /\ sunk' = sunk
    BY <1>8 DEF bodyVars
  <2>2. SunkInv' /\ PublishedAsSent'
    BY <2>1 DEF BodyInv, SunkInv, PublishedAsSent, Protected, verifySignatures
  <2> QED BY <2>1, <2>2, QuietKeeps
<1> QED BY <1>1, <1>2, <1>3, <1>4, <1>5, <1>6, <1>7, <1>8 DEF BodyNext

(***************************************************************************)
(* What is published is what was sent, for bodies of any length and any    *)
(* number of faults and every shape a client may send, where a signature,  *)
(* a checksum or the digest of an unframed body could have told.           *)
(***************************************************************************)
THEOREM BodySafety == BodySpec => []PublishedAsSent
<1>1. BodyInit => BodyInv
  BY InitBody
<1>2. BodyInv => PublishedAsSent
  BY DEF BodyInv
<1> QED BY <1>1, <1>2, BodyNextKeeps, PTL DEF BodySpec

-----------------------------------------------------------------------------
(* Cross-origin requests. *)

\* The stored patterns have at most one wildcard, and a page's exchange is about
\* an origin and a method a browser may name.
RulesValid ==
    \A i \in DOMAIN rules : \A p \in rules[i].allowedOrigins :
        p \in Seq(Nat) /\ Cardinality(Stars(p)) <= 1

\* A page's exchange after its preflight.
Exchanges ==
    [at : {"granted", "denied", "read", "hidden"}, origin : Origins, method : CorsMethods,
     headers : SUBSET HeaderNames]

\* The inductive invariant of the rules and the page.
CorsInv ==
    /\ RulesValid
    /\ browser.at # "idle" => browser \in Exchanges
    /\ PreflightHonoured

\* The one wildcard of a valid pattern.
LEMMA OneStar ==
    ASSUME NEW p \in Seq(Nat), Cardinality(Stars(p)) <= 1, NEW i \in Stars(p)
    PROVE  Stars(p) = {i} /\ i \in 1..Len(p)
<1>1. DOMAIN p = 1..Len(p) /\ Len(p) \in Nat
  BY LenProperties
<1>2. IsFiniteSet(Stars(p))
  <2>1. IsFiniteSet(1..Len(p))
    BY <1>1, FS_Interval
  <2> QED BY <1>1, <2>1, FS_Subset DEF Stars
<1>3. ASSUME NEW j \in Stars(p), j # i
      PROVE  FALSE
  <2>1. PICK T : T = {i}
    OBVIOUS
  <2>2. IsFiniteSet(T) /\ Cardinality(T) = 1 /\ j \notin T
    BY <1>3, <2>1, FS_Singleton
  <2>3. IsFiniteSet(T \cup {j}) /\ Cardinality(T \cup {j}) = Cardinality(T) + 1
    BY <2>2, FS_AddElement
  <2>4. T \cup {j} \subseteq Stars(p)
    BY <2>1
  <2>5. Cardinality(T \cup {j}) <= Cardinality(Stars(p)) /\ Cardinality(Stars(p)) \in Nat
    BY <1>2, <2>4, FS_Subset, FS_CardinalityType
  <2> QED BY <2>2, <2>3, <2>5
<1> QED BY <1>1, <1>3 DEF Stars

\* corsPatternMatches decides whether something can be put for the wildcard.
LEMMA MatchesFits ==
    ASSUME NEW p \in Seq(Nat), Cardinality(Stars(p)) <= 1, NEW v \in Seq(Nat \ {Star})
    PROVE  corsPatternMatches(p, v) <=> Fits(p, v)
<1>1. /\ DOMAIN p = 1..Len(p) /\ Len(p) \in Nat /\ \A k \in 1..Len(p) : p[k] \in Nat
      /\ DOMAIN v = 1..Len(v) /\ Len(v) \in Nat /\ \A k \in 1..Len(v) : v[k] # Star
  BY LenProperties, ElementOfSeq
<1>2. CASE Stars(p) = {}
  BY <1>2 DEF corsPatternMatches, Fits
<1>3. CASE Stars(p) # {}
  <2>1. PICK i \in Stars(p) : TRUE
    BY <1>3
  <2>2. Stars(p) = {i} /\ i \in 1..Len(p) /\ p[i] = Star
    BY <2>1, OneStar DEF Stars
  <2>3. (CHOOSE k \in Stars(p) : \A j \in Stars(p) : k <= j) = i
    BY <2>2
  <2>4. p # v
    BY <1>1, <2>2
  <2>5. PICK a, rest, x, z : /\ a = i - 1 /\ rest = Len(p) - i
                             /\ x = SubSeq(p, 1, a) /\ z = SubSeq(p, i + 1, Len(p))
    OBVIOUS
  <2>6. a \in Nat /\ rest \in Nat /\ i = a + 1
    BY <1>1, <2>2, <2>5
  <2>7. v \in Seq(Nat)
    BY SeqMonotonic
  <2>8. x \in Seq(Nat) /\ Len(x) = a
    <3>1. \A k \in 1..a : p[k] \in Nat
      BY <1>1, <2>2, <2>6
    <3> QED BY <2>5, <2>6, <3>1, SubSeqProperties
  <2>9. z \in Seq(Nat) /\ Len(z) = rest
    <3>1. i + 1 \in Int /\ Len(p) \in Int /\ \A k \in (i + 1)..Len(p) : p[k] \in Nat
      BY <1>1, <2>2
    <3>2. z \in Seq(Nat) /\ Len(z) = IF i + 1 <= Len(p) THEN Len(p) - (i + 1) + 1 ELSE 0
      BY <2>5, <3>1, SubSeqProperties
    <3>3. (IF i + 1 <= Len(p) THEN Len(p) - (i + 1) + 1 ELSE 0) = Len(p) - i
      <4>1. PICK n : n = Len(p)
        OBVIOUS
      <4>2. n \in Nat /\ i \in 1..n
        BY <1>1, <2>2, <4>1
      <4>3. (IF i + 1 <= n THEN n - (i + 1) + 1 ELSE 0) = n - i
        BY <4>2
      <4> QED BY <4>1, <4>3
    <3> QED BY <2>5, <3>2, <3>3
  <2>10. corsPatternMatches(p, v) <=>
            /\ Len(v) >= a + rest /\ SubSeq(v, 1, a) = x
            /\ SubSeq(v, Len(v) - rest + 1, Len(v)) = z
    BY <1>3, <2>3, <2>5 DEF corsPatternMatches
  <2>11. Fits(p, v) <=>
            \E from \in 1..(Len(v) + 1), to \in 0..Len(v) :
               from <= to + 1 /\ x \o SubSeq(v, from, to) \o z = v
    BY <2>2, <2>4, <2>5 DEF Fits
  <2>12. ASSUME corsPatternMatches(p, v)
         PROVE  Fits(p, v)
    <3>1. /\ Len(v) >= a + rest /\ SubSeq(v, 1, a) = x
          /\ SubSeq(v, Len(v) - rest + 1, Len(v)) = z
      BY <2>10, <2>12
    <3>2. PICK c, w : c = Len(v) - rest /\ w = SubSeq(v, 1, c)
      OBVIOUS
    <3>3. c \in Nat /\ c <= Len(v) /\ a <= c
      BY <1>1, <2>6, <3>1, <3>2
    <3>4. w \o SubSeq(v, c + 1, Len(v)) = v
      BY <2>7, <3>2, <3>3, CutJoins
    <3>5. /\ w \in Seq(Nat) /\ Len(w) = c /\ SubSeq(w, 1, a) = x
          /\ SubSeq(w, a + 1, c) = SubSeq(v, a + 1, c)
      <4>1. w \in Seq(Nat) /\ Len(w) = c /\ \A k \in 1..c : w[k] = v[k]
        BY <2>7, <3>2, <3>3, Beginning
      <4>2. SubSeq(w, 1, a) = SubSeq(v, 1, a)
        <5>1. a <= Len(v) /\ a <= Len(w) /\ \A k \in 1..a : w[k] = v[k]
          BY <1>1, <2>6, <3>3, <4>1
        <5> QED BY <2>6, <2>7, <4>1, <5>1, SameBeginning
      <4>3. SubSeq(w, a + 1, c) = SubSeq(v, a + 1, c)
        BY <1>1, <2>6, <2>7, <3>3, <4>1, SamePiece
      <4> QED BY <3>1, <4>1, <4>2, <4>3
    <3>6. x \o SubSeq(v, a + 1, c) = w
      <4>1. SubSeq(w, 1, a) \o SubSeq(w, a + 1, Len(w)) = w
        BY <2>6, <3>3, <3>5, CutJoins
      <4> QED BY <3>5, <4>1
    <3>7. x \o SubSeq(v, a + 1, c) \o z = v
      BY <3>1, <3>2, <3>4, <3>6
    <3>8. a + 1 \in 1..(Len(v) + 1) /\ c \in 0..Len(v) /\ a + 1 <= c + 1
      BY <1>1, <2>6, <3>3
    <3> QED BY <2>11, <3>7, <3>8
  <2>13. ASSUME Fits(p, v)
         PROVE  corsPatternMatches(p, v)
    <3>1. PICK from \in 1..(Len(v) + 1), to \in 0..Len(v) :
             from <= to + 1 /\ x \o SubSeq(v, from, to) \o z = v
      BY <2>11, <2>13
    <3>2. PICK y, w : y = SubSeq(v, from, to) /\ w = x \o y
      OBVIOUS
    <3>3. y \in Seq(Nat)
      <4>1. PICK m : m = from - 1
        OBVIOUS
      <4>2. m \in Nat /\ to \in Nat /\ m <= to /\ to <= Len(v) /\ m + 1 = from
        BY <1>1, <3>1, <4>1
      <4>3. SubSeq(v, m + 1, to) \in Seq(Nat)
        BY <2>7, <4>2, Cuts
      <4> QED BY <3>2, <4>2, <4>3
    <3>4. PICK b : b = Len(y)
      OBVIOUS
    <3>5. b \in Nat
      BY <3>3, <3>4, LenProperties
    <3>6. w \in Seq(Nat) /\ Len(w) = a + b /\ SubSeq(w, 1, a) = x
      <4>1. x \in Seq(Nat) /\ y \in Seq(Nat)
        BY <2>8, <3>3
      <4>2. x \o y \in Seq(Nat) /\ Len(x \o y) = Len(x) + Len(y)
        BY ONLY <4>1, Joins
      <4>3. SubSeq(x \o y, 1, Len(x)) = x
        BY ONLY <4>1, JoinCuts
      <4> QED BY <2>8, <3>2, <3>4, <4>2, <4>3
    <3>7. PICK d : d = Len(w)
      OBVIOUS
    <3>8. d \in Nat /\ a <= d /\ v = w \o z
      <4>1. d = a + b
        BY <3>6, <3>7
      <4>2. d \in Nat /\ a <= d
        BY <2>6, <3>5, <4>1
      <4>3. v = w \o z
        BY <3>1, <3>2
      <4> QED BY <4>2, <4>3
    <3>9. /\ Len(v) = d + rest /\ \A k \in 1..d : v[k] = w[k]
          /\ SubSeq(v, d + 1, d + rest) = z
      <4>1. w \in Seq(Nat) /\ z \in Seq(Nat)
        BY <2>9, <3>6
      <4>2. /\ Len(w \o z) = Len(w) + Len(z)
            /\ \A k \in 1..Len(w) : (w \o z)[k] = w[k]
        BY ONLY <4>1, Joins
      <4>3. SubSeq(w \o z, Len(w) + 1, Len(w) + Len(z)) = z
        BY ONLY <4>1, JoinCuts
      <4> QED BY <2>9, <3>7, <3>8, <4>2, <4>3
    <3>10. SubSeq(v, 1, a) = SubSeq(w, 1, a)
      <4>1. a <= Len(v) /\ a <= Len(w) /\ \A k \in 1..a : v[k] = w[k]
        BY <2>6, <3>7, <3>8, <3>9
      <4> QED BY <2>6, <2>7, <3>6, <4>1, SameBeginning
    <3>11. Len(v) - rest + 1 = d + 1 /\ Len(v) >= a + rest
      BY <2>6, <3>8, <3>9
    <3> QED BY <2>10, <3>6, <3>9, <3>10, <3>11
  <2> QED BY <2>12, <2>13
<1> QED BY <1>2, <1>3

\* A preflight and the answer to the request ask for the same methods of the
\* same rules, so what matched is really permitted.
LEMMA MatchedIsPermitted ==
    ASSUME NEW origin \in Origins, NEW method \in CorsMethods, NEW requested, RulesValid
    PROVE  /\ matchCors(rules, origin, method, requested) => Permitted(origin, method)
           /\ Permitted(origin, method) => matchCors(rules, origin, method, {})
<1>1. toUpper(method) = method
  BY DEF CorsMethods, toUpper
<1>2. origin \in Seq(Nat \ {Star})
  BY CorsConstants
<1>3. ASSUME NEW i \in DOMAIN rules
      PROVE  matchesAny(rules[i].allowedOrigins, origin)
                <=> \E p \in rules[i].allowedOrigins : Fits(p, origin)
  <2>1. ASSUME NEW p \in rules[i].allowedOrigins
        PROVE  corsPatternMatches(p, origin) <=> Fits(p, origin)
    <3>1. p \in Seq(Nat) /\ Cardinality(Stars(p)) <= 1
      BY DEF RulesValid
    <3> QED BY ONLY <1>2, <3>1, MatchesFits
  <2> QED BY <2>1 DEF matchesAny
<1> QED BY <1>1, <1>3 DEF matchCors, Matching, Permitted

\* Normalising a rule leaves its origins alone.
LEMMA NormalisedOrigins ==
    ASSUME NEW r \in RawRules
    PROVE  Normalised(r).allowedOrigins = r.allowedOrigins
BY DEF RawRules, Normalised

\* Nothing is stored at first, and no page asks.
LEMMA InitCors ==
    CorsInit => CorsInv
BY DEF CorsInit, CorsInv, RulesValid, NoPage, PreflightHonoured

\* A document that is accepted leaves valid rules. The page's grant does not
\* outlive rules it was not answered from.
LEMMA ReplaceCors ==
    ASSUME CorsInv, NEW accepted, Replace(accepted),
           \A i \in DOMAIN accepted : \A p \in accepted[i].allowedOrigins :
               p \in Seq(Nat) /\ Cardinality(Stars(p)) <= 1
    PROVE  CorsInv'
<1>1. rules' = accepted /\ unchanged' = (unchanged /\ accepted = rules) /\ browser' = browser
  BY DEF Replace
<1>2. RulesValid'
  BY <1>1 DEF RulesValid
<1>3. PreflightHonoured'
  <2>1. ASSUME unchanged'
        PROVE  unchanged /\ rules' = rules
    BY <1>1, <2>1
  <2>2. ASSUME rules' = rules, unchanged
        PROVE  PreflightHonoured'
    BY <1>1, <2>2 DEF CorsInv, PreflightHonoured, Permitted
  <2> QED BY <2>1, <2>2 DEF PreflightHonoured
<1> QED BY <1>1, <1>2, <1>3 DEF CorsInv

\* PutCors stores only what validateCorsRules accepts.
LEMMA PutCorsKeeps ==
    ASSUME CorsInv, PutCors
    PROVE  CorsInv'
<1>1. PICK document \in UNION {[1..n -> CorsRules] : n \in 1..(MaxRules + 1)} :
         /\ validateCorsRules(document)
         /\ Replace([i \in DOMAIN document |-> Normalised(document[i])])
  BY DEF PutCors
<1>2. \A i \in DOMAIN document : document[i] \in CorsRules
  BY <1>1
<1>3. PICK accepted : accepted = [i \in DOMAIN document |-> Normalised(document[i])]
  OBVIOUS
<1>4. ASSUME NEW i \in DOMAIN accepted, NEW p \in accepted[i].allowedOrigins
      PROVE  p \in Seq(Nat) /\ Cardinality(Stars(p)) <= 1
  <2>1. PICK r : r = document[i]
    OBVIOUS
  <2>2. i \in DOMAIN document /\ r \in RawRules /\ accepted[i] = Normalised(r)
    BY <1>2, <1>3, <2>1, CorsConstants
  <2>3. p \in r.allowedOrigins
    BY <1>4, <2>2, NormalisedOrigins
  <2>4. p \in Seq(Nat)
    BY <2>2, <2>3 DEF RawRules
  <2>5. validatePattern(p)
    BY <1>1, <2>1, <2>2, <2>3 DEF validateCorsRules, ValidRule
  <2> QED BY <2>4, <2>5 DEF validatePattern
<1>5. Replace(accepted)
  BY <1>1, <1>3
<1> QED BY <1>4, <1>5, ReplaceCors

\* A preflight is granted only for what some rule permits.
LEMMA AskFirstKeeps ==
    ASSUME CorsInv, NEW origin \in Origins, NEW method \in CorsMethods,
           NEW headers \in SUBSET HeaderNames, AskFirst(origin, method, headers)
    PROVE  CorsInv'
<1>1. PICK requested : requested = {toLower(h) : h \in headers}
  OBVIOUS
<1>2. PICK granted : granted = matchCors(rules, origin, method, requested)
  OBVIOUS
<1>3. /\ browser' = [at |-> IF granted THEN "granted" ELSE "denied",
                     origin |-> origin, method |-> method, headers |-> headers]
      /\ rules' = rules
  BY <1>1, <1>2 DEF AskFirst
<1>4. RulesValid /\ RulesValid'
  BY <1>3 DEF CorsInv, RulesValid
<1>5. granted => Permitted(origin, method)
  BY <1>2, <1>4, MatchedIsPermitted
<1>6. /\ browser'.at = (IF granted THEN "granted" ELSE "denied")
      /\ browser'.origin = origin /\ browser'.method = method
  BY <1>3
<1>7. Permitted(origin, method)' <=> Permitted(origin, method)
  BY <1>3 DEF Permitted
<1>8. PreflightHonoured'
  <2>1. CASE granted
    <3>1. browser'.at = "granted" /\ Permitted(origin, method)'
      BY <1>5, <1>6, <1>7, <2>1
    <3> QED BY <1>6, <3>1 DEF PreflightHonoured, Permitted
  <2>2. CASE ~granted
    <3>1. browser'.at = "denied"
      BY <1>6, <2>2
    <3> QED BY <3>1 DEF PreflightHonoured
  <2> QED BY <2>1, <2>2
<1>9. browser' \in Exchanges
  BY <1>3 DEF Exchanges
<1> QED BY <1>4, <1>8, <1>9 DEF CorsInv

\* The answer to the request reaches the page: the rules still permit what
\* the preflight granted, unless the method was reported as another.
LEMMA SendForKeeps ==
    ASSUME CorsInv, NEW verified \in BOOLEAN, SendFor(verified)
    PROVE  CorsInv'
<1>1. PICK m, o : m = Reported(browser.method, verified) /\ o = browser.origin
  OBVIOUS
<1>2. PICK allowed : allowed = matchCors(rules, o, m, {})
  OBVIOUS
<1>3. /\ browser.at = "granted" /\ rules' = rules /\ unchanged' = unchanged
      /\ browser' = [browser EXCEPT !.at = IF allowed THEN "read" ELSE "hidden", !.method = m]
  BY <1>1, <1>2 DEF SendFor
<1>4. RulesValid /\ RulesValid'
  BY <1>3 DEF CorsInv, RulesValid
<1>5. browser \in Exchanges /\ o \in Origins /\ browser.method \in CorsMethods
  BY <1>1, <1>3 DEF CorsInv, Exchanges
<1>6. m \in CorsMethods
  BY <1>1, <1>5 DEF Reported, CorsMethods
<1>7. (allowed => Permitted(o, m)) /\ (Permitted(o, m) => allowed)
  BY <1>2, <1>4, <1>5, <1>6, MatchedIsPermitted
<1>8. /\ browser' \in Exchanges /\ browser'.origin = o /\ browser'.method = m
      /\ browser'.at = IF allowed THEN "read" ELSE "hidden"
  <2>1. /\ browser' \in Exchanges /\ browser'.origin = browser.origin /\ browser'.method = m
        /\ browser'.at = IF allowed THEN "read" ELSE "hidden"
    BY <1>3, <1>5, <1>6 DEF Exchanges
  <2> QED BY <1>1, <2>1
<1>9. ASSUME unchanged, ~allowed
      PROVE  m = "GET" /\ ~Permitted(o, "GET")
  <2>1. Permitted(o, browser.method)
    BY <1>1, <1>3, <1>9 DEF CorsInv, PreflightHonoured
  <2>2. ~Permitted(o, m)
    BY <1>7, <1>9
  <2>3. m # browser.method
    BY <2>1, <2>2
  <2>4. m = "GET"
    BY <1>1, <2>3 DEF Reported
  <2> QED BY <2>2, <2>4
<1>10. \A method : Permitted(o, method)' <=> Permitted(o, method)
  BY <1>3 DEF Permitted
<1>11. PreflightHonoured'
  <2>1. CASE allowed
    <3>1. browser'.at = "read" /\ Permitted(o, m)
      BY <1>7, <1>8, <2>1
    <3>2. Permitted(browser.origin, browser.method)'
      BY <1>3, <1>8, <3>1 DEF Permitted
    <3> QED BY <3>1, <3>2 DEF PreflightHonoured
  <2>2. CASE ~allowed
    <3>1. browser'.at = "hidden"
      BY <1>8, <2>2
    <3>2. ASSUME unchanged'
          PROVE  browser'.method = "GET" /\ ~Permitted(browser.origin, "GET")'
      BY <1>3, <1>8, <1>9, <2>2, <3>2 DEF Permitted
    <3> QED BY <3>1, <3>2 DEF PreflightHonoured
  <2> QED BY <2>1, <2>2
<1> QED BY <1>4, <1>8, <1>11 DEF CorsInv

\* Every step keeps the invariant.
LEMMA CorsNextKeeps ==
    CorsInv /\ [CorsNext]_corsVars => CorsInv'
<1> SUFFICES ASSUME CorsInv, [CorsNext]_corsVars
             PROVE  CorsInv'
  OBVIOUS
<1>1. CASE PutCors
  BY <1>1, PutCorsKeeps
<1>2. CASE DeleteCors
  <2>1. PICK accepted : accepted = << >>
    OBVIOUS
  <2>2. Replace(accepted) /\ DOMAIN accepted = {}
    BY <1>2, <2>1 DEF DeleteCors
  <2> QED BY <2>2, ReplaceCors
<1>3. CASE \E origin \in Origins, method \in CorsMethods, headers \in SUBSET HeaderNames :
              AskFirst(origin, method, headers)
  BY <1>3, AskFirstKeeps
<1>4. CASE \E verified \in BOOLEAN : SendFor(verified)
  BY <1>4, SendForKeeps
<1>5. CASE Leave
  <2>1. browser' = NoPage /\ unchanged' = FALSE /\ rules' = rules
    BY <1>5 DEF Leave
  <2> QED BY <2>1 DEF CorsInv, RulesValid, PreflightHonoured, NoPage
<1>6. CASE UNCHANGED corsVars
  <2>1. browser' = browser /\ unchanged' = unchanged /\ rules' = rules
    BY <1>6 DEF corsVars
  <2> QED BY <2>1 DEF CorsInv, RulesValid, PreflightHonoured, Permitted
<1> QED BY <1>1, <1>2, <1>3, <1>4, <1>5, <1>6 DEF CorsNext

(***************************************************************************)
(* A grant is kept and only a grant is given, for every set of rules,      *)
(* origins and headers: the prefix and suffix comparison of                *)
(* corsPatternMatches decides exactly whether something can be put for the *)
(* wildcard, and the second match, without the headers, finds a rule       *)
(* whenever the first did.                                                 *)
(***************************************************************************)
THEOREM CorsSafety == CorsSpec => []PreflightHonoured
<1>1. CorsInv => PreflightHonoured
  BY DEF CorsInv
<1> QED BY <1>1, InitCors, CorsNextKeeps, PTL DEF CorsSpec

-----------------------------------------------------------------------------
(* Reads of an object under overwrites. *)

Records == [etag : Nat, size : Nat, date : Nat]
Conditions == [ifMatch : Nat, ifUnmodified : Nat, ifNoneMatch : Nat, ifModified : Nat]
Ranges == [kind : {"none"}] \cup [kind : {"from"}, first : Nat]
          \cup [kind : {"between"}, first : Nat, last : Nat] \cup [kind : {"suffix"}, count : Nat]
Requests == [step : {"stat", "fill", "decide", "open", "answered"}, headers : Conditions,
             range : Ranges, record : Records, status : Nat, offset : Nat, length : Nat]

\* The records that are about: one tag has one record, and none is newer than the store's.
Known == {NoRecord, stored, entry, base} \cup (IF get.step = "idle" THEN {} ELSE {get.record})

\* Types, and one record for each ETag.
ReadTyped ==
    /\ Known \subseteq Records /\ seconds \in Nat
    /\ get = [step |-> "idle"] \/ get \in Requests
    /\ \A r \in Known : r.etag <= stored.etag
    /\ \A r, q \in Known : r.etag = q.etag => r = q

\* What the client has is the beginning of one version.
HaveInv == \E n \in 0..base.size : have = Bytes(base.etag, 0, n) /\ Len(have) = n

\* What the client asked for, while it waits: a beginning, the rest of the
\* version it has a part of, or a copy of the whole.
Asked ==
    get.step # "idle" =>
        \/ base = NoRecord /\ get.range \in {Whole, Between(0, 0), Between(0, 1), From(0)}
        \/ /\ base # NoRecord /\ Len(have) < base.size /\ get.headers.ifMatch = base.etag
           /\ get.range \in {From(Len(have)), Between(Len(have), base.size - 1),
                             Suffix(base.size - Len(have)), Between(Len(have), Len(have))}
        \/ base # NoRecord /\ get.range = Whole

\* What the handler decided to send is inside the record and continues what the
\* client has.
Decided ==
    get.step \in {"open", "answered"} /\ get.status \in {200, 206} =>
        /\ get.offset + get.length <= get.record.size
        /\ IF base = NoRecord \/ get.status = 200 THEN get.offset = 0
           ELSE get.record = base /\ get.offset = Len(have)

ReadInv == ReadTyped /\ HaveInv /\ Asked /\ Decided

\* A run of bytes is a sequence of its length.
LEMMA BytesAre ==
    ASSUME NEW v \in Nat, NEW o \in Nat, NEW n \in Nat
    PROVE  /\ Bytes(v, o, n) \in Seq(Nat \X Int) /\ Len(Bytes(v, o, n)) = n
           /\ \A i \in 1..n : Bytes(v, o, n)[i] = <<v, o + i - 1>>
<1>1. Bytes(v, o, n) \in [1..n -> Nat \X Int]
  BY DEF Bytes, Byte
<1>2. Bytes(v, o, n) \in Seq(Nat \X Int)
  BY <1>1, SeqDef
<1>3. Len(Bytes(v, o, n)) = n
  BY <1>1, <1>2, LenProperties
<1> QED BY <1>2, <1>3 DEF Bytes, Byte

\* Two runs of which one continues the other are one run.
LEMMA BytesContinue ==
    ASSUME NEW v \in Nat, NEW k \in Nat, NEW n \in Nat
    PROVE  Bytes(v, 0, k) \o Bytes(v, k, n) = Bytes(v, 0, k + n)
<1>1. PICK s, t, u : s = Bytes(v, 0, k) /\ t = Bytes(v, k, n) /\ u = Bytes(v, 0, k + n)
  OBVIOUS
<1>2. /\ s \in Seq(Nat \X Int) /\ Len(s) = k /\ \A i \in 1..k : s[i] = <<v, 0 + i - 1>>
      /\ t \in Seq(Nat \X Int) /\ Len(t) = n /\ \A i \in 1..n : t[i] = <<v, k + i - 1>>
  <2>1. PICK z \in Nat : z = 0
    OBVIOUS
  <2>2. /\ Bytes(v, z, k) \in Seq(Nat \X Int) /\ Len(Bytes(v, z, k)) = k
        /\ \A i \in 1..k : Bytes(v, z, k)[i] = <<v, z + i - 1>>
    BY ONLY v \in Nat, k \in Nat, z \in Nat, BytesAre
  <2>3. /\ Bytes(v, k, n) \in Seq(Nat \X Int) /\ Len(Bytes(v, k, n)) = n
        /\ \A i \in 1..n : Bytes(v, k, n)[i] = <<v, k + i - 1>>
    BY ONLY v \in Nat, k \in Nat, n \in Nat, BytesAre
  <2> QED BY <1>1, <2>1, <2>2, <2>3
<1>3. /\ u \in Seq(Nat \X Int) /\ Len(u) = k + n /\ \A i \in 1..(k + n) : u[i] = <<v, 0 + i - 1>>
  <2>1. PICK c \in Nat : c = k + n
    OBVIOUS
  <2>2. PICK z \in Nat : z = 0
    OBVIOUS
  <2>3. /\ Bytes(v, z, c) \in Seq(Nat \X Int) /\ Len(Bytes(v, z, c)) = c
        /\ \A i \in 1..c : Bytes(v, z, c)[i] = <<v, z + i - 1>>
    BY ONLY v \in Nat, c \in Nat, z \in Nat, BytesAre, ZenonT(30)
  <2> QED BY <1>1, <2>1, <2>2, <2>3
<1>4. /\ s \o t \in Seq(Nat \X Int) /\ Len(s \o t) = k + n
      /\ \A i \in 1..(k + n) : (s \o t)[i] = IF i <= k THEN s[i] ELSE t[i - k]
  <2>1. PICK S : S = Nat \X Int /\ s \in Seq(S) /\ t \in Seq(S)
    BY <1>2
  <2>2. s \in Seq(S) /\ t \in Seq(S)
    BY <2>1
  <2>3. /\ s \o t \in Seq(S) /\ Len(s \o t) = Len(s) + Len(t)
        /\ \A i \in 1..Len(s) + Len(t) :
              (s \o t)[i] = IF i <= Len(s) THEN s[i] ELSE t[i - Len(s)]
    BY ONLY <2>2, ConcatProperties
  <2> QED BY <1>2, <2>1, <2>3
<1>5. ASSUME NEW i \in 1..(k + n)
      PROVE  (s \o t)[i] = u[i]
  <2>1. CASE i <= k
    <3>1. i \in 1..k
      BY <2>1
    <3>2. s[i] = <<v, 0 + i - 1>> /\ u[i] = <<v, 0 + i - 1>>
      BY <1>2, <1>3, <3>1
    <3> QED BY <1>4, <2>1, <3>2
  <2>2. CASE ~(i <= k)
    <3>1. i - k \in 1..n /\ k + (i - k) - 1 = 0 + i - 1
      BY <2>2
    <3>2. t[i - k] = <<v, k + (i - k) - 1>>
      BY <1>2, <3>1
    <3> QED BY <1>4, <1>3, <2>2, <3>1, <3>2
  <2> QED BY <2>1, <2>2
<1>6. s \o t = u
  BY <1>2, <1>3, <1>4, <1>5, SeqEqual
<1> QED BY <1>1, <1>6

\* parseRange: what is asked of the beginning starts there and ends inside.
LEMMA RangeOfBeginning ==
    ASSUME NEW size \in Nat, NEW range \in {Whole, Between(0, 0), Between(0, 1), From(0)}
    PROVE  LET r == parseRange(range, size)
           IN  /\ r.offset \in Nat /\ r.length \in Nat
               /\ r.result # "unsatisfiable" => r.offset = 0 /\ r.length <= size
               /\ range = Whole => r.result = "whole"
<1>1. CASE range = Whole
  BY <1>1 DEF parseRange, Whole
<1>2. CASE range = From(0)
  BY <1>2 DEF parseRange, From, Whole
<1>3. CASE range = Between(0, 0)
  BY <1>3 DEF parseRange, Between, Whole
<1>4. CASE range = Between(0, 1)
  BY <1>4 DEF parseRange, Between, Whole
<1> QED BY <1>1, <1>2, <1>3, <1>4

\* parseRange: the rest of a version starts where the client is and ends inside.
LEMMA RangeOfRest ==
    ASSUME NEW size \in Nat, NEW k \in Nat, k < size,
           NEW range \in {From(k), Between(k, size - 1), Suffix(size - k), Between(k, k)}
    PROVE  LET r == parseRange(range, size)
           IN  /\ r.offset = k /\ r.length \in Nat /\ k + r.length <= size
               /\ r.result = "partial"
<1>1. CASE range = From(k)
  BY <1>1 DEF parseRange, From
<1>2. CASE range = Between(k, size - 1)
  BY <1>2 DEF parseRange, Between
<1>3. CASE range = Suffix(size - k)
  BY <1>3 DEF parseRange, Suffix
<1>4. CASE range = Between(k, k)
  BY <1>4 DEF parseRange, Between
<1> QED BY <1>1, <1>2, <1>3, <1>4

\* parseRange: lengths and offsets are numbers, whatever is asked.
LEMMA RangeTyped ==
    ASSUME NEW size \in Nat, NEW range \in Ranges
    PROVE  LET r == parseRange(range, size) IN r.offset \in Nat /\ r.length \in Nat
<1>1. CASE range \in [kind : {"none"}]
  BY <1>1 DEF parseRange
<1>2. CASE range \in [kind : {"from"}, first : Nat]
  BY <1>2 DEF parseRange
<1>3. CASE range \in [kind : {"between"}, first : Nat, last : Nat]
  BY <1>3 DEF parseRange
<1>4. CASE range \in [kind : {"suffix"}, count : Nat]
  BY <1>4 DEF parseRange
<1> QED BY <1>1, <1>2, <1>3, <1>4 DEF Ranges

\* If-Match: another version is refused.
LEMMA MatchRefuses ==
    ASSUME NEW h \in Conditions, NEW record \in Records, h.ifMatch # 0, h.ifMatch # record.etag
    PROVE  evaluatePreconditions(h, record) # 0
BY DEF evaluatePreconditions

\* A step after which the same records are about.
LEMMA KnownStep ==
    ASSUME ReadTyped, stored' = stored, Known' \subseteq Known, seconds' \in Nat,
           (get = [step |-> "idle"] \/ get \in Requests)'
    PROVE  ReadTyped'
BY DEF ReadTyped

\* The writer's steps and the clock leave the client's exchange alone.
LEMMA WriterKeeps ==
    ASSUME ReadInv, Overwrite \/ ReclaimOld \/ InvalidateObject \/ Second
    PROVE  ReadInv'
<1>1. UNCHANGED <<get, have, base>>
  BY DEF Overwrite, ReclaimOld, InvalidateObject, Second
<1>2. HaveInv' /\ Asked' /\ Decided'
  BY <1>1 DEF ReadInv, HaveInv, Asked, Decided
<1>3. ASSUME Overwrite
      PROVE  ReadTyped'
  <2>1. PICK n \in ObjectSizes : stored' = [etag |-> stored.etag + 1, size |-> n, date |-> seconds]
    BY <1>3 DEF Overwrite
  <2>2. PICK new : new = stored'
    OBVIOUS
  <2>3. stored \in Records /\ stored.etag \in Nat /\ seconds \in Nat
    BY DEF ReadInv, ReadTyped, Known, Records
  <2>4. new \in Records /\ new.etag = stored.etag + 1
    BY <2>1, <2>2, <2>3, ReadConstants DEF Records
  <2>5. Known' \subseteq Known \cup {new} /\ UNCHANGED <<entry, seconds>>
    BY <1>1, <1>3, <2>2 DEF Known, Overwrite
  <2>6. \A r \in Known : r \in Records /\ r.etag <= stored.etag /\ r.etag \in Nat
    BY DEF ReadInv, ReadTyped, Records
  <2>7. \A r \in Known : r.etag < new.etag
    BY <2>3, <2>4, <2>6
  <2>8. \A r \in Known' : r.etag <= new.etag
    BY <2>3, <2>4, <2>5, <2>7, <2>6
  <2>9. \A r, q \in Known' : r.etag = q.etag => r = q
    BY <2>3, <2>4, <2>5, <2>7, <2>6 DEF ReadInv, ReadTyped
  <2> QED BY <1>1, <2>2, <2>4, <2>5, <2>6, <2>8, <2>9 DEF ReadInv, ReadTyped
<1>4. ASSUME ReclaimOld \/ InvalidateObject \/ Second
      PROVE  ReadTyped'
  <2>1. stored' = stored /\ seconds' \in Nat /\ entry' \in {entry, NoRecord}
    BY <1>4 DEF ReclaimOld, InvalidateObject, Second, ReadInv, ReadTyped
  <2>2. Known' \subseteq Known
    BY <1>1, <2>1 DEF Known
  <2>3. (get = [step |-> "idle"] \/ get \in Requests)'
    BY <1>1 DEF ReadInv, ReadTyped
  <2>4. ReadTyped
    BY DEF ReadInv
  <2> QED BY <2>1, <2>2, <2>3, <2>4, KnownStep
<1>5. ReadTyped'
  BY <1>3, <1>4
<1> QED BY <1>2, <1>5 DEF ReadInv

\* A request with the record it has found, and with its answer.
Stepped(g, step, record) == [g EXCEPT !.step = step, !.record = record]
Answering(g, step, status, offset, length) ==
    [g EXCEPT !.step = step, !.status = status, !.offset = offset, !.length = length]

AnswerTo(q, g, step, status, offset, length) ==
    /\ q \in Requests /\ q.step = step /\ q.status = status /\ q.offset = offset
    /\ q.length = length /\ q.record = g.record /\ q.headers = g.headers /\ q.range = g.range

\* The step of a request changes with the record it has found.
LEMMA RequestStep ==
    ASSUME NEW g \in Requests, NEW step \in {"stat", "fill", "decide", "open", "answered"},
           NEW record \in Records
    PROVE  /\ Stepped(g, step, record) \in Requests
           /\ Stepped(g, step, record).step = step /\ Stepped(g, step, record).record = record
           /\ Stepped(g, step, record).headers = g.headers
           /\ Stepped(g, step, record).range = g.range
<1> DEFINE i == [g EXCEPT !.step = step]
           h == [i EXCEPT !.record = record]
<1>1. i \in Requests /\ i.step = step /\ i.headers = g.headers /\ i.range = g.range
  BY DEF Requests
<1>2. Stepped(g, step, record) = h
  BY DEF Requests, Stepped
<1> HIDE DEF i
<1>3. /\ h \in Requests /\ h.step = i.step /\ h.record = record
      /\ h.headers = i.headers /\ h.range = i.range
  BY <1>1 DEF Requests
<1> HIDE DEF h
<1> QED BY <1>1, <1>2, <1>3

\* statObject finds a record that is about, and the cache is given one.
LEMMA StatKeeps ==
    ASSUME ReadInv, StatObject \/ FillCache
    PROVE  ReadInv'
<1>1. UNCHANGED <<stored, seconds, have, base>> /\ get.step \in {"stat", "fill"}
  BY DEF StatObject, FillCache
<1>2. get \in Requests /\ get.record \in Known /\ ReadTyped
  BY <1>1 DEF ReadInv, ReadTyped, Known
<1>3. ASSUME StatObject
      PROVE  /\ get' \in Requests /\ get'.step \in {"fill", "decide"} /\ get'.record \in Known
             /\ get'.headers = get.headers /\ get'.range = get.range /\ entry' \in Known
  <2>1. stored \in Known /\ entry \in Known /\ Known \subseteq Records /\ entry' = entry
    BY <1>2, <1>3 DEF Known, ReadTyped, StatObject
  <2>2. CASE entry = NoRecord
    <3>1. get' = Stepped(get, "fill", stored)
      BY <1>3, <2>2 DEF StatObject, Stepped
    <3>2. get \in Requests /\ stored \in Records
      BY <1>2, <2>1
    <3>3. /\ Stepped(get, "fill", stored) \in Requests
          /\ Stepped(get, "fill", stored).step = "fill"
          /\ Stepped(get, "fill", stored).record = stored
          /\ Stepped(get, "fill", stored).headers = get.headers
          /\ Stepped(get, "fill", stored).range = get.range
      BY <3>2, RequestStep
    <3> QED BY <2>1, <3>1, <3>3
  <2>3. CASE entry # NoRecord
    <3>1. get' = Stepped(get, "decide", entry)
      BY <1>3, <2>3 DEF StatObject, Stepped
    <3>2. get \in Requests /\ entry \in Records
      BY <1>2, <2>1
    <3>3. /\ Stepped(get, "decide", entry) \in Requests
          /\ Stepped(get, "decide", entry).step = "decide"
          /\ Stepped(get, "decide", entry).record = entry
          /\ Stepped(get, "decide", entry).headers = get.headers
          /\ Stepped(get, "decide", entry).range = get.range
      BY <3>2, RequestStep
    <3> QED BY <2>1, <3>1, <3>3
  <2> QED BY <2>2, <2>3
<1>4. ASSUME FillCache
      PROVE  /\ get' \in Requests /\ get'.step \in {"fill", "decide"} /\ get'.record \in Known
             /\ get'.headers = get.headers /\ get'.range = get.range /\ entry' \in Known
  <2>1. get' = [get EXCEPT !.step = "decide"] /\ entry' = get.record
    BY <1>4 DEF FillCache
  <2>2. /\ get' \in Requests /\ get'.step = "decide" /\ get'.record = get.record
        /\ get'.headers = get.headers /\ get'.range = get.range
    BY <1>2, <2>1 DEF Requests
  <2> QED BY <1>2, <2>1, <2>2
<1>5. /\ get' \in Requests /\ get'.step \in {"fill", "decide"} /\ get'.record \in Known
      /\ get'.headers = get.headers /\ get'.range = get.range /\ entry' \in Known
  BY <1>3, <1>4
<1>6. Known' \subseteq Known
  BY <1>1, <1>5 DEF Known
<1>7. ReadTyped'
  BY <1>1, <1>2, <1>5, <1>6, KnownStep DEF ReadTyped
<1>8. HaveInv' /\ Asked'
  BY <1>1, <1>5 DEF ReadInv, HaveInv, Asked
<1>9. Decided'
  BY <1>5 DEF Decided
<1> QED BY <1>7, <1>8, <1>9 DEF ReadInv

\* A request is answered with a part of its record.
LEMMA AnswerStep ==
    ASSUME NEW g \in Requests, NEW step \in {"open", "answered"}, NEW status \in Nat,
           NEW offset \in Nat, NEW length \in Nat
    PROVE  AnswerTo(Answering(g, step, status, offset, length), g, step, status, offset, length)
<1> DEFINE i == [g EXCEPT !.step = step]
           j == [i EXCEPT !.status = status]
           k == [j EXCEPT !.offset = offset]
           h == [k EXCEPT !.length = length]
<1>1. Answering(g, step, status, offset, length) = h
  BY DEF Requests, Answering
<1>2. /\ i \in Requests /\ i.step = step /\ i.record = g.record /\ i.headers = g.headers
      /\ i.range = g.range
  BY DEF Requests
<1> HIDE DEF i
<1>3. /\ j \in Requests /\ j.step = i.step /\ j.record = i.record /\ j.headers = i.headers
      /\ j.range = i.range /\ j.status = status
  BY <1>2 DEF Requests
<1> HIDE DEF j
<1>4. /\ k \in Requests /\ k.step = j.step /\ k.record = j.record /\ k.headers = j.headers
      /\ k.range = j.range /\ k.status = j.status /\ k.offset = offset
  BY <1>3 DEF Requests
<1> HIDE DEF k
<1>5. /\ h \in Requests /\ h.step = k.step /\ h.record = k.record /\ h.headers = k.headers
      /\ h.range = k.range /\ h.status = k.status /\ h.offset = k.offset /\ h.length = length
  BY <1>4 DEF Requests
<1> HIDE DEF h
<1> QED BY <1>1, <1>2, <1>3, <1>4, <1>5 DEF AnswerTo

\* Preconditions answer 0 or a status that is neither 200 nor 206.
LEMMA RefusalIsNoAnswer ==
    ASSUME NEW h, NEW record
    PROVE  evaluatePreconditions(h, record) \in {0, 304, 412}
BY DEF evaluatePreconditions

\* The handler's decision: If-Match lets only the client's version through, and
\* the range continues what the client has.
LEMMA DecideKeeps ==
    ASSUME ReadInv, Decide
    PROVE  ReadInv'
<1>1. UNCHANGED <<stored, entry, seconds, have, base>> /\ get.step = "decide"
  BY DEF Decide
<1>2. get \in Requests /\ get.record \in Known /\ get.record \in Records /\ ReadTyped
  BY <1>1 DEF ReadInv, ReadTyped, Known
<1>3. PICK g, refusal, range :
         g = get /\ refusal = evaluatePreconditions(get.headers, get.record)
         /\ range = parseRange(get.range, get.record.size)
  OBVIOUS
<1> DEFINE no == refusal # 0 \/ range.result = "unsatisfiable"
           step == IF no THEN "answered" ELSE "open"
           status == IF refusal # 0 THEN refusal
                     ELSE IF range.result = "unsatisfiable" THEN 416
                     ELSE IF range.result = "partial" THEN 206 ELSE 200
<1>4. get' = Answering(g, step, status, range.offset, range.length)
  BY <1>3 DEF Decide, Answering
<1>5. g.record.size \in Nat /\ g.range \in Ranges /\ g.headers \in Conditions
  BY <1>2, <1>3 DEF Requests, Records
<1>6. range.offset \in Nat /\ range.length \in Nat
  BY <1>3, <1>5, RangeTyped
<1>7. refusal \in {0, 304, 412}
  BY <1>3, RefusalIsNoAnswer
<1>8. step \in {"open", "answered"} /\ status \in Nat
  BY <1>7
<1>9. status \in {200, 206} => /\ refusal = 0 /\ range.result # "unsatisfiable"
                               /\ status = 206 <=> range.result = "partial"
  BY <1>7
<1> HIDE DEF step, status, no
<1>10. /\ get' \in Requests /\ get'.step = step /\ get'.status = status
       /\ get'.offset = range.offset /\ get'.length = range.length /\ get'.record = g.record
       /\ get'.headers = g.headers /\ get'.range = g.range
  <2>1. PICK a, b, o, l : a = step /\ b = status /\ o = range.offset /\ l = range.length
    OBVIOUS
  <2>2. /\ g \in Requests /\ a \in {"open", "answered"} /\ b \in Nat
        /\ o \in Nat /\ l \in Nat
    BY <1>2, <1>3, <1>6, <1>8, <2>1
  <2>3. AnswerTo(Answering(g, a, b, o, l), g, a, b, o, l)
    BY <2>2, AnswerStep
  <2> QED BY <1>4, <2>1, <2>3 DEF AnswerTo
<1>11. Known' \subseteq Known
  BY <1>1, <1>2, <1>3, <1>10 DEF Known
<1>12. ReadTyped'
  BY <1>1, <1>2, <1>10, <1>11, KnownStep DEF ReadTyped
<1>13. HaveInv' /\ Asked'
  BY <1>1, <1>3, <1>10 DEF ReadInv, HaveInv, Asked
<1>14. ASSUME status \in {200, 206}
       PROVE  /\ range.offset + range.length <= g.record.size
              /\ IF base = NoRecord \/ status = 200 THEN range.offset = 0
                 ELSE g.record = base /\ range.offset = Len(have)
  <2>1. ASSUME g.range \in {Whole, Between(0, 0), Between(0, 1), From(0)}
        PROVE  /\ range.offset = 0 /\ range.length <= g.record.size
               /\ g.range = Whole => range.result = "whole"
    BY <1>3, <1>5, <1>9, <1>14, <2>1, RangeOfBeginning
  <2>2. CASE base = NoRecord /\ g.range \in {Whole, Between(0, 0), Between(0, 1), From(0)}
    BY <1>5, <1>6, <2>1, <2>2
  <2>3. CASE base # NoRecord /\ g.range = Whole
    <3>1. status = 200
      BY <1>9, <1>14, <2>1, <2>3
    <3> QED BY <1>5, <1>6, <2>1, <2>3, <3>1
  <2>4. CASE /\ base # NoRecord /\ Len(have) < base.size /\ g.headers.ifMatch = base.etag
             /\ g.range \in {From(Len(have)), Between(Len(have), base.size - 1),
                             Suffix(base.size - Len(have)), Between(Len(have), Len(have))}
    <3>1. base \in Known /\ base \in Records /\ NoRecord \in Known
      BY <1>2 DEF ReadTyped, Known
    <3>2. base.etag # 0
      BY <2>4, <3>1, <1>2 DEF ReadTyped, NoRecord
    <3>3. base.etag = g.record.etag
      BY <1>2, <1>3, <1>5, <1>9, <1>14, <2>4, <3>2, MatchRefuses
    <3>4. g.record = base
      BY <1>2, <1>3, <3>1, <3>3 DEF ReadTyped
    <3>5. PICK k : k = Len(have)
      OBVIOUS
    <3>6. k \in Nat
      BY <3>1, <3>5 DEF ReadInv, HaveInv, Records
    <3>7. range.offset = k /\ k + range.length <= base.size /\ range.result = "partial"
      <4>1. PICK n, r : n = base.size /\ r = g.range
        OBVIOUS
      <4>2. n \in Nat /\ k < n
        BY <1>5, <2>4, <3>4, <3>5, <4>1
      <4>3. r \in {From(k), Between(k, n - 1), Suffix(n - k), Between(k, k)}
        BY <2>4, <3>5, <4>1
      <4>4. /\ parseRange(r, n).offset = k /\ k + parseRange(r, n).length <= n
            /\ parseRange(r, n).result = "partial"
        BY ONLY <3>6, <4>2, <4>3, RangeOfRest
      <4>5. range = parseRange(r, n)
        BY <1>3, <3>4, <4>1
      <4> QED BY <4>1, <4>4, <4>5
    <3> QED BY <1>9, <1>14, <2>4, <3>4, <3>5, <3>7
  <2> QED BY <1>1, <1>3, <2>2, <2>3, <2>4 DEF ReadInv, Asked
<1>15. Decided'
  BY <1>1, <1>10, <1>14 DEF Decided
<1> QED BY <1>12, <1>13, <1>15 DEF ReadInv

\* newFileResponse sends what was decided, or an error.
LEMMA OpenKeeps ==
    ASSUME ReadInv, OpenPayload
    PROVE  ReadInv'
<1>1. UNCHANGED <<stored, entry, seconds, have, base>> /\ get.step = "open"
  BY DEF OpenPayload
<1>2. get \in Requests /\ get.record \in Known /\ ReadTyped
  BY <1>1 DEF ReadInv, ReadTyped, Known
<1>3. PICK g, status : g = get /\ status = IF get.record.etag \in files THEN get.status ELSE 500
  OBVIOUS
<1>4. get' = [g EXCEPT !.step = "answered", !.status = status]
  BY <1>3 DEF OpenPayload
<1>5. status \in Nat /\ (status \in {200, 206} => status = g.status)
  BY <1>2, <1>3 DEF Requests
<1>6. /\ get' \in Requests /\ get'.step = "answered" /\ get'.status = status
      /\ get'.record = g.record /\ get'.offset = g.offset /\ get'.length = g.length
      /\ get'.headers = g.headers /\ get'.range = g.range
  <2> DEFINE i == [g EXCEPT !.step = "answered"]
             h == [i EXCEPT !.status = status]
  <2>1. /\ i \in Requests /\ i.step = "answered" /\ i.record = g.record /\ i.headers = g.headers
        /\ i.range = g.range /\ i.offset = g.offset /\ i.length = g.length
    BY <1>2, <1>3 DEF Requests
  <2>2. get' = h
    BY <1>2, <1>3, <1>4 DEF Requests
  <2> HIDE DEF i
  <2>3. /\ h \in Requests /\ h.step = i.step /\ h.record = i.record /\ h.headers = i.headers
        /\ h.range = i.range /\ h.status = status /\ h.offset = i.offset /\ h.length = i.length
    BY <1>5, <2>1 DEF Requests
  <2> HIDE DEF h
  <2> QED BY <2>1, <2>2, <2>3
<1>7. Known' \subseteq Known
  BY <1>1, <1>2, <1>3, <1>6 DEF Known
<1>8. ReadTyped'
  BY <1>1, <1>2, <1>6, <1>7, KnownStep DEF ReadTyped
<1>9. HaveInv' /\ Asked'
  BY <1>1, <1>3, <1>6 DEF ReadInv, HaveInv, Asked
<1>10. Decided'
  BY <1>1, <1>3, <1>5, <1>6 DEF ReadInv, Decided
<1> QED BY <1>8, <1>9, <1>10 DEF ReadInv

\* The client's requests.
LEMMA AskKeeps ==
    ASSUME ReadInv, Fetch \/ Resume \/ Revalidate
    PROVE  ReadInv'
<1>1. ReadTyped /\ base \in Records /\ Len(have) \in Nat
  BY DEF ReadInv, ReadTyped, Known, HaveInv, Records
<1>2. NoConditions \in Conditions
  BY DEF NoConditions, Conditions
<1>3. ASSUME NEW headers \in Conditions, NEW range \in Ranges, Ask(headers, range),
             \/ base = NoRecord /\ range \in {Whole, Between(0, 0), Between(0, 1), From(0)}
             \/ /\ base # NoRecord /\ Len(have) < base.size /\ headers.ifMatch = base.etag
                /\ range \in {From(Len(have)), Between(Len(have), base.size - 1),
                              Suffix(base.size - Len(have)), Between(Len(have), Len(have))}
             \/ base # NoRecord /\ range = Whole
      PROVE  ReadInv'
  <2>1. /\ get' = [step |-> "stat", headers |-> headers, range |-> range, record |-> NoRecord,
                   status |-> 0, offset |-> 0, length |-> 0]
        /\ UNCHANGED <<stored, entry, seconds, have, base>>
    BY <1>3 DEF Ask
  <2>2. NoRecord \in Records
    BY DEF NoRecord, Records
  <2>3. /\ get' \in Requests /\ get'.step = "stat" /\ get'.headers = headers
        /\ get'.range = range /\ get'.record = NoRecord
    BY <2>1, <2>2 DEF Requests
  <2>4. Known' \subseteq Known
    BY <2>1, <2>3 DEF Known
  <2>5. ReadTyped'
    BY <1>1, <2>1, <2>3, <2>4, KnownStep DEF ReadTyped
  <2>6. HaveInv'
    BY <2>1 DEF ReadInv, HaveInv
  <2>7. Asked'
    BY <1>3, <2>1, <2>3 DEF Asked
  <2>8. Decided'
    BY <2>3 DEF Decided
  <2> QED BY <2>5, <2>6, <2>7, <2>8 DEF ReadInv
<1>4. CASE Fetch
  <2>1. PICK range \in {Whole, Between(0, 0), Between(0, 1), From(0)} : Ask(NoConditions, range)
    BY <1>4 DEF Fetch
  <2>2. range \in Ranges
    BY DEF Ranges, Whole, Between, From
  <2>3. base = NoRecord
    BY <1>4 DEF Fetch
  <2> QED BY <1>2, <1>3, <2>1, <2>2, <2>3
<1>5. CASE Resume
  <2>1. PICK headers, k : headers = [NoConditions EXCEPT !.ifMatch = base.etag] /\ k = Len(have)
    OBVIOUS
  <2>2. headers \in Conditions /\ headers.ifMatch = base.etag
    BY <1>1, <1>2, <2>1 DEF Conditions, Records, NoConditions
  <2>3. base # NoRecord /\ k < base.size
    BY <1>1, <1>5, <2>1 DEF Resume, Complete, ReadInv, HaveInv, Records
  <2>4. PICK range \in {From(k), Between(k, base.size - 1), Suffix(base.size - k), Between(k, k)} :
           Ask(headers, range)
    BY <1>5, <2>1 DEF Resume
  <2>5. range \in Ranges
    <3>1. k \in Nat /\ base.size - 1 \in Nat /\ base.size - k \in Nat
      BY <1>1, <2>1, <2>3 DEF Records
    <3> QED BY <2>4, <3>1 DEF Ranges, From, Between, Suffix
  <2> QED BY <1>3, <2>1, <2>2, <2>3, <2>4, <2>5
<1>6. CASE Revalidate
  <2>1. PICK headers \in {[NoConditions EXCEPT !.ifNoneMatch = base.etag],
                          [NoConditions EXCEPT !.ifModified = base.date + 1],
                          [NoConditions EXCEPT !.ifUnmodified = base.date + 1]} :
           Ask(headers, Whole)
    BY <1>6 DEF Revalidate
  <2>2. headers \in Conditions
    <3>1. base.etag \in Nat /\ base.date + 1 \in Nat
      BY <1>1 DEF Records
    <3> QED BY <2>1, <3>1 DEF NoConditions, Conditions
  <2>3. Whole \in Ranges
    BY DEF Ranges, Whole
  <2>4. base # NoRecord
    BY <1>6 DEF Revalidate, Complete
  <2> QED BY <1>3, <2>1, <2>2, <2>3, <2>4
<1> QED BY <1>4, <1>5, <1>6

\* What arrives continues what the client has.
LEMMA ReceiveKeeps ==
    ASSUME ReadInv, Receive
    PROVE  ReadInv'
<1>1. UNCHANGED <<stored, entry, seconds>> /\ get.step = "answered" /\ get' = [step |-> "idle"]
  BY DEF Receive
<1>2. /\ get \in Requests /\ get.record \in Known /\ get.record \in Records /\ ReadTyped
      /\ base \in Records
  BY <1>1 DEF ReadInv, ReadTyped, Known
<1>3. PICK n \in 0..get.length :
         LET part == Bytes(get.record.etag, get.offset, n)
             first == base = NoRecord \/ get.status = 200
         IN  IF get.status \in {200, 206}
             THEN /\ have' = IF first THEN part ELSE have \o part
                  /\ base' = IF first THEN get.record ELSE base
             ELSE /\ n = 0
                  /\ have' = IF get.status = 304 THEN have ELSE <<>>
                  /\ base' = IF get.status = 304 THEN base ELSE NoRecord
  BY DEF Receive
<1>4. /\ get.length \in Nat /\ get.offset \in Nat /\ n \in Nat /\ n <= get.length
      /\ get.record.etag \in Nat /\ get.record.size \in Nat /\ base.etag \in Nat /\ base.size \in Nat
  BY <1>2, <1>3 DEF Requests, Records
<1>5. ASSUME NEW r \in Known, NEW k \in 0..r.size, base' = r, have' = Bytes(r.etag, 0, k)
      PROVE  ReadInv'
  <2>1. r \in Records /\ r.etag \in Nat /\ k \in Nat
    BY <1>2, <1>5 DEF ReadTyped, Records
  <2>2. get'.step = "idle"
    BY <1>1
  <2>3. Known' \subseteq Known
    BY <1>1, <1>5, <2>2 DEF Known
  <2>4. ReadTyped'
    BY <1>1, <1>2, <2>3, KnownStep DEF ReadTyped
  <2>5. HaveInv'
    <3>1. Len(Bytes(r.etag, 0, k)) = k
      BY <2>1, BytesAre
    <3> QED BY <1>5, <3>1 DEF HaveInv
  <2>6. Asked' /\ Decided'
    BY <2>2 DEF Asked, Decided
  <2> QED BY <2>4, <2>5, <2>6 DEF ReadInv
<1>6. base \in Known /\ NoRecord \in Known
  BY DEF Known
<1>7. CASE get.status \in {200, 206} /\ (base = NoRecord \/ get.status = 200)
  <2>1. have' = Bytes(get.record.etag, get.offset, n) /\ base' = get.record
    BY <1>3, <1>7
  <2>2. get.offset = 0 /\ get.offset + get.length <= get.record.size
    BY <1>1, <1>7 DEF ReadInv, Decided
  <2>3. n \in 0..get.record.size
    BY <1>4, <2>2
  <2> QED BY <1>2, <1>5, <2>1, <2>2, <2>3
<1>8. CASE get.status \in {200, 206} /\ ~(base = NoRecord \/ get.status = 200)
  <2>1. have' = have \o Bytes(get.record.etag, get.offset, n) /\ base' = base
    BY <1>3, <1>8
  <2>2. /\ get.record = base /\ get.offset = Len(have)
        /\ get.offset + get.length <= get.record.size
    BY <1>1, <1>8 DEF ReadInv, Decided
  <2>3. PICK k \in 0..base.size : have = Bytes(base.etag, 0, k) /\ Len(have) = k
    BY DEF ReadInv, HaveInv
  <2>4. k \in Nat /\ k + n \in 0..base.size
    BY <1>4, <2>2, <2>3
  <2>5. have' = Bytes(base.etag, 0, k + n)
    <3>1. Bytes(base.etag, 0, k) \o Bytes(base.etag, k, n) = Bytes(base.etag, 0, k + n)
      <4>1. PICK v : v = base.etag /\ v \in Nat
        BY <1>4
      <4>2. n \in Nat /\ k \in Nat
        BY <1>4, <2>4
      <4>3. Bytes(v, 0, k) \o Bytes(v, k, n) = Bytes(v, 0, k + n)
        BY ONLY <4>1, <4>2, BytesContinue
      <4> QED BY <4>1, <4>3
    <3>2. have' = Bytes(base.etag, 0, k) \o Bytes(base.etag, k, n)
      BY <2>1, <2>2, <2>3
    <3> QED BY <3>1, <3>2
  <2>6. PICK j : j = k + n
    OBVIOUS
  <2> QED BY <1>5, <1>6, <2>1, <2>4, <2>5, <2>6
<1>9. CASE get.status \notin {200, 206} /\ get.status = 304
  <2>1. have' = have /\ base' = base
    BY <1>3, <1>9
  <2>2. PICK k \in 0..base.size : have = Bytes(base.etag, 0, k)
    BY DEF ReadInv, HaveInv
  <2> QED BY <1>5, <1>6, <2>1, <2>2
<1>10. CASE get.status \notin {200, 206} /\ get.status # 304
  <2>1. have' = <<>> /\ base' = NoRecord
    BY <1>3, <1>10
  <2>2. <<>> = Bytes(0, 0, 0)
    BY DEF Bytes
  <2>3. NoRecord.etag = 0 /\ NoRecord.size = 0
    BY DEF NoRecord
  <2> QED BY <1>5, <1>6, <2>1, <2>2, <2>3
<1> QED BY <1>7, <1>8, <1>9, <1>10

\* The invariant holds throughout.
LEMMA ReadInvariant == ReadSpec => []ReadInv
<1>1. ReadInit => ReadInv
  <2> SUFFICES ASSUME ReadInit PROVE ReadInv
    OBVIOUS
  <2>1. PICK n \in ObjectSizes : stored = [etag |-> 1, size |-> n, date |-> 0]
    BY DEF ReadInit
  <2>2. /\ entry = NoRecord /\ base = NoRecord /\ seconds = 0 /\ get = [step |-> "idle"]
        /\ have = <<>> /\ get.step = "idle"
    BY DEF ReadInit
  <2>3. /\ NoRecord \in Records /\ NoRecord.etag = 0 /\ NoRecord.size = 0
        /\ stored \in Records /\ stored.etag = 1
    BY <2>1, ReadConstants DEF NoRecord, Records
  <2>4. Known = {NoRecord, stored}
    BY <2>2 DEF Known
  <2>5. ReadTyped
    BY <2>2, <2>3, <2>4 DEF ReadTyped
  <2>6. <<>> = Bytes(0, 0, 0) /\ Len(<<>>) = 0
    BY DEF Bytes
  <2>7. HaveInv
    BY <2>2, <2>3, <2>6 DEF HaveInv
  <2>8. Asked /\ Decided
    BY <2>2 DEF Asked, Decided
  <2> QED BY <2>5, <2>7, <2>8 DEF ReadInv
<1>2. ReadInv /\ [ReadNext]_readVars => ReadInv'
  <2> SUFFICES ASSUME ReadInv, [ReadNext]_readVars PROVE ReadInv'
    OBVIOUS
  <2>1. CASE UNCHANGED readVars
    <3>1. UNCHANGED <<stored, entry, seconds, get, have, base>>
      BY <2>1 DEF readVars
    <3> QED BY <3>1 DEF ReadInv, ReadTyped, Known, HaveInv, Asked, Decided
  <2>2. CASE ReadNext
    BY <2>2, WriterKeeps, StatKeeps, DecideKeeps, OpenKeeps, AskKeeps, ReceiveKeeps DEF ReadNext
  <2> QED BY <2>1, <2>2
<1> QED BY <1>1, <1>2, PTL DEF ReadSpec

(***************************************************************************)
(* What a client puts together from ranges is one version of the object,   *)
(* byte for byte: for objects of any size, any number of overwrites at any *)
(* of the handler's steps, and any number of broken connections.           *)
(***************************************************************************)
THEOREM DownloadSafety == ReadSpec => []DownloadIsOneVersion
<1>1. ReadInv => DownloadIsOneVersion
  <2> SUFFICES ASSUME ReadInv PROVE DownloadIsOneVersion
    OBVIOUS
  <2>1. PICK n \in 0..base.size : have = Bytes(base.etag, 0, n) /\ Len(have) = n
    BY DEF ReadInv, HaveInv
  <2>2. base \in Records /\ base.size \in Nat
    BY DEF ReadInv, ReadTyped, Known, Records
  <2>3. get.step = "answered" => get.record \in Known
    BY DEF Known
  <2>4. get.step = "answered" => get.record.etag <= stored.etag
    BY <2>3 DEF ReadInv, ReadTyped
  <2> QED BY <2>1, <2>2, <2>4 DEF ReadInv, Decided, DownloadIsOneVersion
<1> QED BY <1>1, ReadInvariant, PTL

-----------------------------------------------------------------------------
(* Power cuts and the consistency check. *)

\* The metadata states a cut may fall back to.
States == {journal[n] : n \in DOMAIN journal}

Tasks == [step : {"commit", "publish", "unlink", "forget", "answer"},
          blob : Payloads \cup {Absent}, old : Payloads \cup {Absent}]

Files(f) == f \in [DOMAIN f -> File] /\ DOMAIN f \subseteq Payloads

\* Types, and the state a cut leaves.
PowerTyped ==
    /\ journal \in Seq(Meta) /\ journal # <<>>
    /\ Files(tree) /\ Files(removed)
    /\ work \in [Slots -> Tasks \cup {Idle}]
    /\ promised \in [Slots -> SUBSET (Payloads \cup {Absent})]
    /\ drawn \in Nat /\ power \in {"on", "off"}
    /\ power = "off" => States = {Current} /\ \A s \in Slots : work[s] = Idle

\* A payload is a slot's when one of the states or the request at work has it there.
Owns(s, b) ==
    \/ \E m \in States : m.held[s] = b
    \/ work[s].step # "idle" /\ b \in {work[s].blob, work[s].old}

\* No payload has two slots, and none comes before its number is drawn.
OneOwner ==
    /\ \A b \in Payloads : \A s, t \in Slots : Owns(s, b) /\ Owns(t, b) => s = t
    /\ \A b \in Payloads : \A s \in Slots : Owns(s, b) => b <= drawn
    /\ \A b \in DOMAIN tree \cup DOMAIN removed : b <= drawn

Sound(file) == file.flushed /\ file.content = "whole"

\* The payloads of a slot that flushes are sound, the unlinked ones too.
FlushedFiles ==
    \A s \in Slots : LevelOf[s] # "none" =>
        \A b \in Payloads : Owns(s, b) =>
            /\ b \in DOMAIN tree => Sound(tree[b])
            /\ b \in DOMAIN removed => Sound(removed[b])

\* What a row names is not on its way to being reclaimed.
HeldUntracked == \A m \in States : \A s \in Slots : m.held[s] \notin m.tracked

\* A payload that is being written is in no row yet.
WrittenFresh ==
    \A s \in Slots : work[s].step \in {"commit", "publish"} =>
        /\ work[s].blob \in Payloads /\ work[s].blob \in promised[s]
        /\ \A m \in States : m.held[s] # work[s].blob

\* A slot whose payloads are flushed when it answers, and the name of each too.
Strict(s) == LevelOf[s] = "strict"

\* A strict slot has one content in every state, promised and in the tree by a
\* name that its directory keeps, unless a cut took the directory.
StrictKept ==
    \A s \in Slots : Strict(s) =>
        /\ Current.held[s] \in promised[s]
        /\ \A m \in States : m.held[s] = Current.held[s]
        /\ Current.held[s] \notin lost \cup {Absent} =>
              Current.held[s] \in DOMAIN tree /\ tree[Current.held[s]].named
        /\ work[s].step = "publish" => work[s].blob \in DOMAIN tree /\ tree[work[s].blob].named
        /\ work[s].step = "unlink" => work[s].old # Current.held[s]

\* What fsck reported is what it would find now.
ReportCurrent ==
    /\ power = "on" => report = NoReport
    /\ report = NoReport
       \/ (report.run /\ report.deep \in BOOLEAN /\ report.findings = Findings(report.deep))

\* The inductive invariant of the writes and the power.
PowerInv ==
    PowerTyped /\ OneOwner /\ FlushedFiles /\ HeldUntracked /\ WrittenFresh /\ StrictKept
    /\ ReportCurrent

-----------------------------------------------------------------------------
(* The log, and the files.                                                  *)

\* The current state is one of the states, and each is a metadata state.
LEMMA JournalStates ==
    ASSUME PowerTyped
    PROVE  States \subseteq Meta /\ Current \in States
<1>1. journal \in Seq(Meta) /\ Len(journal) \in DOMAIN journal
  BY DEF PowerTyped
<1> QED BY <1>1 DEF States, Current

\* A write makes its state the current one; a synced write leaves no other.
LEMMA WriteStates ==
    ASSUME PowerTyped, NEW meta \in Meta, NEW level, Write(meta, level)
    PROVE  /\ journal' \in Seq(Meta) /\ journal' # <<>>
           /\ Current' = meta /\ meta \in States' /\ States' \subseteq States \cup {meta}
           /\ level = "strict" => States' = {meta}
<1>0. journal \in Seq(Meta)
  BY DEF PowerTyped
<1>1. CASE level = "strict"
  <2>1. journal' = <<meta>>
    BY <1>1 DEF Write
  <2>2. Len(journal') = 1 /\ journal'[1] = meta /\ DOMAIN journal' = {1}
    BY <2>1
  <2> QED BY <2>1, <2>2 DEF Current, States
<1>2. CASE level # "strict"
  <2>1. journal' = Append(journal, meta)
    BY <1>2 DEF Write
  <2>2. /\ journal' \in Seq(Meta) /\ Len(journal') = Len(journal) + 1
        /\ DOMAIN journal' = 1 .. Len(journal) + 1 /\ journal'[Len(journal) + 1] = meta
        /\ \A n \in 1 .. Len(journal) : journal'[n] = journal[n]
    BY <1>0, <2>1
  <2>3. Current' = meta /\ meta \in States'
    BY <1>0, <2>2 DEF Current, States
  <2>4. States' \subseteq States \cup {meta}
    BY <1>0, <2>2 DEF States
  <2> QED BY <1>2, <2>2, <2>3, <2>4, <1>0
<1> QED BY <1>1, <1>2

\* Fields of a metadata state.
LEMMA MetaFields ==
    ASSUME NEW held \in [Slots -> Payloads \cup {Absent}], NEW tracked \in SUBSET Payloads
    PROVE  [held |-> held, tracked |-> tracked] \in Meta
BY DEF Meta

\* A metadata state with other payloads tracked.
LEMMA TrackedMeta ==
    ASSUME NEW m \in Meta, NEW tracked \in SUBSET Payloads
    PROVE  /\ [m EXCEPT !.tracked = tracked] \in Meta
           /\ [m EXCEPT !.tracked = tracked].held = m.held
           /\ [m EXCEPT !.tracked = tracked].tracked = tracked
BY DEF Meta

\* Files beside files.
LEMMA JoinedFiles ==
    ASSUME NEW f, NEW g, Files(f), Files(g)
    PROVE  /\ Files(Joined(f, g)) /\ DOMAIN Joined(f, g) = DOMAIN f \cup DOMAIN g
           /\ \A b \in DOMAIN f : Joined(f, g)[b] = f[b]
           /\ \A b \in DOMAIN g \ DOMAIN f : Joined(f, g)[b] = g[b]
BY DEF Files, Joined

\* Some of the files.
LEMMA RestrictedFiles ==
    ASSUME NEW f, Files(f), NEW S, S \subseteq DOMAIN f
    PROVE  /\ Files(Restrict(f, S)) /\ DOMAIN Restrict(f, S) = S
           /\ \A b \in S : Restrict(f, S)[b] = f[b]
BY DEF Files, Restrict

\* One file.
LEMMA OneFile ==
    ASSUME NEW b \in Payloads, NEW file \in File
    PROVE  /\ Files([c \in {b} |-> file]) /\ DOMAIN [c \in {b} |-> file] = {b}
           /\ [c \in {b} |-> file][b] = file
BY DEF Files

\* A request that goes on to another step.
LEMMA TaskStep ==
    ASSUME NEW j \in Tasks, NEW step \in {"publish", "unlink", "forget", "answer"}
    PROVE  /\ [j EXCEPT !.step = step] \in Tasks
           /\ [j EXCEPT !.step = step].step = step
           /\ [j EXCEPT !.step = step].blob = j.blob /\ [j EXCEPT !.step = step].old = j.old
BY DEF Tasks

\* A request that knows what it has replaced.
LEMMA TaskOld ==
    ASSUME NEW j \in Tasks, NEW old \in Payloads \cup {Absent}
    PROVE  /\ [j EXCEPT !.old = old] \in Tasks
           /\ [j EXCEPT !.old = old].step = j.step
           /\ [j EXCEPT !.old = old].blob = j.blob /\ [j EXCEPT !.old = old].old = old
BY DEF Tasks

\* A request at work is a task.
LEMMA AtTask ==
    ASSUME PowerTyped, NEW s \in Slots, work[s].step # "idle"
    PROVE  work[s] \in Tasks
BY DEF PowerTyped, Idle

-----------------------------------------------------------------------------
(* Steps that give no slot a payload it has not.                            *)

\* A step that gives no payload to a slot.
Shrinks == \A b \in Payloads : \A s \in Slots : Owns(s, b)' => Owns(s, b)

\* They keep every payload with its one slot.
LEMMA ShrinkOwner ==
    ASSUME OneOwner, Shrinks, drawn' = drawn,
           (DOMAIN tree \cup DOMAIN removed)' \subseteq DOMAIN tree \cup DOMAIN removed
    PROVE  OneOwner'
BY DEF OneOwner, Shrinks

\* They keep the files sound as long as every file is one of those before.
LEMMA ShrinkFlushed ==
    ASSUME FlushedFiles, Shrinks,
           \A b \in DOMAIN tree' :
              \/ b \in DOMAIN tree /\ tree'[b] = tree[b]
              \/ b \in DOMAIN removed /\ removed[b] = tree'[b],
           \A b \in DOMAIN removed' :
              \/ b \in DOMAIN tree /\ removed'[b] = tree[b]
              \/ b \in DOMAIN removed /\ removed'[b] = removed[b]
    PROVE  FlushedFiles'
BY DEF FlushedFiles, Shrinks

\* A batch that changes only what is tracked.
LEMMA TrackStep ==
    ASSUME PowerTyped, HeldUntracked, NEW T \in SUBSET Payloads, NEW level,
           Write([Current EXCEPT !.tracked = T], level), \A s \in Slots : Current.held[s] \notin T
    PROVE  /\ journal' \in Seq(Meta) /\ journal' # <<>> /\ HeldUntracked'
           /\ Current' \in States' /\ Current'.held = Current.held
           /\ \A m \in States' : \E k \in States : m.held = k.held
<1>1. Current \in States /\ Current \in Meta
  BY JournalStates
<1> DEFINE meta == [Current EXCEPT !.tracked = T]
<1>2. meta \in Meta /\ meta.held = Current.held /\ meta.tracked = T
  BY <1>1, TrackedMeta
<1> HIDE DEF meta
<1>3. Write(meta, level)
  BY DEF meta
<1>4. /\ journal' \in Seq(Meta) /\ journal' # <<>>
      /\ Current' = meta /\ meta \in States' /\ States' \subseteq States \cup {meta}
  BY <1>2, <1>3, WriteStates
<1>5. HeldUntracked'
  BY <1>2, <1>4 DEF HeldUntracked
<1> QED BY <1>1, <1>2, <1>4, <1>5

\* beginWrite: a fresh number goes to one slot.
LEMMA BeginWritePower ==
    ASSUME PowerInv, NEW s \in Slots, BeginWrite(s)
    PROVE  PowerTyped' /\ OneOwner' /\ FlushedFiles' /\ HeldUntracked' /\ WrittenFresh' /\ StrictKept'
<1> DEFINE d == drawn + 1
           T == Current.tracked \cup {d}
<1>1. /\ drawn \in Nat /\ d \in Payloads /\ d # Absent /\ drawn' = d /\ work[s].step = "idle"
      /\ work' = [work EXCEPT ![s] = [step |-> "commit", blob |-> d, old |-> Absent]]
      /\ promised' = [promised EXCEPT ![s] = promised[s] \cup {d}]
      /\ tree' = tree /\ removed' = removed /\ lost' = lost /\ power' = power /\ power = "on"
      /\ Write([Current EXCEPT !.tracked = T], ServerLevel)
  BY PowerConstants DEF PowerInv, PowerTyped, BeginWrite, Doing, Absent
<1>2. Current \in Meta /\ Current \in States
  BY JournalStates DEF PowerInv
<1>3. T \in SUBSET Payloads
  BY <1>1, <1>2 DEF Meta
<1>4. \A t \in Slots : \A m \in States : m.held[t] # d
  BY <1>1 DEF PowerInv, OneOwner, Owns
<1>5. \A t \in Slots : Current.held[t] \notin T
  BY <1>2, <1>4 DEF PowerInv, HeldUntracked
<1>6. /\ journal' \in Seq(Meta) /\ journal' # <<>> /\ HeldUntracked'
      /\ Current' \in States' /\ Current'.held = Current.held
      /\ \A m \in States' : \E k \in States : m.held = k.held
  BY <1>1, <1>3, <1>5, TrackStep DEF PowerInv
<1>7. /\ work' \in [Slots -> Tasks \cup {Idle}] /\ work'[s].step = "commit"
      /\ work'[s].blob = d /\ work'[s].old = Absent /\ \A t \in Slots \ {s} : work'[t] = work[t]
  BY <1>1 DEF PowerInv, PowerTyped, Tasks
<1>8. PowerTyped'
  BY <1>1, <1>6, <1>7 DEF PowerInv, PowerTyped
<1>9. ASSUME NEW b \in Payloads, NEW t \in Slots, Owns(t, b)'
      PROVE  (t = s /\ b = d) \/ Owns(t, b)
  <2>1. b # Absent
    BY PowerConstants DEF Absent
  <2> QED BY <1>6, <1>7, <1>9, <2>1 DEF Owns
<1>10. \A t \in Slots : ~Owns(t, d)
  BY <1>1 DEF PowerInv, OneOwner
<1>11. OneOwner'
  <2>1. \A b \in Payloads : \A t, u \in Slots : Owns(t, b)' /\ Owns(u, b)' => t = u
    BY <1>9, <1>10 DEF PowerInv, OneOwner
  <2>2. \A b \in Payloads : \A t \in Slots : Owns(t, b)' => b <= drawn'
    BY <1>1, <1>9, PowerConstants DEF PowerInv, OneOwner
  <2>3. \A b \in DOMAIN tree \cup DOMAIN removed : b <= drawn'
    BY <1>1, PowerConstants DEF PowerInv, OneOwner, PowerTyped, Files
  <2> QED BY <1>1, <2>1, <2>2, <2>3 DEF OneOwner
<1>12. FlushedFiles'
  <2>1. d \notin DOMAIN tree /\ d \notin DOMAIN removed
    BY <1>1 DEF PowerInv, OneOwner
  <2> QED BY <1>1, <1>9, <2>1 DEF PowerInv, FlushedFiles
<1>13. WrittenFresh'
  <2>1. \A t \in Slots : \A m \in States' : m.held[t] # d
    BY <1>4, <1>6
  <2>2. \A t \in Slots \ {s} : promised'[t] = promised[t] /\ d \in promised'[s]
    BY <1>1 DEF PowerInv, PowerTyped
  <2>3. ASSUME NEW t \in Slots \ {s}, work'[t].step \in {"commit", "publish"}
        PROVE  /\ work'[t].blob \in Payloads /\ work'[t].blob \in promised'[t]
               /\ \A m \in States' : m.held[t] # work'[t].blob
    <3>1. work'[t] = work[t] /\ promised'[t] = promised[t]
      BY <1>7, <2>2
    <3>2. /\ work[t].blob \in Payloads /\ work[t].blob \in promised[t]
          /\ \A m \in States : m.held[t] # work[t].blob
      BY <2>3, <3>1 DEF PowerInv, WrittenFresh
    <3> QED BY <1>6, <3>1, <3>2
  <2>4. /\ work'[s].blob \in Payloads /\ work'[s].blob \in promised'[s]
        /\ \A m \in States' : m.held[s] # work'[s].blob
    <3>1. d \in Payloads /\ d \in promised'[s]
      BY <1>1 DEF PowerInv, PowerTyped
    <3> HIDE DEF d
    <3> QED BY <1>7, <2>1, <3>1
  <2> QED BY <2>3, <2>4 DEF WrittenFresh
<1>14. StrictKept'
  <2>1. \A t \in Slots : promised[t] \subseteq promised'[t]
    BY <1>1 DEF PowerInv, PowerTyped
  <2>2. \A t \in Slots : Strict(t) =>
           \A m \in States' : m.held[t] = Current'.held[t]
    BY <1>6 DEF PowerInv, StrictKept
  <2> QED BY <1>1, <1>6, <1>7, <2>1, <2>2 DEF PowerInv, StrictKept
<1> QED BY <1>6, <1>8, <1>11, <1>12, <1>13, <1>14

\* BlobWriter::commit: a payload of a strict slot is in the tree by a name that
\* its directory keeps.
LEMMA CommitPayloadPower ==
    ASSUME PowerInv, NEW s \in Slots, CommitPayload(s)
    PROVE  PowerTyped' /\ OneOwner' /\ FlushedFiles' /\ HeldUntracked' /\ WrittenFresh' /\ StrictKept'
<1>0. PICK b : b = work[s].blob
  OBVIOUS
<1>1. /\ work[s].step = "commit" /\ power = "on"
      /\ work' = [work EXCEPT ![s].step = "publish"]
      /\ journal' = journal /\ removed' = removed /\ promised' = promised /\ drawn' = drawn
      /\ power' = power /\ lost' = lost
  BY DEF CommitPayload, Doing, Become
<1> DEFINE file == [flushed |-> LevelOf[s] # "none", named |-> LevelOf[s] = "strict",
                    content |-> "whole"]
<1>2. tree' = Joined([c \in {work[s].blob} |-> file], tree)
  BY DEF CommitPayload
<1>3. tree' = Joined([c \in {b} |-> file], tree)
  BY <1>0, <1>2
<1>4. b \in Payloads /\ b \in promised[s] /\ \A m \in States : m.held[s] # b
  BY <1>0, <1>1 DEF PowerInv, WrittenFresh
<1>5. work[s] \in Tasks
  BY <1>1, AtTask DEF PowerInv
<1>6. file \in File
  BY PowerConstants DEF File
<1>7. /\ file.flushed = (LevelOf[s] # "none") /\ file.content = "whole"
      /\ Strict(s) => file.named
  <2>1. Strict(s) => LevelOf[s] = "strict"
    BY DEF Strict
  <2>2. file.named = (LevelOf[s] = "strict")
    OBVIOUS
  <2>3. file.flushed = (LevelOf[s] # "none") /\ file.content = "whole"
    OBVIOUS
  <2> QED BY <2>1, <2>2, <2>3
<1> HIDE DEF file
<1>8. /\ Files(tree') /\ DOMAIN tree' = {b} \cup DOMAIN tree /\ tree'[b] = file
      /\ \A c \in DOMAIN tree \ {b} : tree'[c] = tree[c]
  <2> DEFINE f == [c \in {b} |-> file]
  <2>1. Files(f) /\ DOMAIN f = {b} /\ f[b] = file
    BY <1>4, <1>6, OneFile
  <2> HIDE DEF f
  <2>2. Files(tree)
    BY DEF PowerInv, PowerTyped
  <2>3. tree' = Joined(f, tree)
    BY <1>3 DEF f
  <2>4. /\ Files(Joined(f, tree)) /\ DOMAIN Joined(f, tree) = DOMAIN f \cup DOMAIN tree
        /\ \A c \in DOMAIN f : Joined(f, tree)[c] = f[c]
        /\ \A c \in DOMAIN tree \ DOMAIN f : Joined(f, tree)[c] = tree[c]
    BY <2>1, <2>2, JoinedFiles
  <2> QED BY <2>1, <2>3, <2>4
<1>9. /\ work' \in [Slots -> Tasks \cup {Idle}] /\ work'[s].step = "publish"
      /\ work'[s].blob = b /\ work'[s].old = work[s].old
      /\ \A t \in Slots \ {s} : work'[t] = work[t]
  <2> DEFINE j == [work[s] EXCEPT !.step = "publish"]
  <2>1. j \in Tasks /\ j.step = "publish" /\ j.blob = b /\ j.old = work[s].old
    BY <1>0, <1>5, TaskStep
  <2>2. work' = [work EXCEPT ![s] = j]
    BY <1>1
  <2> HIDE DEF j
  <2> QED BY <2>1, <2>2 DEF PowerInv, PowerTyped
<1>10. States' = States /\ Current' = Current
  BY <1>1 DEF States, Current
<1>11. PowerTyped'
  BY <1>1, <1>8, <1>9, <1>10 DEF PowerInv, PowerTyped
<1>12. Shrinks
  BY <1>0, <1>1, <1>9, <1>10 DEF Shrinks, Owns
<1>13. Owns(s, b) /\ b <= drawn
  BY <1>0, <1>1, <1>4 DEF Owns, PowerInv, OneOwner
<1>14. OneOwner'
  BY <1>1, <1>8, <1>12, <1>13 DEF PowerInv, OneOwner, Shrinks
<1>15. FlushedFiles'
  <2>1. \A t \in Slots : Owns(t, b)' => t = s
    BY <1>4, <1>12, <1>13 DEF PowerInv, OneOwner, Shrinks
  <2>2. LevelOf[s] # "none" => Sound(file)
    BY <1>7 DEF Sound
  <2>3. LevelOf[s] # "none" /\ b \in DOMAIN removed => Sound(removed[b])
    BY <1>4, <1>13 DEF PowerInv, FlushedFiles
  <2> QED BY <1>1, <1>8, <1>12, <2>1, <2>2, <2>3 DEF PowerInv, FlushedFiles, Shrinks
<1>16. HeldUntracked'
  BY <1>10 DEF PowerInv, HeldUntracked
<1>17. WrittenFresh'
  BY <1>1, <1>4, <1>9, <1>10 DEF PowerInv, WrittenFresh
<1>18. StrictKept'
  <2>1. Strict(s) => file.named
    BY <1>7
  <2>2. ASSUME NEW t \in Slots, Strict(t), Current.held[t] \notin lost \cup {Absent}
        PROVE  Current.held[t] \in DOMAIN tree' /\ tree'[Current.held[t]].named
    <3>1. Current.held[t] \in DOMAIN tree /\ tree[Current.held[t]].named
      BY <2>2 DEF PowerInv, StrictKept
    <3>2. CASE Current.held[t] = b
      <4>1. Current \in States /\ Owns(t, b)
        BY <3>2, JournalStates DEF PowerInv, Owns
      <4>2. FALSE
        BY <1>4, <1>13, <4>1, <3>2 DEF PowerInv, OneOwner
      <4> QED BY <4>2
    <3> QED BY <1>8, <3>1, <3>2
  <2>3. ASSUME NEW t \in Slots, Strict(t), work'[t].step = "publish"
        PROVE  work'[t].blob \in DOMAIN tree' /\ tree'[work'[t].blob].named
    <3>1. CASE t = s
      BY <1>8, <1>9, <2>1, <2>3, <3>1
    <3>2. CASE t # s
      BY <1>8, <1>9, <2>3, <3>2, <1>13, <1>4 DEF PowerInv, StrictKept, OneOwner, Owns
    <3> QED BY <3>1, <3>2
  <2>4. \A t \in Slots : work'[t].step = "unlink" => t # s
    BY <1>9
  <2> QED BY <1>1, <1>9, <1>10, <2>2, <2>3, <2>4 DEF PowerInv, StrictKept
<1> QED BY <1>11, <1>14, <1>15, <1>16, <1>17, <1>18

\* What a batch that gives the slot s the payload b does to the metadata states.
RowMoves(s, b) ==
    /\ journal' \in Seq(Meta) /\ journal' # <<>> /\ HeldUntracked'
    /\ Current' \in States' /\ Current'.held[s] = b
    /\ \A t \in Slots \ {s} : Current'.held[t] = Current.held[t]
    /\ \A m \in States' : \A t \in Slots :
          (t = s /\ m.held[t] = b) \/ \E k \in States : m.held[t] = k.held[t]
    /\ LevelOf[s] = "strict" => States' = {Current'}

\* A batch that changes one row and what is tracked.
LEMMA RowStep ==
    ASSUME PowerTyped, HeldUntracked, NEW s \in Slots, NEW b \in Payloads \cup {Absent},
           NEW T \in SUBSET Payloads, b \notin T, \A t \in Slots \ {s} : Current.held[t] \notin T,
           Write([held |-> [Current.held EXCEPT ![s] = b], tracked |-> T], LevelOf[s])
    PROVE  RowMoves(s, b)
<1>1. Current \in States /\ Current \in Meta /\ Current.held \in [Slots -> Payloads \cup {Absent}]
  BY JournalStates DEF Meta
<1> DEFINE held == [Current.held EXCEPT ![s] = b]
           meta == [held |-> held, tracked |-> T]
<1>2. /\ held \in [Slots -> Payloads \cup {Absent}] /\ held[s] = b
      /\ \A t \in Slots \ {s} : held[t] = Current.held[t]
  BY <1>1
<1> HIDE DEF held
<1>3. meta \in Meta /\ meta.held = held /\ meta.tracked = T
  BY <1>2, MetaFields
<1> HIDE DEF meta
<1>4. Write(meta, LevelOf[s])
  BY DEF meta, held
<1>5. /\ journal' \in Seq(Meta) /\ journal' # <<>>
      /\ Current' = meta /\ meta \in States' /\ States' \subseteq States \cup {meta}
      /\ LevelOf[s] = "strict" => States' = {meta}
  BY <1>3, <1>4, WriteStates
<1>6. \A t \in Slots : meta.held[t] \notin meta.tracked
  BY <1>2, <1>3
<1>7. HeldUntracked'
  BY <1>5, <1>6 DEF HeldUntracked
<1>8. ASSUME NEW m \in States', NEW t \in Slots
      PROVE  (t = s /\ m.held[t] = b) \/ \E k \in States : m.held[t] = k.held[t]
  <2>1. CASE m \in States
    BY <2>1
  <2>2. CASE m = meta
    BY <1>1, <1>2, <1>3, <2>2
  <2> QED BY <1>5, <2>1, <2>2
<1> QED BY <1>2, <1>3, <1>5, <1>7, <1>8 DEF RowMoves

\* A row whose payload is another slot's has none.
LEMMA OtherHeld ==
    ASSUME PowerInv, NEW s \in Slots, NEW t \in Slots, s # t, NEW b \in Payloads, Owns(s, b)
    PROVE  \A m \in States : m.held[t] # b
BY DEF PowerInv, OneOwner, Owns

\* putObject and putPart: the row goes from the old payload to the new one.
LEMMA PublishPower ==
    ASSUME PowerInv, NEW s \in Slots, Publish(s)
    PROVE  PowerTyped' /\ OneOwner' /\ FlushedFiles' /\ HeldUntracked' /\ WrittenFresh' /\ StrictKept'
<1>1. PICK b, old : b = work[s].blob /\ old = Current.held[s]
  OBVIOUS
<1> DEFINE T == (Current.tracked \ {b}) \cup Owed(old)
           step == IF old = Absent THEN "answer" ELSE "unlink"
<1>2. /\ work[s].step = "publish" /\ power = "on"
      /\ Write([held |-> [Current.held EXCEPT ![s] = b], tracked |-> T], LevelOf[s])
      /\ work' = [work EXCEPT ![s].step = step, ![s].old = old]
      /\ tree' = tree /\ removed' = removed /\ promised' = promised /\ drawn' = drawn
      /\ power' = power /\ lost' = lost
  BY <1>1 DEF Publish, Doing
<1>3. b \in Payloads /\ b \in promised[s] /\ \A m \in States : m.held[s] # b
  BY <1>1, <1>2 DEF PowerInv, WrittenFresh
<1>4. work[s] \in Tasks
  BY <1>2, AtTask DEF PowerInv
<1>5. Current \in Meta /\ Current \in States /\ old \in Payloads \cup {Absent} /\ old # b
  BY <1>1, <1>3, JournalStates DEF PowerInv, Meta
<1>6. T \in SUBSET Payloads /\ b \notin T
  BY <1>5 DEF Meta, Owed
<1>7. ASSUME NEW t \in Slots \ {s}
      PROVE  Current.held[t] \notin T
  <2>1. Current.held[t] \notin Current.tracked
    BY <1>5 DEF PowerInv, HeldUntracked
  <2>2. old \in Payloads => Current.held[t] # old
    <3>1. Owns(s, old)
      BY <1>1, <1>5 DEF Owns
    <3> QED BY <1>5, <3>1, OtherHeld
  <2> QED BY <1>5, <2>1, <2>2 DEF Owed
<1>8. /\ journal' \in Seq(Meta) /\ journal' # <<>> /\ HeldUntracked'
      /\ Current' \in States' /\ Current'.held[s] = b
      /\ \A t \in Slots \ {s} : Current'.held[t] = Current.held[t]
      /\ \A m \in States' : \A t \in Slots :
            (t = s /\ m.held[t] = b) \/ \E k \in States : m.held[t] = k.held[t]
      /\ Strict(s) => States' = {Current'}
  <2>1. PowerTyped /\ HeldUntracked /\ s \in Slots /\ b \in Payloads \cup {Absent}
    BY <1>3 DEF PowerInv
  <2>2. PICK U : U = T
    OBVIOUS
  <2>3. /\ U \in SUBSET Payloads /\ b \notin U
        /\ \A t \in Slots \ {s} : Current.held[t] \notin U
        /\ Write([held |-> [Current.held EXCEPT ![s] = b], tracked |-> U], LevelOf[s])
    BY ONLY <1>2, <1>6, <1>7, <2>2
  <2>4. RowMoves(s, b)
    BY ONLY <2>1, <2>3, RowStep
  <2> QED BY <2>4 DEF RowMoves, Strict
<1>9. /\ work' \in [Slots -> Tasks \cup {Idle}] /\ work'[s].step = step
      /\ work'[s].blob = b /\ work'[s].old = old /\ \A t \in Slots \ {s} : work'[t] = work[t]
  <2> DEFINE i == [work[s] EXCEPT !.step = step]
             j == [i EXCEPT !.old = old]
  <2>1. step \in {"publish", "unlink", "forget", "answer"}
    OBVIOUS
  <2>2. i \in Tasks /\ i.step = step /\ i.blob = b
    BY <1>1, <1>4, <2>1, TaskStep
  <2>3. work' = [work EXCEPT ![s] = j]
    BY <1>2 DEF PowerInv, PowerTyped
  <2> HIDE DEF i
  <2>4. j \in Tasks /\ j.step = step /\ j.blob = b /\ j.old = old
    BY <1>5, <2>2, TaskOld
  <2> HIDE DEF j
  <2> QED BY <2>3, <2>4 DEF PowerInv, PowerTyped
<1>10. PowerTyped'
  BY <1>2, <1>8, <1>9 DEF PowerInv, PowerTyped
<1>11. Owns(s, b) /\ Owns(s, old) /\ work[s].step # "idle"
  BY <1>1, <1>2, <1>5 DEF Owns
<1>12. Shrinks
  BY <1>8, <1>9, <1>11 DEF Shrinks, Owns
<1>13. OneOwner' /\ FlushedFiles'
  <2>1. OneOwner /\ FlushedFiles
    BY DEF PowerInv
  <2>2. OneOwner'
    BY <1>2, <1>12, <2>1, ShrinkOwner
  <2> QED BY <1>2, <1>12, <2>1, <2>2, ShrinkFlushed
<1>14. WrittenFresh'
  <2>1. ASSUME NEW t \in Slots, work'[t].step \in {"commit", "publish"}
        PROVE  /\ work'[t].blob \in Payloads /\ work'[t].blob \in promised'[t]
               /\ \A m \in States' : m.held[t] # work'[t].blob
    <3>1. t # s
      BY <1>9, <2>1
    <3>2. work'[t] = work[t]
      BY <1>9, <3>1
    <3>3. /\ work[t].blob \in Payloads /\ work[t].blob \in promised[t]
          /\ \A m \in States : m.held[t] # work[t].blob
      BY <2>1, <3>2 DEF PowerInv, WrittenFresh
    <3>4. \A m \in States' : m.held[t] # work[t].blob
      BY <1>8, <3>1, <3>3
    <3> QED BY <1>2, <3>2, <3>3, <3>4
  <2> QED BY <2>1 DEF WrittenFresh
<1>15. StrictKept'
  <2>1. ASSUME NEW t \in Slots, Strict(t)
        PROVE  /\ Current'.held[t] \in promised'[t]
               /\ \A m \in States' : m.held[t] = Current'.held[t]
               /\ Current'.held[t] \notin lost' \cup {Absent} =>
                     Current'.held[t] \in DOMAIN tree' /\ tree'[Current'.held[t]].named
               /\ work'[t].step = "publish" =>
                     work'[t].blob \in DOMAIN tree' /\ tree'[work'[t].blob].named
               /\ work'[t].step = "unlink" => work'[t].old # Current'.held[t]
    <3>1. CASE t = s
      <4>1. b \in DOMAIN tree /\ tree[b].named
        BY <1>1, <1>2, <2>1, <3>1 DEF PowerInv, StrictKept
      <4> QED BY <1>2, <1>3, <1>5, <1>8, <1>9, <2>1, <3>1, <4>1
    <3>2. CASE t # s
      <4>1. Current'.held[t] = Current.held[t] /\ work'[t] = work[t]
        BY <1>8, <1>9, <3>2
      <4>2. \A m \in States' : m.held[t] = Current.held[t]
        BY <1>8, <2>1, <3>2 DEF PowerInv, StrictKept
      <4> QED BY <1>2, <2>1, <4>1, <4>2 DEF PowerInv, StrictKept
    <3> QED BY <3>1, <3>2
  <2> QED BY <2>1 DEF StrictKept
<1> QED BY <1>8, <1>10, <1>13, <1>14, <1>15

\* deleteObject: the row goes, and its payload with it.
LEMMA BeginDeletePower ==
    ASSUME PowerInv, NEW s \in Slots, BeginDelete(s)
    PROVE  PowerTyped' /\ OneOwner' /\ FlushedFiles' /\ HeldUntracked' /\ WrittenFresh' /\ StrictKept'
<1>1. PICK old : old = Current.held[s]
  OBVIOUS
<1> DEFINE T == Current.tracked \cup {old}
           j == [step |-> "unlink", blob |-> Absent, old |-> old]
<1>2. /\ work[s].step = "idle" /\ power = "on" /\ old # Absent
      /\ Write([held |-> [Current.held EXCEPT ![s] = Absent], tracked |-> T], LevelOf[s])
      /\ work' = [work EXCEPT ![s] = j]
      /\ promised' = [promised EXCEPT ![s] = promised[s] \cup {Absent}]
      /\ tree' = tree /\ removed' = removed /\ lost' = lost /\ drawn' = drawn /\ power' = power
  BY <1>1 DEF BeginDelete, Doing
<1>3. Current \in Meta /\ Current \in States /\ old \in Payloads
  BY <1>1, <1>2, JournalStates DEF PowerInv, Meta
<1>4. T \in SUBSET Payloads /\ Absent \notin T
  BY <1>3, PowerConstants DEF Meta, Absent
<1>5. Owns(s, old)
  BY <1>1, <1>3 DEF Owns
<1>6. ASSUME NEW t \in Slots \ {s}
      PROVE  Current.held[t] \notin T
  <2>1. Current.held[t] \notin Current.tracked
    BY <1>3 DEF PowerInv, HeldUntracked
  <2>2. Current.held[t] # old
    BY <1>3, <1>5, OtherHeld
  <2> QED BY <2>1, <2>2
<1>7. /\ journal' \in Seq(Meta) /\ journal' # <<>> /\ HeldUntracked'
      /\ Current' \in States' /\ Current'.held[s] = Absent
      /\ \A t \in Slots \ {s} : Current'.held[t] = Current.held[t]
      /\ \A m \in States' : \A t \in Slots :
            (t = s /\ m.held[t] = Absent) \/ \E k \in States : m.held[t] = k.held[t]
      /\ Strict(s) => States' = {Current'}
  <2>1. PowerTyped /\ HeldUntracked /\ s \in Slots /\ Absent \in Payloads \cup {Absent}
    BY <1>4 DEF PowerInv
  <2>2. PICK U : U = T
    OBVIOUS
  <2>3. /\ U \in SUBSET Payloads /\ Absent \notin U
        /\ \A t \in Slots \ {s} : Current.held[t] \notin U
        /\ Write([held |-> [Current.held EXCEPT ![s] = Absent], tracked |-> U], LevelOf[s])
    BY ONLY <1>2, <1>4, <1>6, <2>2
  <2>4. RowMoves(s, Absent)
    BY ONLY <2>1, <2>3, RowStep
  <2> QED BY <2>4 DEF RowMoves, Strict
<1>8. /\ work' \in [Slots -> Tasks \cup {Idle}] /\ work'[s].step = "unlink"
      /\ work'[s].blob = Absent /\ work'[s].old = old /\ \A t \in Slots \ {s} : work'[t] = work[t]
  <2>1. j \in Tasks /\ j.step = "unlink" /\ j.blob = Absent /\ j.old = old
    BY <1>3 DEF Tasks
  <2> HIDE DEF j
  <2> QED BY <1>2, <2>1 DEF PowerInv, PowerTyped
<1>9. /\ promised' \in [Slots -> SUBSET (Payloads \cup {Absent})] /\ Absent \in promised'[s]
      /\ \A t \in Slots \ {s} : promised'[t] = promised[t]
  BY <1>2 DEF PowerInv, PowerTyped
<1>10. PowerTyped'
  BY <1>2, <1>7, <1>8, <1>9 DEF PowerInv, PowerTyped
<1>11. Shrinks
  <2>1. \A b \in Payloads : b # Absent
    BY PowerConstants DEF Absent
  <2> QED BY <1>5, <1>7, <1>8, <2>1 DEF Shrinks, Owns
<1>12. OneOwner' /\ FlushedFiles'
  <2>1. OneOwner /\ FlushedFiles
    BY DEF PowerInv
  <2>2. OneOwner'
    BY <1>2, <1>11, <2>1, ShrinkOwner
  <2> QED BY <1>2, <1>11, <2>1, <2>2, ShrinkFlushed
<1>13. WrittenFresh'
  <2>1. ASSUME NEW t \in Slots, work'[t].step \in {"commit", "publish"}
        PROVE  /\ work'[t].blob \in Payloads /\ work'[t].blob \in promised'[t]
               /\ \A m \in States' : m.held[t] # work'[t].blob
    <3>1. t # s
      BY <1>8, <2>1
    <3>2. work'[t] = work[t] /\ promised'[t] = promised[t]
      BY <1>8, <1>9, <3>1
    <3>3. /\ work[t].blob \in Payloads /\ work[t].blob \in promised[t]
          /\ \A m \in States : m.held[t] # work[t].blob
      BY <2>1, <3>2 DEF PowerInv, WrittenFresh
    <3>4. \A m \in States' : m.held[t] # work[t].blob
      BY <1>7, <3>1, <3>3
    <3> QED BY <3>2, <3>3, <3>4
  <2> QED BY <2>1 DEF WrittenFresh
<1>14. StrictKept'
  <2>1. ASSUME NEW t \in Slots, Strict(t)
        PROVE  /\ Current'.held[t] \in promised'[t]
               /\ \A m \in States' : m.held[t] = Current'.held[t]
               /\ Current'.held[t] \notin lost' \cup {Absent} =>
                     Current'.held[t] \in DOMAIN tree' /\ tree'[Current'.held[t]].named
               /\ work'[t].step = "publish" =>
                     work'[t].blob \in DOMAIN tree' /\ tree'[work'[t].blob].named
               /\ work'[t].step = "unlink" => work'[t].old # Current'.held[t]
    <3>1. CASE t = s
      BY <1>2, <1>7, <1>8, <1>9, <2>1, <3>1
    <3>2. CASE t # s
      <4>1. /\ Current'.held[t] = Current.held[t] /\ work'[t] = work[t]
            /\ promised'[t] = promised[t]
        BY <1>7, <1>8, <1>9, <3>2
      <4>2. \A m \in States' : m.held[t] = Current.held[t]
        BY <1>7, <2>1, <3>2 DEF PowerInv, StrictKept
      <4> QED BY <1>2, <2>1, <4>1, <4>2 DEF PowerInv, StrictKept
    <3> QED BY <3>1, <3>2
  <2> QED BY <2>1 DEF StrictKept
<1> QED BY <1>7, <1>10, <1>12, <1>13, <1>14

\* reclaimNow unlinks: the file is no longer named by a row of a strict slot.
LEMMA UnlinkPower ==
    ASSUME PowerInv, NEW s \in Slots, Unlink(s)
    PROVE  PowerTyped' /\ OneOwner' /\ FlushedFiles' /\ HeldUntracked' /\ WrittenFresh' /\ StrictKept'
<1>1. PICK old : old = work[s].old
  OBVIOUS
<1> DEFINE kept == DOMAIN tree \ {old}
           gone == DOMAIN tree \cap {old}
<1>2. /\ work[s].step = "unlink" /\ power = "on"
      /\ work' = [work EXCEPT ![s].step = "forget"]
      /\ tree' = Restrict(tree, kept) /\ removed' = Joined(Restrict(tree, gone), removed)
      /\ journal' = journal /\ promised' = promised /\ drawn' = drawn /\ power' = power
      /\ lost' = lost
  BY <1>1 DEF Unlink, Doing, Become
<1>3. work[s] \in Tasks
  BY <1>2, AtTask DEF PowerInv
<1>4. Files(tree) /\ Files(removed)
  BY DEF PowerInv, PowerTyped
<1>5. Files(tree') /\ DOMAIN tree' = kept /\ \A b \in kept : tree'[b] = tree[b]
  BY <1>2, <1>4, RestrictedFiles
<1>6. /\ Files(removed') /\ DOMAIN removed' = gone \cup DOMAIN removed
      /\ \A b \in gone : removed'[b] = tree[b]
      /\ \A b \in DOMAIN removed \ gone : removed'[b] = removed[b]
  <2> DEFINE f == Restrict(tree, gone)
  <2>1. Files(f) /\ DOMAIN f = gone /\ \A b \in gone : f[b] = tree[b]
    BY <1>4, RestrictedFiles
  <2> HIDE DEF f
  <2>2. /\ Files(Joined(f, removed)) /\ DOMAIN Joined(f, removed) = DOMAIN f \cup DOMAIN removed
        /\ \A b \in DOMAIN f : Joined(f, removed)[b] = f[b]
        /\ \A b \in DOMAIN removed \ DOMAIN f : Joined(f, removed)[b] = removed[b]
    BY <1>4, <2>1, JoinedFiles
  <2>3. removed' = Joined(f, removed)
    BY <1>2 DEF f
  <2> HIDE DEF gone
  <2> QED BY <2>1, <2>2, <2>3
<1>7. /\ work' \in [Slots -> Tasks \cup {Idle}] /\ work'[s].step = "forget"
      /\ work'[s].blob = work[s].blob /\ work'[s].old = work[s].old
      /\ \A t \in Slots \ {s} : work'[t] = work[t]
  <2> DEFINE j == [work[s] EXCEPT !.step = "forget"]
  <2>1. j \in Tasks /\ j.step = "forget" /\ j.blob = work[s].blob /\ j.old = work[s].old
    BY <1>3, TaskStep
  <2>2. work' = [work EXCEPT ![s] = j]
    BY <1>2
  <2> HIDE DEF j
  <2> QED BY <2>1, <2>2 DEF PowerInv, PowerTyped
<1>8. States' = States /\ Current' = Current
  BY <1>2 DEF States, Current
<1>9. PowerTyped'
  BY <1>2, <1>5, <1>6, <1>7, <1>8 DEF PowerInv, PowerTyped
<1>10. Shrinks
  BY <1>2, <1>7, <1>8 DEF Shrinks, Owns
<1>11. OneOwner' /\ FlushedFiles'
  <2>1. OneOwner /\ FlushedFiles
    BY DEF PowerInv
  <2>2. OneOwner'
    BY <1>2, <1>5, <1>6, <1>10, <2>1, ShrinkOwner
  <2> QED BY <1>5, <1>6, <1>10, <2>1, <2>2, ShrinkFlushed
<1>12. HeldUntracked' /\ WrittenFresh'
  BY <1>2, <1>7, <1>8 DEF PowerInv, HeldUntracked, WrittenFresh
<1>13. StrictKept'
  <2>1. old \in Payloads => Owns(s, old)
    BY <1>1, <1>2 DEF Owns
  <2>2. ASSUME NEW t \in Slots, NEW b \in Payloads, t # s, Owns(t, b)
        PROVE  b # old
    BY <2>1, <2>2 DEF PowerInv, OneOwner
  <2>3. ASSUME NEW t \in Slots, Strict(t), Current.held[t] \notin lost \cup {Absent}
        PROVE  Current.held[t] \in DOMAIN tree' /\ tree'[Current.held[t]].named
    <3>1. Current.held[t] \in DOMAIN tree /\ tree[Current.held[t]].named
      BY <2>3 DEF PowerInv, StrictKept
    <3>2. Current.held[t] # old
      <4>1. CASE t = s
        BY <1>1, <1>2, <2>3, <4>1 DEF PowerInv, StrictKept
      <4>2. CASE t # s
        <5>1. Current.held[t] \in Payloads
          BY <1>4, <3>1 DEF Files
        <5>2. Owns(t, Current.held[t])
          BY JournalStates DEF Owns, PowerInv
        <5> QED BY <2>2, <4>2, <5>1, <5>2
      <4> QED BY <4>1, <4>2
    <3> QED BY <1>5, <3>1, <3>2
  <2>4. ASSUME NEW t \in Slots, Strict(t), work'[t].step = "publish"
        PROVE  work'[t].blob \in DOMAIN tree' /\ tree'[work'[t].blob].named
    <3>1. t # s /\ work'[t] = work[t]
      BY <1>7, <2>4
    <3>2. /\ work[t].blob \in DOMAIN tree /\ tree[work[t].blob].named
          /\ work[t].blob \in Payloads /\ Owns(t, work[t].blob)
      BY <1>4, <2>4, <3>1 DEF PowerInv, StrictKept, Owns, Files
    <3>3. work[t].blob # old
      BY <2>2, <3>1, <3>2
    <3> QED BY <1>5, <3>1, <3>2, <3>3
  <2>5. ASSUME NEW t \in Slots, Strict(t)
        PROVE  /\ Current'.held[t] \in promised'[t]
               /\ \A m \in States' : m.held[t] = Current'.held[t]
               /\ work'[t].step = "unlink" => work'[t].old # Current'.held[t]
    <3>1. /\ Current.held[t] \in promised[t]
          /\ \A m \in States : m.held[t] = Current.held[t]
          /\ work[t].step = "unlink" => work[t].old # Current.held[t]
      BY <2>5 DEF PowerInv, StrictKept
    <3>2. work'[t].step = "unlink" => work'[t] = work[t]
      BY <1>7
    <3> QED BY <1>2, <1>8, <3>1, <3>2
  <2>6. ASSUME NEW t \in Slots, Strict(t), Current'.held[t] \notin lost' \cup {Absent}
        PROVE  Current'.held[t] \in DOMAIN tree' /\ tree'[Current'.held[t]].named
    BY <1>2, <1>8, <2>3, <2>6
  <2> QED BY <2>4, <2>5, <2>6 DEF StrictKept
<1> QED BY <1>9, <1>11, <1>12, <1>13

\* forgetOrphans: only the record goes.
LEMMA ForgetPower ==
    ASSUME PowerInv, NEW s \in Slots, ForgetOrphans(s)
    PROVE  PowerTyped' /\ OneOwner' /\ FlushedFiles' /\ HeldUntracked' /\ WrittenFresh' /\ StrictKept'
<1> DEFINE T == Current.tracked \ {work[s].old}
<1>1. /\ work[s].step = "forget" /\ power = "on"
      /\ work' = [work EXCEPT ![s].step = "answer"]
      /\ Write([Current EXCEPT !.tracked = T], ServerLevel)
      /\ tree' = tree /\ removed' = removed /\ promised' = promised /\ drawn' = drawn
      /\ power' = power /\ lost' = lost
  BY DEF ForgetOrphans, Doing, Become
<1>2. work[s] \in Tasks
  BY <1>1, AtTask DEF PowerInv
<1>3. Current \in Meta /\ Current \in States
  BY JournalStates DEF PowerInv
<1>4. T \in SUBSET Payloads /\ \A t \in Slots : Current.held[t] \notin T
  BY <1>3 DEF PowerInv, HeldUntracked, Meta
<1>5. /\ journal' \in Seq(Meta) /\ journal' # <<>> /\ HeldUntracked'
      /\ Current' \in States' /\ Current'.held = Current.held
      /\ \A m \in States' : \E k \in States : m.held = k.held
  BY <1>1, <1>4, TrackStep DEF PowerInv
<1>6. /\ work' \in [Slots -> Tasks \cup {Idle}] /\ work'[s].step = "answer"
      /\ work'[s].blob = work[s].blob /\ work'[s].old = work[s].old
      /\ \A t \in Slots \ {s} : work'[t] = work[t]
  <2> DEFINE j == [work[s] EXCEPT !.step = "answer"]
  <2>1. j \in Tasks /\ j.step = "answer" /\ j.blob = work[s].blob /\ j.old = work[s].old
    BY <1>2, TaskStep
  <2>2. work' = [work EXCEPT ![s] = j]
    BY <1>1
  <2> HIDE DEF j
  <2> QED BY <2>1, <2>2 DEF PowerInv, PowerTyped
<1>7. PowerTyped'
  BY <1>1, <1>5, <1>6 DEF PowerInv, PowerTyped
<1>8. Shrinks
  BY <1>1, <1>5, <1>6 DEF Shrinks, Owns
<1>9. OneOwner' /\ FlushedFiles'
  <2>1. OneOwner /\ FlushedFiles
    BY DEF PowerInv
  <2>2. OneOwner'
    BY <1>1, <1>8, <2>1, ShrinkOwner
  <2> QED BY <1>1, <1>8, <2>1, <2>2, ShrinkFlushed
<1>10. WrittenFresh'
  BY <1>1, <1>5, <1>6 DEF PowerInv, WrittenFresh
<1>11. StrictKept'
  BY <1>1, <1>5, <1>6 DEF PowerInv, StrictKept
<1> QED BY <1>5, <1>7, <1>9, <1>10, <1>11

\* The answer to the client is the promise.
LEMMA AcknowledgePower ==
    ASSUME PowerInv, NEW s \in Slots, Acknowledge(s)
    PROVE  PowerTyped' /\ OneOwner' /\ FlushedFiles' /\ HeldUntracked' /\ WrittenFresh' /\ StrictKept'
<1>1. /\ work[s].step = "answer" /\ power = "on"
      /\ work' = [work EXCEPT ![s] = Idle]
      /\ promised' = [promised EXCEPT ![s] = {Current.held[s]}]
      /\ journal' = journal /\ tree' = tree /\ removed' = removed /\ drawn' = drawn
      /\ power' = power /\ lost' = lost
  BY DEF Acknowledge, Doing
<1>2. Current \in Meta /\ Current.held[s] \in Payloads \cup {Absent}
  BY JournalStates DEF PowerInv, Meta
<1>3. States' = States /\ Current' = Current
  BY <1>1 DEF States, Current
<1>4. /\ work' \in [Slots -> Tasks \cup {Idle}] /\ work'[s].step = "idle"
      /\ \A t \in Slots \ {s} : work'[t] = work[t]
  BY <1>1 DEF PowerInv, PowerTyped, Idle
<1>5. /\ promised' \in [Slots -> SUBSET (Payloads \cup {Absent})]
      /\ promised'[s] = {Current.held[s]} /\ \A t \in Slots \ {s} : promised'[t] = promised[t]
  BY <1>1, <1>2 DEF PowerInv, PowerTyped
<1>6. PowerTyped'
  BY <1>1, <1>3, <1>4, <1>5 DEF PowerInv, PowerTyped
<1>7. Shrinks
  BY <1>3, <1>4 DEF Shrinks, Owns
<1>8. OneOwner' /\ FlushedFiles'
  <2>1. OneOwner /\ FlushedFiles
    BY DEF PowerInv
  <2>2. OneOwner'
    BY <1>1, <1>7, <2>1, ShrinkOwner
  <2> QED BY <1>1, <1>7, <2>1, <2>2, ShrinkFlushed
<1>9. HeldUntracked'
  BY <1>3 DEF PowerInv, HeldUntracked
<1>10. WrittenFresh'
  BY <1>3, <1>4, <1>5 DEF PowerInv, WrittenFresh
<1>11. StrictKept'
  BY <1>1, <1>3, <1>4, <1>5 DEF PowerInv, StrictKept
<1> QED BY <1>6, <1>8, <1>9, <1>10, <1>11

\* What a cut leaves of a file.
LEMMA FoundFile ==
    ASSUME NEW file \in File, NEW found \in Found(file)
    PROVE  /\ found \in File /\ found.flushed /\ found.named
           /\ file.flushed => found.content = file.content
BY DEF Found, File

\* What a cut leaves of the files.
LEMMA SurvivingFiles ==
    ASSUME NEW found, Files(found), NEW sure, NEW f \in Survivors(found, sure)
    PROVE  /\ Files(f) /\ sure \subseteq DOMAIN f /\ DOMAIN f \subseteq DOMAIN found
           /\ \A b \in DOMAIN f : f[b] \in Found(found[b])
<1>1. PICK kept \in SUBSET DOMAIN found :
         /\ sure \subseteq kept
         /\ f \in [kept -> UNION {Found(found[b]) : b \in kept}]
         /\ \A b \in kept : f[b] \in Found(found[b])
  BY DEF Survivors
<1>2. DOMAIN f = kept /\ f = [b \in kept |-> f[b]]
  BY <1>1
<1>3. \A b \in kept : found[b] \in File
  BY <1>1 DEF Files
<1>4. \A b \in kept : f[b] \in File
  BY <1>1, <1>3, FoundFile
<1>5. Files(f)
  BY <1>1, <1>2, <1>4 DEF Files
<1> QED BY <1>1, <1>2, <1>5

\* A power cut: any of the states, and of the files in the directories that are
\* left what was flushed for sure.
LEMMA CutPower ==
    ASSUME PowerInv, PowerCut
    PROVE  PowerTyped' /\ OneOwner' /\ FlushedFiles' /\ HeldUntracked' /\ WrittenFresh' /\ StrictKept'
<1>0. PICK gone \in SUBSET Shards :
         LET fs == Joined(tree, removed)
             l == {b \in DOMAIN fs : ShardOf[b] \notin gone}
         IN  /\ tree' \in Survivors(Restrict(fs, l), {b \in DOMAIN tree \cap l : tree[b].named})
             /\ lost' = lost \cup (DOMAIN tree \ l)
  BY DEF PowerCut
<1> DEFINE both == Joined(tree, removed)
           left == {b \in DOMAIN both : ShardOf[b] \notin gone}
           found == Restrict(both, left)
           sure == {b \in DOMAIN tree \cap left : tree[b].named}
<1>1. PICK n \in DOMAIN journal : journal' = <<journal[n]>>
  BY DEF PowerCut
<1>2. /\ tree' \in Survivors(found, sure) /\ removed' = <<>> /\ work' = [s \in Slots |-> Idle]
      /\ power' = "off" /\ promised' = promised /\ drawn' = drawn
      /\ lost' = lost \cup (DOMAIN tree \ left)
  BY <1>0 DEF PowerCut
<1>3. PICK m : m = journal[n]
  OBVIOUS
<1>4. m \in States /\ m \in Meta
  BY <1>3, JournalStates DEF PowerInv, States
<1>5. journal' \in Seq(Meta) /\ journal' # <<>> /\ States' = {m} /\ Current' = m
  <2>1. journal' = <<m>>
    BY <1>1, <1>3
  <2>2. Len(journal') = 1 /\ journal'[1] = m /\ DOMAIN journal' = {1}
    BY <2>1
  <2> QED BY <1>4, <2>1, <2>2 DEF States, Current
<1>6. Files(tree) /\ Files(removed)
  BY DEF PowerInv, PowerTyped
<1>7. /\ Files(found) /\ DOMAIN found = left /\ left \subseteq DOMAIN tree \cup DOMAIN removed
      /\ \A b \in left \cap DOMAIN tree : found[b] = tree[b]
      /\ \A b \in left \ DOMAIN tree : b \in DOMAIN removed /\ found[b] = removed[b]
  <2>1. /\ Files(both) /\ DOMAIN both = DOMAIN tree \cup DOMAIN removed
        /\ \A b \in DOMAIN tree : both[b] = tree[b]
        /\ \A b \in DOMAIN removed \ DOMAIN tree : both[b] = removed[b]
    BY <1>6, JoinedFiles
  <2>2. left \subseteq DOMAIN both
    OBVIOUS
  <2> HIDE DEF both, left
  <2>3. Files(found) /\ DOMAIN found = left /\ \A b \in left : found[b] = both[b]
    BY <2>1, <2>2, RestrictedFiles
  <2> HIDE DEF found
  <2> QED BY <2>1, <2>2, <2>3
<1> HIDE DEF both, left, found, sure
<1>8. /\ Files(tree') /\ sure \subseteq DOMAIN tree' /\ DOMAIN tree' \subseteq DOMAIN found
      /\ \A b \in DOMAIN tree' : tree'[b] \in Found(found[b])
  BY <1>2, <1>7, SurvivingFiles
<1>9. ASSUME NEW b \in DOMAIN tree'
      PROVE  /\ tree'[b].flushed /\ tree'[b].named
             /\ found[b].flushed => tree'[b].content = found[b].content
  <2>1. found[b] \in File
    BY <1>7, <1>8 DEF Files
  <2> QED BY <1>8, <2>1, FoundFile
<1>10. Files(removed') /\ DOMAIN removed' = {}
  BY <1>2 DEF Files
<1>11. work' \in [Slots -> Tasks \cup {Idle}] /\ \A s \in Slots : work'[s] = Idle /\ work'[s].step = "idle"
  BY <1>2 DEF Idle
<1>12. PowerTyped'
  BY <1>2, <1>5, <1>8, <1>10, <1>11 DEF PowerInv, PowerTyped
<1>13. Shrinks
  BY <1>4, <1>5, <1>11 DEF Shrinks, Owns
<1>14. OneOwner'
  <2>1. OneOwner
    BY DEF PowerInv
  <2>2. (DOMAIN tree \cup DOMAIN removed)' \subseteq DOMAIN tree \cup DOMAIN removed
    BY <1>7, <1>8, <1>10
  <2> QED BY <1>2, <1>13, <2>1, <2>2, ShrinkOwner
<1>15. FlushedFiles'
  <2>1. ASSUME NEW s \in Slots, LevelOf[s] # "none", NEW b \in Payloads, Owns(s, b)', b \in DOMAIN tree'
        PROVE  Sound(tree'[b])
    <3>1. Owns(s, b)
      BY <1>13, <2>1 DEF Shrinks
    <3>2. Sound(found[b])
      BY <1>7, <1>8, <2>1, <3>1 DEF PowerInv, FlushedFiles
    <3> QED BY <1>9, <2>1, <3>2 DEF Sound
  <2> QED BY <1>10, <2>1 DEF FlushedFiles
<1>16. HeldUntracked' /\ WrittenFresh'
  BY <1>4, <1>5, <1>11 DEF PowerInv, HeldUntracked, WrittenFresh
<1>17. StrictKept'
  <2>1. ASSUME NEW s \in Slots, Strict(s)
        PROVE  /\ m.held[s] \in promised[s]
               /\ m.held[s] \notin lost' \cup {Absent} =>
                     m.held[s] \in DOMAIN tree' /\ tree'[m.held[s]].named
    <3>1. m.held[s] = Current.held[s] /\ m.held[s] \in promised[s]
      BY <1>4, <2>1 DEF PowerInv, StrictKept
    <3>2. ASSUME m.held[s] \notin lost' \cup {Absent}
          PROVE  m.held[s] \in DOMAIN tree' /\ tree'[m.held[s]].named
      <4>1. m.held[s] \in DOMAIN tree /\ tree[m.held[s]].named
        BY <1>2, <2>1, <3>1, <3>2 DEF PowerInv, StrictKept
      <4>2. m.held[s] \in left
        BY <1>2, <3>2, <4>1
      <4>3. m.held[s] \in sure
        BY <4>1, <4>2 DEF sure
      <4> QED BY <1>8, <1>9, <4>3
    <3> QED BY <3>1, <3>2
  <2> QED BY <1>2, <1>5, <1>11, <2>1 DEF StrictKept
<1> QED BY <1>12, <1>14, <1>15, <1>16, <1>17

\* recover: what is tracked goes, which no row names.
LEMMA RestartPower ==
    ASSUME PowerInv, Restart
    PROVE  PowerTyped' /\ OneOwner' /\ FlushedFiles' /\ HeldUntracked' /\ WrittenFresh' /\ StrictKept'
<1> DEFINE kept == DOMAIN tree \ Current.tracked
           gone == DOMAIN tree \cap Current.tracked
<1>1. /\ power = "off" /\ power' = "on"
      /\ tree' = Restrict(tree, kept) /\ removed' = Restrict(tree, gone)
      /\ Write([Current EXCEPT !.tracked = {}], ServerLevel)
      /\ promised' = [s \in Slots |-> {Current.held[s]}]
      /\ work' = work /\ drawn' = drawn /\ lost' = lost
  BY DEF Restart
<1>2. Files(tree) /\ Files(removed)
  BY DEF PowerInv, PowerTyped
<1>3. /\ Files(tree') /\ DOMAIN tree' = kept /\ \A b \in kept : tree'[b] = tree[b]
      /\ Files(removed') /\ DOMAIN removed' = gone /\ \A b \in gone : removed'[b] = tree[b]
  BY <1>1, <1>2, RestrictedFiles
<1>4. Current \in Meta /\ Current \in States
  BY JournalStates DEF PowerInv
<1>5. /\ journal' \in Seq(Meta) /\ journal' # <<>> /\ HeldUntracked'
      /\ Current' \in States' /\ Current'.held = Current.held
      /\ \A m \in States' : \E k \in States : m.held = k.held
  <2>1. PowerTyped /\ HeldUntracked /\ \A s \in Slots : Current.held[s] \notin {}
    BY DEF PowerInv
  <2>2. {} \in SUBSET Payloads
    OBVIOUS
  <2>3. PICK T : T = {}
    OBVIOUS
  <2>4. Write([Current EXCEPT !.tracked = T], ServerLevel)
    BY <1>1, <2>3
  <2> QED BY <2>1, <2>2, <2>3, <2>4, TrackStep
<1>6. States = {Current} /\ \A s \in Slots : work[s] = Idle /\ work[s].step = "idle"
  BY <1>1 DEF PowerInv, PowerTyped, Idle
<1>7. \A s \in Slots : Current.held[s] \in Payloads \cup {Absent}
  BY <1>4 DEF Meta
<1>8. /\ promised' \in [Slots -> SUBSET (Payloads \cup {Absent})]
      /\ \A s \in Slots : promised'[s] = {Current.held[s]}
  BY <1>1, <1>7
<1>9. PowerTyped'
  BY <1>1, <1>3, <1>5, <1>8 DEF PowerInv, PowerTyped
<1>10. Shrinks
  BY <1>1, <1>5 DEF Shrinks, Owns
<1>11. OneOwner' /\ FlushedFiles'
  <2>1. OneOwner /\ FlushedFiles
    BY DEF PowerInv
  <2>2. OneOwner'
    BY <1>1, <1>3, <1>10, <2>1, ShrinkOwner
  <2> QED BY <1>3, <1>10, <2>1, <2>2, ShrinkFlushed
<1>12. WrittenFresh'
  BY <1>1, <1>6 DEF WrittenFresh
<1>13. StrictKept'
  <2>1. \A s \in Slots : \A m \in States' : m.held[s] = Current'.held[s]
    BY <1>5, <1>6
  <2>2. ASSUME NEW s \in Slots, Strict(s), Current.held[s] \notin lost \cup {Absent}
        PROVE  Current.held[s] \in DOMAIN tree' /\ tree'[Current.held[s]].named
    <3>1. Current.held[s] \in DOMAIN tree /\ tree[Current.held[s]].named
      BY <2>2 DEF PowerInv, StrictKept
    <3>2. Current.held[s] \notin Current.tracked
      BY <1>4 DEF PowerInv, HeldUntracked
    <3> QED BY <1>3, <3>1, <3>2
  <2> QED BY <1>1, <1>5, <1>6, <1>8, <2>1, <2>2 DEF StrictKept
<1> QED BY <1>5, <1>9, <1>11, <1>12, <1>13

\* A step that leaves the store alone.
LEMMA RestPower ==
    ASSUME PowerInv, UNCHANGED <<journal, tree, removed, lost, work, promised, drawn, power>>
    PROVE  PowerTyped' /\ OneOwner' /\ FlushedFiles' /\ HeldUntracked' /\ WrittenFresh' /\ StrictKept'
<1>1. States' = States /\ Current' = Current
  BY DEF States, Current
<1>2. PowerTyped'
  BY <1>1 DEF PowerInv, PowerTyped
<1>3. Shrinks
  BY <1>1 DEF Shrinks, Owns
<1>4. OneOwner' /\ FlushedFiles'
  <2>1. OneOwner /\ FlushedFiles
    BY DEF PowerInv
  <2>2. OneOwner'
    BY <1>3, <2>1, ShrinkOwner
  <2> QED BY <1>3, <2>1, <2>2, ShrinkFlushed
<1>5. HeldUntracked' /\ WrittenFresh' /\ StrictKept'
  BY <1>1 DEF PowerInv, HeldUntracked, WrittenFresh, StrictKept
<1> QED BY <1>2, <1>4, <1>5

\* The report is of the store as it is: only a stopped store has one, and a
\* start discards it.
LEMMA ReportStep ==
    ASSUME PowerInv, [PowerNext]_powerVars
    PROVE  ReportCurrent'
<1>1. power \in {"on", "off"} /\ ReportCurrent
  BY DEF PowerInv, PowerTyped
<1>2. CASE power = "on" /\ report' = report /\ power' = power
  BY <1>1, <1>2 DEF ReportCurrent
<1>3. CASE report' = NoReport
  BY <1>3 DEF ReportCurrent
<1>4. ASSUME NEW deep \in BOOLEAN, RunFsck(deep)
      PROVE  ReportCurrent'
  <2>1. /\ report' = [run |-> TRUE, deep |-> deep, findings |-> Findings(deep)]
        /\ power = "off" /\ power' = power /\ journal' = journal /\ tree' = tree
    BY <1>4 DEF RunFsck
  <2>3. report'.run /\ report'.deep = deep /\ report'.findings = Findings(deep)
    BY <2>1
  <2>4. Findings(report.deep)' = Findings(deep)
    BY <2>1, <2>3 DEF Findings, Referenced, HasDigest, Current
  <2>5. report'.deep \in BOOLEAN /\ power' # "on"
    BY <2>1, <2>3
  <2> QED BY <2>3, <2>4, <2>5 DEF ReportCurrent
<1>5. CASE UNCHANGED powerVars
  <2>1. UNCHANGED <<power, report, journal, tree>>
    BY <1>5 DEF powerVars
  <2>2. Findings(report.deep)' = Findings(report.deep)
    BY <2>1 DEF Findings, Referenced, HasDigest, Current
  <2> QED BY <1>1, <2>1, <2>2 DEF ReportCurrent
<1>6. ASSUME NEW s \in Slots,
             \/ BeginWrite(s) \/ CommitPayload(s) \/ Publish(s) \/ BeginDelete(s)
             \/ Unlink(s) \/ ForgetOrphans(s) \/ Acknowledge(s)
      PROVE  power = "on" /\ report' = report /\ power' = power
  BY <1>6 DEF BeginWrite, CommitPayload, Publish, BeginDelete, Unlink, ForgetOrphans, Acknowledge,
              Doing
<1>7. PowerCut \/ Restart => report' = NoReport
  BY DEF PowerCut, Restart
<1> QED BY <1>2, <1>3, <1>4, <1>5, <1>6, <1>7 DEF PowerNext

\* The invariant holds of an empty store.
LEMMA InitPower ==
    ASSUME PowerInit
    PROVE  PowerInv
<1> DEFINE m == [held |-> [s \in Slots |-> Absent], tracked |-> {}]
<1>1. /\ journal = <<m>> /\ tree = <<>> /\ removed = <<>> /\ work = [s \in Slots |-> Idle]
      /\ promised = [s \in Slots |-> {Absent}] /\ drawn = 0 /\ power = "on" /\ report = NoReport
  BY DEF PowerInit
<1>2. m \in Meta /\ m.tracked = {} /\ \A s \in Slots : m.held[s] = Absent
  BY DEF Meta
<1> HIDE DEF m
<1>3. journal \in Seq(Meta) /\ journal # <<>> /\ States = {m} /\ Current = m
  <2>1. Len(journal) = 1 /\ journal[1] = m /\ DOMAIN journal = {1}
    BY <1>1
  <2> QED BY <1>1, <1>2, <2>1 DEF States, Current
<1>4. Files(tree) /\ Files(removed) /\ DOMAIN tree = {} /\ DOMAIN removed = {}
  BY <1>1 DEF Files
<1>5. work \in [Slots -> Tasks \cup {Idle}] /\ \A s \in Slots : work[s].step = "idle"
  BY <1>1 DEF Idle
<1>6. PowerTyped
  BY <1>1, <1>3, <1>4, <1>5 DEF PowerTyped
<1>7. \A s \in Slots : \A b \in Payloads : ~Owns(s, b)
  <2>1. \A b \in Payloads : b # Absent
    BY PowerConstants DEF Absent
  <2> QED BY <1>2, <1>3, <1>5, <2>1 DEF Owns
<1>8. OneOwner /\ FlushedFiles /\ HeldUntracked /\ WrittenFresh
  BY <1>2, <1>3, <1>4, <1>5, <1>7 DEF OneOwner, FlushedFiles, HeldUntracked, WrittenFresh
<1>9. StrictKept /\ ReportCurrent
  BY <1>1, <1>2, <1>3, <1>5 DEF StrictKept, ReportCurrent
<1> QED BY <1>6, <1>8, <1>9 DEF PowerInv

\* Every step keeps the invariant.
LEMMA PowerInvStep ==
    ASSUME PowerInv, [PowerNext]_powerVars
    PROVE  PowerInv'
<1> DEFINE Kept == PowerTyped' /\ OneOwner' /\ FlushedFiles' /\ HeldUntracked' /\ WrittenFresh'
                   /\ StrictKept'
<1>1. ASSUME NEW s \in Slots,
             \/ BeginWrite(s) \/ CommitPayload(s) \/ Publish(s) \/ BeginDelete(s)
             \/ Unlink(s) \/ ForgetOrphans(s) \/ Acknowledge(s)
      PROVE  Kept
  BY <1>1, BeginWritePower, CommitPayloadPower, PublishPower, BeginDeletePower, UnlinkPower,
     ForgetPower, AcknowledgePower
<1>2. ASSUME PowerCut \/ Restart
      PROVE  Kept
  BY <1>2, CutPower, RestartPower
<1>3. ASSUME NEW deep \in BOOLEAN, RunFsck(deep)
      PROVE  Kept
  <2>1. UNCHANGED <<journal, tree, removed, lost, work, promised, drawn, power>>
    BY <1>3 DEF RunFsck
  <2> QED BY <2>1, RestPower
<1>4. ASSUME UNCHANGED powerVars
      PROVE  Kept
  <2>1. UNCHANGED <<journal, tree, removed, lost, work, promised, drawn, power>>
    BY <1>4 DEF powerVars
  <2> QED BY <2>1, RestPower
<1>5. Kept
  BY <1>1, <1>2, <1>3, <1>4 DEF PowerNext
<1> QED BY <1>5, ReportStep DEF PowerInv

\* The invariant holds throughout.
LEMMA PowerInvariant == PowerSpec => []PowerInv
<1>1. PowerInit => PowerInv
  BY InitPower
<1>2. PowerInv /\ [PowerNext]_powerVars => PowerInv'
  BY PowerInvStep
<1> QED BY <1>1, <1>2, PTL DEF PowerSpec

(***************************************************************************)
(* Durability. After a power cut a strict slot has the content last        *)
(* acknowledged or one that a request was putting there, its payload is in *)
(* the tree unless it went with a directory that was new, and no payload   *)
(* of a slot that flushes is torn: for any number of slots at any mix of   *)
(* levels, payloads in any directories, requests under way and cuts.       *)
(***************************************************************************)
THEOREM DurabilitySafety == PowerSpec => []SurvivesPowerCut
<1>1. ASSUME PowerInv, NEW s \in Slots, LevelOf[s] # "none", Current.held[s] \in DOMAIN tree
      PROVE  tree[Current.held[s]].content = "whole"
  <2>1. Current.held[s] \in Payloads /\ Owns(s, Current.held[s])
    BY <1>1, JournalStates DEF PowerInv, PowerTyped, Files, Owns
  <2> QED BY <1>1, <2>1 DEF PowerInv, FlushedFiles, Sound
<1>2. PowerInv => SurvivesPowerCut
  BY <1>1 DEF PowerInv, StrictKept, Strict, SurvivesPowerCut
<1> QED BY <1>2, PowerInvariant, PTL

(***************************************************************************)
(* fsck's report of a stopped store is clean exactly when every row has a  *)
(* payload that is as good as its record can tell and no file is a stray:  *)
(* for any store a cut can leave.                                          *)
(***************************************************************************)
THEOREM FsckSafety == PowerSpec => []FsckTruthful
<1> DEFINE Ok(b, deep) ==
             /\ b \in DOMAIN tree
             /\ \/ tree[b].content = "whole"
                \/ tree[b].content = "garbled" /\ (~deep \/ ~HasDigest(b))
           Clean(deep) ==
             /\ \A s \in Slots : Current.held[s] # Absent => Ok(Current.held[s], deep)
             /\ \A b \in DOMAIN tree :
                   b \in Current.tracked \/ \E s \in Slots : Current.held[s] = b
<1>1. ASSUME PowerInv, NEW deep \in BOOLEAN
      PROVE  (Findings(deep) = {}) <=> Clean(deep)
  <2>1. (Findings(deep) = {}) <=>
           /\ DOMAIN tree \ (Referenced \cup Current.tracked) = {}
           /\ {c \in Referenced \cap DOMAIN tree : tree[c].content = "short"} = {}
           /\ Referenced \ DOMAIN tree = {}
           /\ {c \in Referenced \cap DOMAIN tree :
                 deep /\ HasDigest(c) /\ tree[c].content # "whole"} = {}
    BY DEF Findings
  <2>2. \A b : b \in Referenced <=> b # Absent /\ \E s \in Slots : Current.held[s] = b
    BY DEF Referenced
  <2>3. \A b \in DOMAIN tree :
           tree[b].content \in {"whole", "short", "garbled"} /\ b # Absent
    BY <1>1, PowerConstants DEF PowerInv, PowerTyped, Files, File, Absent
  <2> QED BY <2>1, <2>2, <2>3
<1>2. PowerInv => FsckTruthful
  <2> SUFFICES ASSUME PowerInv, report.run PROVE FsckTruthful
    BY DEF FsckTruthful
  <2>1. report.deep \in BOOLEAN /\ report.findings = Findings(report.deep)
    BY DEF PowerInv, ReportCurrent, NoReport
  <2>2. (Findings(report.deep) = {}) <=> Clean(report.deep)
    BY <1>1, <2>1
  <2> QED BY <2>1, <2>2 DEF FsckTruthful
<1> QED BY <1>2, PowerInvariant, PTL
-----------------------------------------------------------------------------
(* Listings. *)

\* a is below b, and n is how far they agree.
BelowAt(a, b, n) ==
    /\ n \in Nat /\ n < Len(b) /\ n <= Len(a)
    /\ \A i \in 1..n : a[i] = b[i]
    /\ n = Len(a) \/ a[n + 1] < b[n + 1]

\* The start of a key.
LEMMA StartOf ==
    ASSUME NEW a \in Seq(Nat), NEW n \in Nat, n <= Len(a)
    PROVE  /\ SubSeq(a, 1, n) \in Seq(Nat) /\ Len(SubSeq(a, 1, n)) = n
           /\ \A i \in 1..n : SubSeq(a, 1, n)[i] = a[i]
<1>1. PICK m : m = 1
  OBVIOUS
<1>2. Len(a) \in Nat /\ \A i \in 1..Len(a) : a[i] \in Nat
  BY LenProperties, ElementOfSeq
<1>3. m \in Int /\ n \in Int /\ \A i \in m..n : a[i] \in Nat
  BY <1>1, <1>2
<1>4. PICK t : t = SubSeq(a, m, n)
  OBVIOUS
<1>5. /\ t \in Seq(Nat) /\ Len(t) = (IF m <= n THEN n - m + 1 ELSE 0)
      /\ \A i \in 1..(n - m + 1) : t[i] = a[m + i - 1]
  BY ONLY <1>3, <1>4, SubSeqProperties
<1>6. (IF m <= n THEN n - m + 1 ELSE 0) = n /\ n - m + 1 = n /\ \A i \in 1..n : m + i - 1 = i
  BY <1>1
<1>7. t \in Seq(Nat) /\ Len(t) = n /\ \A i \in 1..n : t[i] = a[i]
  BY <1>5, <1>6
<1> QED BY <1>1, <1>4, <1>7

\* Two keys start alike when they agree letter by letter.
LEMMA SameStart ==
    ASSUME NEW a \in Seq(Nat), NEW b \in Seq(Nat), NEW n \in Nat, n <= Len(a), n <= Len(b)
    PROVE  SubSeq(a, 1, n) = SubSeq(b, 1, n) <=> \A i \in 1..n : a[i] = b[i]
<1>1. PICK s, t : s = SubSeq(a, 1, n) /\ t = SubSeq(b, 1, n)
  OBVIOUS
<1>2. /\ s \in Seq(Nat) /\ Len(s) = n /\ \A i \in 1..n : s[i] = a[i]
      /\ t \in Seq(Nat) /\ Len(t) = n /\ \A i \in 1..n : t[i] = b[i]
  BY <1>1, StartOf
<1>3. ASSUME \A i \in 1..n : a[i] = b[i] PROVE s = t
  <2>1. Len(s) = Len(t) /\ \A i \in 1..Len(s) : s[i] = t[i]
    BY <1>2, <1>3
  <2> QED BY <1>2, <2>1, SeqEqual
<1>4. ASSUME s = t PROVE \A i \in 1..n : a[i] = b[i]
  BY <1>2, <1>4
<1> QED BY <1>1, <1>3, <1>4

LEMMA BelowIs ==
    ASSUME NEW a \in Seq(Nat), NEW b \in Seq(Nat)
    PROVE  Below(a, b) <=> \E n : BelowAt(a, b, n)
<1>1. Len(a) \in Nat /\ Len(b) \in Nat
  BY LenProperties
<1>2. ASSUME NEW n \in 0..(Len(b) - 1), n <= Len(a), SubSeq(a, 1, n) = SubSeq(b, 1, n),
             n = Len(a) \/ a[n + 1] < b[n + 1]
      PROVE  BelowAt(a, b, n)
  <2>1. n \in Nat /\ n < Len(b) /\ n <= Len(b)
    BY <1>1
  <2>2. \A i \in 1..n : a[i] = b[i]
    BY <1>2, <2>1, SameStart
  <2> QED BY <1>2, <2>1, <2>2 DEF BelowAt
<1>3. ASSUME NEW n, BelowAt(a, b, n)
      PROVE  n \in 0..(Len(b) - 1) /\ n <= Len(a) /\ SubSeq(a, 1, n) = SubSeq(b, 1, n) /\ (n = Len(a) \/ a[n + 1] < b[n + 1])
  <2>1. n \in Nat /\ n < Len(b) /\ n <= Len(b) /\ n <= Len(a)
    BY <1>1, <1>3 DEF BelowAt
  <2>2. SubSeq(a, 1, n) = SubSeq(b, 1, n)
    BY <1>3, <2>1, SameStart DEF BelowAt
  <2> QED BY <1>1, <1>3, <2>1, <2>2 DEF BelowAt
<1> QED BY <1>2, <1>3 DEF Below

\* The letters of a key.
LEMMA Letters ==
    ASSUME NEW a \in Seq(Nat)
    PROVE  Len(a) \in Nat /\ DOMAIN a = 1..Len(a) /\ \A i \in 1..Len(a) : a[i] \in Nat
BY LenProperties, ElementOfSeq

\* No key is below itself.
LEMMA BelowIrreflexive ==
    ASSUME NEW a \in Seq(Nat)
    PROVE  ~Below(a, a)
<1>1. SUFFICES ASSUME NEW n, BelowAt(a, a, n) PROVE FALSE
  BY BelowIs
<1>2. n \in Nat /\ n < Len(a) /\ a[n + 1] < a[n + 1] /\ Len(a) \in Nat
  BY <1>1, Letters DEF BelowAt
<1>3. n + 1 \in 1..Len(a)
  BY <1>2
<1>4. a[n + 1] \in Nat
  BY <1>3, Letters
<1> QED BY <1>2, <1>4

\* What is below a key is below every key that one is below.
LEMMA BelowTransitive ==
    ASSUME NEW a \in Seq(Nat), NEW b \in Seq(Nat), NEW c \in Seq(Nat), Below(a, b), Below(b, c)
    PROVE  Below(a, c)
<1>1. PICK m : BelowAt(a, b, m)
  BY BelowIs
<1>2. PICK n : BelowAt(b, c, n)
  BY BelowIs
<1>3. /\ Len(a) \in Nat /\ Len(b) \in Nat /\ Len(c) \in Nat
      /\ m \in Nat /\ m < Len(b) /\ m <= Len(a) /\ (m = Len(a) \/ a[m + 1] < b[m + 1])
      /\ n \in Nat /\ n < Len(c) /\ n <= Len(b) /\ (n = Len(b) \/ b[n + 1] < c[n + 1])
      /\ (\A i \in 1..m : a[i] = b[i]) /\ (\A i \in 1..n : b[i] = c[i])
  BY <1>1, <1>2, Letters DEF BelowAt
<1>4. CASE m < n
  <2>1. m + 1 \in 1..n /\ \A i \in 1..m : i \in 1..n
    BY <1>3, <1>4
  <2>2. b[m + 1] = c[m + 1] /\ \A i \in 1..m : a[i] = c[i]
    BY <1>3, <2>1
  <2>3. m < Len(c)
    BY <1>3, <1>4
  <2>4. BelowAt(a, c, m)
    BY <1>3, <2>2, <2>3 DEF BelowAt
  <2> QED BY <2>4, BelowIs
<1>5. CASE n < m
  <2>1. n + 1 \in 1..m /\ \A i \in 1..n : i \in 1..m
    BY <1>3, <1>5
  <2>2. a[n + 1] = b[n + 1] /\ \A i \in 1..n : a[i] = c[i]
    BY <1>3, <2>1
  <2>3. n # Len(b) /\ n <= Len(a)
    BY <1>3, <1>5
  <2>4. BelowAt(a, c, n)
    BY <1>3, <2>2, <2>3 DEF BelowAt
  <2> QED BY <2>4, BelowIs
<1>6. CASE m = n
  <2>1. n # Len(b) /\ \A i \in 1..n : a[i] = c[i]
    BY <1>3, <1>6
  <2>2. n = Len(a) \/ a[n + 1] < c[n + 1]
    <3>1. CASE n # Len(a)
      <4>0. /\ n \in Nat /\ Len(a) \in Nat /\ Len(b) \in Nat /\ Len(c) \in Nat
            /\ n < Len(a) /\ n < Len(b) /\ n < Len(c)
        BY <1>3, <1>6, <3>1
      <4>1. n + 1 \in 1..Len(a) /\ n + 1 \in 1..Len(b) /\ n + 1 \in 1..Len(c)
        BY ONLY <4>0
      <4>2. a[n + 1] \in Nat /\ b[n + 1] \in Nat /\ c[n + 1] \in Nat
        BY <4>1, Letters
      <4>3. a[n + 1] < b[n + 1] /\ b[n + 1] < c[n + 1]
        BY <1>3, <1>6, <2>1, <3>1
      <4> QED BY <4>2, <4>3
    <3> QED BY <3>1
  <2>3. BelowAt(a, c, n)
    BY <1>3, <1>6, <2>1, <2>2 DEF BelowAt
  <2> QED BY <2>3, BelowIs
<1> QED BY <1>3, <1>4, <1>5, <1>6

\* Of two keys one is below the other.
LEMMA BelowTotal ==
    ASSUME NEW a \in Seq(Nat), NEW b \in Seq(Nat), a # b
    PROVE  Below(a, b) \/ Below(b, a)
<1>1. Len(a) \in Nat /\ Len(b) \in Nat
  BY Letters
<1>2. PICK T : T = {n \in Nat : n < Len(a) /\ n < Len(b) /\ a[n + 1] # b[n + 1]}
  OBVIOUS
<1>3. CASE T # {}
  <2>1. T \in SUBSET Nat
    BY <1>2
  <2>2. PICK n \in T : \A k \in T : n <= k
    BY <1>3, <2>1, LeastNumber
  <2>3. n \in Nat /\ n < Len(a) /\ n < Len(b) /\ a[n + 1] # b[n + 1]
    BY <1>2
  <2>4. ASSUME NEW i \in 1..n PROVE a[i] = b[i]
    <3>1. i - 1 \notin T
      BY <2>2, <2>3
    <3>2. i - 1 \in Nat /\ i - 1 < Len(a) /\ i - 1 < Len(b) /\ (i - 1) + 1 = i
      BY <1>1, <2>3
    <3> QED BY <1>2, <3>1, <3>2
  <2>5. n + 1 \in 1..Len(a) /\ n + 1 \in 1..Len(b)
    BY <1>1, <2>3
  <2>6. a[n + 1] \in Nat /\ b[n + 1] \in Nat
    BY <2>5, Letters
  <2>7. a[n + 1] < b[n + 1] \/ b[n + 1] < a[n + 1]
    BY <2>3, <2>6
  <2>8. BelowAt(a, b, n) \/ BelowAt(b, a, n)
    BY <1>1, <2>3, <2>4, <2>7 DEF BelowAt
  <2> QED BY <2>8, BelowIs
<1>4. CASE T = {}
  <2>1. ASSUME NEW i \in 1..Len(a), i <= Len(b) PROVE a[i] = b[i]
    <3>1. i - 1 \in Nat /\ i - 1 < Len(a) /\ i - 1 < Len(b) /\ (i - 1) + 1 = i
      BY <1>1, <2>1
    <3> QED BY <1>2, <1>4, <3>1
  <2>2. CASE Len(a) = Len(b)
    <3>1. \A i \in 1..Len(a) : a[i] = b[i]
      BY <1>1, <2>1, <2>2
    <3> QED BY <2>2, <3>1, SeqEqual
  <2>3. CASE Len(a) < Len(b)
    <3>1. BelowAt(a, b, Len(a))
      BY <1>1, <2>1, <2>3 DEF BelowAt
    <3> QED BY <3>1, BelowIs
  <2>4. CASE Len(b) < Len(a)
    <3>1. BelowAt(b, a, Len(b))
      BY <1>1, <2>1, <2>4 DEF BelowAt
    <3> QED BY <3>1, BelowIs
  <2> QED BY <1>1, <2>2, <2>3, <2>4
<1> QED BY <1>3, <1>4

\* A key has a prefix when it agrees with it letter by letter.
LEMMA PrefixIs ==
    ASSUME NEW p \in Seq(Nat), NEW k \in Seq(Nat)
    PROVE  IsPrefix(p, k) <=> Len(p) <= Len(k) /\ \A i \in 1..Len(p) : p[i] = k[i]
<1>1. Len(p) \in Nat /\ Len(k) \in Nat /\ Len(p) <= Len(p)
  BY Letters
<1>2. PICK n \in Nat : n = Len(p)
  BY <1>1
<1>3. CASE n <= Len(k)
  <2>1. n <= Len(p)
    BY <1>1, <1>2
  <2>2. SubSeq(p, 1, n) = SubSeq(k, 1, n) <=> \A i \in 1..n : p[i] = k[i]
    BY <1>3, <2>1, SameStart
  <2> QED BY <1>2, <1>3, <2>2 DEF IsPrefix
<1> QED BY <1>2, <1>3 DEF IsPrefix

\* The keys a listing is about.
Listable(k) == k \in Seq(Nat) /\ IsPrefix(query.prefix, k)

\* c is where the entry of k ends: at the first delimiter beyond the prefix, or
\* with the key.
CutAt(k, c) ==
    /\ c \in Nat /\ Len(query.prefix) <= c /\ c <= Len(k)
    /\ Splits(k) = {} => c = Len(k)
    /\ Splits(k) # {} => c \in Splits(k)
    /\ \A j \in Splits(k) : c <= j
    /\ EntryOf(k) \in Seq(Nat) /\ Len(EntryOf(k)) = c
    /\ \A i \in 1..c : EntryOf(k)[i] = k[i]

LEMMA HasCut ==
    ASSUME query.prefix \in Seq(Nat), NEW k, Listable(k)
    PROVE  \E c : CutAt(k, c)
<1>1. k \in Seq(Nat) /\ Len(k) \in Nat /\ Len(query.prefix) \in Nat /\ Len(query.prefix) <= Len(k)
  BY Letters, PrefixIs DEF Listable
<1>2. CASE Splits(k) = {}
  <2>1. EntryOf(k) = k
    BY <1>2 DEF EntryOf
  <2>2. CutAt(k, Len(k))
    BY <1>1, <1>2, <2>1 DEF CutAt
  <2> QED BY <2>2
<1>3. CASE Splits(k) # {}
  <2>1. Splits(k) \in SUBSET Nat
    BY <1>1 DEF Splits
  <2>2. \E c \in Splits(k) : \A j \in Splits(k) : c <= j
    BY <1>3, <2>1, LeastNumber
  <2>3. PICK c : c = CHOOSE i \in Splits(k) : \A j \in Splits(k) : i <= j
    OBVIOUS
  <2>4. c \in Splits(k) /\ \A j \in Splits(k) : c <= j
    BY <2>2, <2>3
  <2>5. c \in Nat /\ Len(query.prefix) <= c /\ c <= Len(k)
    BY <1>1, <2>4 DEF Splits
  <2>6. EntryOf(k) = SubSeq(k, 1, c)
    BY <1>3, <2>3 DEF EntryOf
  <2>7. EntryOf(k) \in Seq(Nat) /\ Len(EntryOf(k)) = c /\ \A i \in 1..c : EntryOf(k)[i] = k[i]
    BY <1>1, <2>5, <2>6, StartOf
  <2>8. CutAt(k, c)
    BY <1>3, <2>4, <2>5, <2>7 DEF CutAt
  <2> QED BY <2>8
<1> QED BY <1>2, <1>3

\* A key that agrees with another up to where that one's group ends is in it.
LEMMA SharedCut ==
    ASSUME NEW k \in Seq(Nat), NEW l \in Seq(Nat), NEW c, NEW d, CutAt(k, c), CutAt(l, d),
           query.prefix \in Seq(Nat), Splits(k) # {}, c <= Len(l), \A i \in 1..c : k[i] = l[i]
    PROVE  c = d /\ EntryOf(k) = EntryOf(l)
<1>1. c \in Nat /\ d \in Nat /\ Len(k) \in Nat /\ Len(l) \in Nat /\ Len(query.prefix) \in Nat /\ c <= Len(k) /\ d <= Len(l)
  BY Letters DEF CutAt
<1>2. c \in Splits(k) /\ \A j \in Splits(k) : c <= j
  BY DEF CutAt
<1>3. c \in (Len(query.prefix) + 1)..Len(k) /\ query.delimited /\ k[c] = Delimiter
  BY <1>2 DEF Splits
<1>4. c \in 1..c /\ c \in (Len(query.prefix) + 1)..Len(l)
  BY <1>1, <1>3
<1>5. c \in Splits(l)
  BY <1>3, <1>4 DEF Splits
<1>6. d \in Splits(l) /\ d <= c
  BY <1>5 DEF CutAt
<1>7. d \in (Len(query.prefix) + 1)..Len(l) /\ l[d] = Delimiter
  BY <1>6 DEF Splits
<1>8. d \in 1..c /\ d \in (Len(query.prefix) + 1)..Len(k)
  BY <1>1, <1>6, <1>7
<1>9. d \in Splits(k)
  BY <1>3, <1>7, <1>8 DEF Splits
<1>10. c = d
  BY <1>1, <1>2, <1>6, <1>9
<1>11. PICK s, t : s = EntryOf(k) /\ t = EntryOf(l)
  OBVIOUS
<1>12. /\ s \in Seq(Nat) /\ t \in Seq(Nat) /\ Len(s) = Len(t) /\ Len(s) = c
       /\ \A i \in 1..Len(s) : s[i] = t[i]
  BY <1>10, <1>11 DEF CutAt
<1>13. s = t
  BY <1>12, SeqEqual
<1> QED BY <1>10, <1>11, <1>13

\* A key without a group has a longer entry than any key it starts with.
LEMMA CutBeyond ==
    ASSUME NEW k \in Seq(Nat), NEW l \in Seq(Nat), NEW d, CutAt(l, d), query.prefix \in Seq(Nat),
           Splits(k) = {}, NEW n \in Nat, n <= Len(k), n < Len(l), \A i \in 1..n : k[i] = l[i]
    PROVE  n < d
<1>1. d \in Nat /\ Len(k) \in Nat /\ Len(l) \in Nat /\ Len(query.prefix) \in Nat /\ d <= Len(l)
  BY Letters DEF CutAt
<1>2. CASE Splits(l) = {}
  BY <1>1, <1>2 DEF CutAt
<1>3. CASE Splits(l) # {}
  <2>1. SUFFICES ASSUME d <= n PROVE FALSE
    BY <1>1
  <2>2. d \in (Len(query.prefix) + 1)..Len(l) /\ query.delimited /\ l[d] = Delimiter
    BY <1>3 DEF CutAt, Splits
  <2>3. d \in 1..n /\ d \in (Len(query.prefix) + 1)..Len(k)
    BY <1>1, <2>1, <2>2
  <2>4. d \in Splits(k)
    BY <2>2, <2>3 DEF Splits
  <2> QED BY <2>4
<1> QED BY <1>2, <1>3

\* Entries come in the order of their keys.
LEMMA EntryMonotone ==
    ASSUME query.prefix \in Seq(Nat), NEW k, NEW l, Listable(k), Listable(l), Below(k, l)
    PROVE  EntryOf(k) = EntryOf(l) \/ Below(EntryOf(k), EntryOf(l))
<1>1. k \in Seq(Nat) /\ l \in Seq(Nat)
  BY DEF Listable
<1>2. PICK c : CutAt(k, c)
  BY HasCut
<1>3. PICK d : CutAt(l, d)
  BY HasCut
<1>4. PICK n : BelowAt(k, l, n)
  BY <1>1, BelowIs
<1>5. PICK e, f : e = EntryOf(k) /\ f = EntryOf(l)
  OBVIOUS
<1>6. /\ c \in Nat /\ d \in Nat /\ n \in Nat /\ Len(k) \in Nat /\ Len(l) \in Nat
      /\ c <= Len(k) /\ d <= Len(l) /\ n < Len(l) /\ n <= Len(k) /\ (n = Len(k) \/ k[n + 1] < l[n + 1])
      /\ \A i \in 1..n : k[i] = l[i]
  BY <1>1, <1>2, <1>3, <1>4, Letters DEF CutAt, BelowAt
<1>7. /\ e \in Seq(Nat) /\ Len(e) = c /\ \A i \in 1..c : e[i] = k[i]
      /\ f \in Seq(Nat) /\ Len(f) = d /\ \A i \in 1..d : f[i] = l[i]
  BY <1>2, <1>3, <1>5 DEF CutAt
<1>8. CASE n < c /\ n < d
  <2>1. n + 1 \in 1..c /\ n + 1 \in 1..d /\ n # Len(k) /\ \A i \in 1..n : i \in 1..c /\ i \in 1..d
    BY <1>6, <1>8
  <2>2. e[n + 1] < f[n + 1] /\ \A i \in 1..n : e[i] = f[i]
    BY <1>6, <1>7, <2>1
  <2>3. n < Len(f) /\ n <= Len(e)
    BY <1>6, <1>7, <1>8
  <2>4. BelowAt(e, f, n)
    BY <1>6, <2>2, <2>3 DEF BelowAt
  <2> QED BY <1>5, <1>7, <2>4, BelowIs
<1>9. CASE c <= n /\ Splits(k) # {}
  <2>1. c <= Len(l) /\ \A i \in 1..c : k[i] = l[i]
    <3>1. \A i \in 1..c : i \in 1..n
      BY <1>6, <1>9
    <3> QED BY <1>6, <1>9, <3>1
  <2> QED BY <1>1, <1>2, <1>3, <1>9, <2>1, SharedCut
<1>10. CASE c <= n /\ Splits(k) = {}
  <2>1. c = Len(k) /\ n = Len(k)
    BY <1>2, <1>6, <1>10 DEF CutAt
  <2>2. n < d
    BY <1>1, <1>3, <1>6, <1>10, CutBeyond
  <2>3. \A i \in 1..n : e[i] = f[i]
    <3>1. \A i \in 1..n : i \in 1..c /\ i \in 1..d
      BY <1>6, <2>1, <2>2
    <3> QED BY <1>6, <1>7, <3>1
  <2>4. BelowAt(e, f, n)
    BY <1>6, <1>7, <2>1, <2>2, <2>3 DEF BelowAt
  <2> QED BY <1>5, <1>7, <2>4, BelowIs
<1>11. CASE d <= n /\ n < c
  <2>1. CASE Splits(l) = {}
    BY <1>3, <1>6, <1>11, <2>1 DEF CutAt
  <2>2. CASE Splits(l) # {}
    <3>1. d <= Len(k) /\ \A i \in 1..d : l[i] = k[i]
      <4>1. \A i \in 1..d : i \in 1..n
        BY <1>6, <1>11
      <4> QED BY <1>6, <1>11, <4>1
    <3>2. d = c
      BY <1>1, <1>2, <1>3, <2>2, <3>1, SharedCut
    <3> QED BY <1>6, <1>11, <3>2
  <2> QED BY <2>1, <2>2
<1> QED BY <1>6, <1>8, <1>9, <1>10, <1>11

\* Two keys share an entry when one is in the other's group.
LEMMA SameGroup ==
    ASSUME query.prefix \in Seq(Nat), NEW k, NEW l, Listable(k), Listable(l), k # l
    PROVE  EntryOf(k) = EntryOf(l) <=> Splits(k) # {} /\ IsPrefix(EntryOf(k), l)
<1>1. k \in Seq(Nat) /\ l \in Seq(Nat)
  BY DEF Listable
<1>2. PICK c : CutAt(k, c)
  BY HasCut
<1>3. PICK d : CutAt(l, d)
  BY HasCut
<1>4. PICK e, f : e = EntryOf(k) /\ f = EntryOf(l)
  OBVIOUS
<1>5. /\ c \in Nat /\ d \in Nat /\ Len(k) \in Nat /\ Len(l) \in Nat
      /\ c <= Len(k) /\ d <= Len(l)
  BY <1>1, <1>2, <1>3, Letters DEF CutAt
<1>6. /\ e \in Seq(Nat) /\ Len(e) = c /\ \A i \in 1..c : e[i] = k[i]
      /\ f \in Seq(Nat) /\ Len(f) = d /\ \A i \in 1..d : f[i] = l[i]
  BY <1>2, <1>3, <1>4 DEF CutAt
<1>7. ASSUME Splits(k) # {}, IsPrefix(e, l) PROVE e = f
  <2>1. Len(e) <= Len(l) /\ \A i \in 1..Len(e) : e[i] = l[i]
    BY <1>1, <1>6, <1>7, PrefixIs
  <2>2. c <= Len(l) /\ \A i \in 1..c : k[i] = l[i]
    BY <1>6, <2>1
  <2> QED BY <1>1, <1>2, <1>3, <1>4, <1>7, <2>2, SharedCut
<1>8. ASSUME e = f PROVE IsPrefix(e, l)
  <2>1. Len(e) <= Len(l) /\ \A i \in 1..Len(e) : e[i] = l[i]
    BY <1>5, <1>6, <1>8
  <2> QED BY <1>1, <1>6, <2>1, PrefixIs
<1>9. ASSUME e = f, Splits(k) = {} PROVE FALSE
  <2>1. c = Len(k) /\ c = d /\ \A i \in 1..c : k[i] = l[i]
    BY <1>2, <1>6, <1>9 DEF CutAt
  <2>2. CASE c < Len(l)
    <3>1. c < d
      <4>1. c <= Len(k)
        BY <1>5
      <4> QED BY <1>1, <1>3, <1>5, <1>9, <2>1, <2>2, <4>1, CutBeyond
    <3> QED BY <1>5, <2>1, <3>1
  <2>3. CASE ~(c < Len(l))
    <3>1. Len(k) = Len(l) /\ \A i \in 1..Len(k) : k[i] = l[i]
      BY <1>5, <2>1, <2>3
    <3> QED BY <1>1, <3>1, SeqEqual
  <2> QED BY <2>2, <2>3
<1> QED BY <1>4, <1>7, <1>8, <1>9

\* An entry is a key with the prefix that is reported as itself, and it is a group
\* when its key was in one.
LEMMA EntryAgain ==
    ASSUME query.prefix \in Seq(Nat), NEW k, Listable(k)
    PROVE  /\ Listable(EntryOf(k)) /\ EntryOf(EntryOf(k)) = EntryOf(k)
           /\ Splits(EntryOf(k)) # {} <=> Splits(k) # {}
           /\ IsPrefix(EntryOf(k), k)
<1>1. k \in Seq(Nat)
  BY DEF Listable
<1>2. PICK c : CutAt(k, c)
  BY HasCut
<1>3. PICK e : e = EntryOf(k)
  OBVIOUS
<1>4. c \in Nat /\ Len(k) \in Nat /\ c <= Len(k) /\ Len(query.prefix) \in Nat /\ Len(query.prefix) <= c
  BY <1>1, <1>2, Letters DEF CutAt
<1>5. e \in Seq(Nat) /\ Len(e) = c /\ \A i \in 1..c : e[i] = k[i]
  BY <1>2, <1>3 DEF CutAt
<1>6. Listable(e)
  <2>1. \A i \in 1..Len(query.prefix) : query.prefix[i] = k[i] /\ i \in 1..c
    BY <1>1, <1>4, PrefixIs DEF Listable
  <2>2. Len(query.prefix) <= Len(e) /\ \A i \in 1..Len(query.prefix) : query.prefix[i] = e[i]
    BY <1>4, <1>5, <2>1
  <2> QED BY <1>5, <2>2, PrefixIs DEF Listable
<1>7. IsPrefix(e, k)
  BY <1>1, <1>4, <1>5, PrefixIs
<1>8. CASE Splits(k) = {}
  <2>1. e = k
    BY <1>3, <1>8 DEF EntryOf
  <2> QED BY <1>3, <1>6, <1>7, <1>8, <2>1
<1>9. CASE Splits(k) # {}
  <2>1. c \in (Len(query.prefix) + 1)..Len(k) /\ query.delimited /\ k[c] = Delimiter
    BY <1>2, <1>9 DEF CutAt, Splits
  <2>2. c \in (Len(query.prefix) + 1)..Len(e) /\ c \in 1..c
    BY <1>4, <1>5, <2>1
  <2>3. c \in Splits(e)
    BY <1>5, <2>1, <2>2 DEF Splits
  <2>4. PICK d : CutAt(e, d)
    BY <1>6, HasCut
  <2>5. EntryOf(k) = EntryOf(e)
    <3>1. c <= Len(e) /\ \A i \in 1..c : k[i] = e[i]
      BY <1>4, <1>5
    <3> QED BY <1>1, <1>2, <1>5, <1>9, <2>4, <3>1, SharedCut
  <2> QED BY <1>3, <1>6, <1>7, <1>9, <2>3, <2>5
<1> QED BY <1>8, <1>9

\* What is below the start of a key is below the key.
LEMMA BelowStart ==
    ASSUME NEW a \in Seq(Nat), NEW e \in Seq(Nat), NEW k \in Seq(Nat), IsPrefix(e, k), Below(a, e)
    PROVE  Below(a, k)
<1>1. PICK n : BelowAt(a, e, n)
  BY BelowIs
<1>2. Len(e) \in Nat /\ Len(k) \in Nat /\ Len(e) <= Len(k) /\ \A i \in 1..Len(e) : e[i] = k[i]
  BY PrefixIs, Letters
<1>3. n + 1 \in 1..Len(e) /\ n < Len(k) /\ \A i \in 1..n : i \in 1..Len(e)
  BY <1>1, <1>2 DEF BelowAt
<1>4. e[n + 1] = k[n + 1] /\ \A i \in 1..n : e[i] = k[i]
  BY <1>2, <1>3
<1>5. BelowAt(a, k, n)
  BY <1>1, <1>3, <1>4 DEF BelowAt
<1> QED BY <1>5, BelowIs

\* No object has the name of a folder a client lists: the one case where a marker
\* that ends in the delimiter is a key and not a group.
NoFolderMarker == \A k \in ObjectKeys \cap QueryPrefixes : ~EndsWithDelimiter(k)

\* A marker that ends in the delimiter is a group.
LEMMA MarkerIsGroup ==
    ASSUME NoFolderMarker, query.prefix \in QueryPrefixes, NEW x \in ObjectKeys, Listable(x)
    PROVE  /\ EntryOf(x) # <<>>
           /\ query.delimited /\ EndsWithDelimiter(EntryOf(x)) <=> Splits(EntryOf(x)) # {}
<1>1. query.prefix \in Seq(Nat) /\ x \in Seq(Nat) /\ x # <<>>
  BY ListingConstants
<1>2. PICK m : m = EntryOf(x)
  OBVIOUS
<1>3. Listable(m) /\ EntryOf(m) = m /\ (Splits(m) # {} <=> Splits(x) # {}) /\ IsPrefix(m, x)
  BY <1>1, <1>2, EntryAgain
<1>4. PICK c : CutAt(m, c)
  BY <1>1, <1>3, HasCut
<1>5. m \in Seq(Nat) /\ c = Len(m) /\ c \in Nat /\ Len(query.prefix) \in Nat /\ Len(query.prefix) <= c
  BY <1>1, <1>3, <1>4, Letters DEF CutAt, Listable
<1>6. CASE Splits(m) # {}
  <2>1. c \in (Len(query.prefix) + 1)..Len(m) /\ query.delimited /\ m[c] = Delimiter
    BY <1>4, <1>6 DEF CutAt, Splits
  <2>2. Len(m) # 0
    BY <1>5, <2>1
  <2>3. m # <<>>
    BY <2>2
  <2>4. EndsWithDelimiter(m)
    BY <1>5, <2>1, <2>3 DEF EndsWithDelimiter, Last
  <2> QED BY <1>2, <1>6, <2>1, <2>3, <2>4
<1>7. CASE Splits(m) = {}
  <2>1. m = x
    BY <1>2, <1>3, <1>7 DEF EntryOf
  <2>2. ASSUME query.delimited, EndsWithDelimiter(m) PROVE FALSE
    <3>1. m[c] = Delimiter
      BY <1>5, <2>2 DEF EndsWithDelimiter, Last
    <3>2. c \notin (Len(query.prefix) + 1)..Len(m)
      BY <1>7, <2>2, <3>1 DEF Splits
    <3>3. c = Len(query.prefix)
      BY <1>5, <3>2
    <3>4. \A i \in 1..Len(query.prefix) : query.prefix[i] = m[i]
      BY <1>1, <1>3, <1>5, PrefixIs DEF Listable
    <3>5. query.prefix = m
      <4>1. PICK p : p = query.prefix
        OBVIOUS
      <4>2. p \in Seq(Nat) /\ Len(p) = Len(m) /\ \A i \in 1..Len(p) : p[i] = m[i]
        BY <1>1, <1>5, <3>3, <3>4, <4>1
      <4>3. p = m
        BY <1>5, <4>2, SeqEqual
      <4> QED BY <4>1, <4>3
    <3>6. m \in ObjectKeys \cap QueryPrefixes
      BY <2>1, <3>5
    <3> QED BY <2>2, <3>6 DEF NoFolderMarker
  <2> QED BY <1>1, <1>2, <1>7, <2>1, <2>2
<1> QED BY <1>6, <1>7

\* A page resumes with the keys whose entry is beyond the marker.
LEMMA ResumesBeyond ==
    ASSUME NoFolderMarker, query.prefix \in QueryPrefixes, NEW x \in ObjectKeys, Listable(x),
           NEW k, Listable(k)
    PROVE  resumePoint(k, EntryOf(x)) <=> Below(EntryOf(x), EntryOf(k))
<1>1. query.prefix \in Seq(Nat) /\ x \in Seq(Nat) /\ k \in Seq(Nat)
  BY ListingConstants DEF Listable
<1>2. PICK m, e : m = EntryOf(x) /\ e = EntryOf(k)
  OBVIOUS
<1>3. Listable(m) /\ EntryOf(m) = m /\ m \in Seq(Nat)
  BY <1>1, <1>2, EntryAgain DEF Listable
<1>4. Listable(e) /\ e \in Seq(Nat) /\ IsPrefix(e, k)
  BY <1>1, <1>2, EntryAgain DEF Listable
<1>5. m # <<>> /\ (query.delimited /\ EndsWithDelimiter(m) <=> Splits(m) # {})
  BY <1>2, MarkerIsGroup
<1>6. ~Below(m, query.prefix)
  <2>1. IsPrefix(query.prefix, m)
    BY <1>3 DEF Listable
  <2>2. ~Below(m, m)
    BY <1>3, BelowIrreflexive
  <2>3. PICK p : p = query.prefix
    OBVIOUS
  <2>4. ~Below(m, p)
    BY <1>1, <1>3, <2>1, <2>2, <2>3, BelowStart
  <2> QED BY <2>3, <2>4
<1>7. resumePoint(k, m) <=> Below(m, k) /\ ~(Splits(m) # {} /\ IsPrefix(m, k))
  BY <1>5, <1>6, Zenon DEF resumePoint
<1>8. ~Below(m, m)
  BY <1>3, BelowIrreflexive
<1>9. CASE k = m
  BY <1>2, <1>3, <1>7, <1>8, <1>9
<1>10. CASE k # m
  <2>1. m = e <=> Splits(m) # {} /\ IsPrefix(m, k)
    BY <1>1, <1>2, <1>3, <1>10, SameGroup
  <2>2. Below(m, k) => m = e \/ Below(m, e)
    BY <1>1, <1>2, <1>3, EntryMonotone
  <2>3. Below(m, e) => Below(m, k)
    BY <1>1, <1>3, <1>4, BelowStart
  <2> QED BY <1>2, <1>7, <1>8, <2>1, <2>2, <2>3
<1> QED BY <1>9, <1>10

\* Rows in the order of the table.
TableRows == Seq(Nat) \X Nat

LEMMA RowIrreflexive ==
    ASSUME NEW a \in TableRows
    PROVE  ~RowBelow(a, a)
<1>1. a[1] \in Seq(Nat) /\ a[2] \in Nat
  BY DEF TableRows
<1>2. ~Below(a[1], a[1])
  BY <1>1, BelowIrreflexive
<1>3. ~(a[2] < a[2])
  BY <1>1
<1> QED BY <1>2, <1>3 DEF RowBelow

LEMMA RowTransitive ==
    ASSUME NEW a \in TableRows, NEW b \in TableRows, NEW c \in TableRows,
           RowBelow(a, b), RowBelow(b, c)
    PROVE  RowBelow(a, c)
<1>1. /\ a[1] \in Seq(Nat) /\ a[2] \in Nat /\ b[1] \in Seq(Nat) /\ b[2] \in Nat
      /\ c[1] \in Seq(Nat) /\ c[2] \in Nat
  BY DEF TableRows
<1>2. PICK k, l, m : k = a[1] /\ l = b[1] /\ m = c[1]
  OBVIOUS
<1>3. PICK u, v, w : u = a[2] /\ v = b[2] /\ w = c[2]
  OBVIOUS
<1>4. /\ Below(k, l) \/ (k = l /\ u < v)
      /\ Below(l, m) \/ (l = m /\ v < w)
  BY <1>2, <1>3 DEF RowBelow
<1>5. Below(k, l) /\ Below(l, m) => Below(k, m)
  BY <1>1, <1>2, BelowTransitive
<1>6. u < v /\ v < w => u < w
  BY <1>1, <1>3
<1>7. Below(k, m) \/ (k = m /\ u < w)
  BY ONLY <1>4, <1>5, <1>6, Zenon
<1> QED BY <1>2, <1>3, <1>7 DEF RowBelow

LEMMA RowTotal ==
    ASSUME NEW a \in TableRows, NEW b \in TableRows, a # b
    PROVE  RowBelow(a, b) \/ RowBelow(b, a)
<1>1. a[1] \in Seq(Nat) /\ a[2] \in Nat /\ b[1] \in Seq(Nat) /\ b[2] \in Nat
      /\ (a[1] = b[1] => a[2] # b[2])
  BY DEF TableRows
<1>2. CASE a[1] = b[1]
  <2>1. a[2] < b[2] \/ b[2] < a[2]
    BY <1>1, <1>2
  <2> QED BY <1>2, <2>1 DEF RowBelow
<1>3. CASE a[1] # b[1]
  <2>1. Below(a[1], b[1]) \/ Below(b[1], a[1])
    BY <1>1, <1>3, BelowTotal
  <2> QED BY <2>1 DEF RowBelow
<1> QED BY <1>2, <1>3

\* x comes before the other rows of t.
Foremost(x, t) == x \in t /\ \A y \in t : x = y \/ RowBelow(x, y)

\* Finitely many rows have a first one.
LEMMA HasFirst ==
    ASSUME NEW S \in SUBSET TableRows, IsFiniteSet(S), S # {}
    PROVE  Foremost(FirstRow(S), S)
<1> DEFINE P == {t \in SUBSET S : t = {} \/ \E x : Foremost(x, t)}
<1>1. ASSUME NEW t \in SUBSET S, \A u \in SUBSET t : u # t => u \in P
      PROVE  t \in P
  <2>1. SUFFICES ASSUME t # {} PROVE \E x : Foremost(x, t)
    OBVIOUS
  <2>2. PICK y \in t : TRUE
    BY <2>1
  <2>3. PICK u : u = t \ {y}
    OBVIOUS
  <2>4. u \in P
    BY <1>1, <2>2, <2>3
  <2>5. CASE u = {}
    <3>1. Foremost(y, t)
      BY <2>2, <2>3, <2>5 DEF Foremost
    <3> QED BY <3>1
  <2>6. CASE u # {}
    <3>1. PICK x : Foremost(x, u)
      BY <2>4, <2>6
    <3>2. x \in TableRows /\ y \in TableRows /\ x # y /\ x \in t
      BY <2>3, <3>1 DEF Foremost
    <3>3. CASE RowBelow(x, y)
      <4>1. Foremost(x, t)
        BY <2>3, <3>1, <3>2, <3>3 DEF Foremost
      <4> QED BY <4>1
    <3>4. CASE RowBelow(y, x)
      <4>1. ASSUME NEW z \in t PROVE y = z \/ RowBelow(y, z)
        <5>1. CASE z \in u /\ z # x
          <6>1. RowBelow(x, z) /\ z \in TableRows
            BY <3>1, <5>1 DEF Foremost
          <6> QED BY <3>2, <3>4, <6>1, RowTransitive
        <5> QED BY <2>3, <3>4, <5>1
      <4>2. Foremost(y, t)
        BY <2>2, <4>1 DEF Foremost
      <4> QED BY <4>2
    <3> QED BY <3>2, <3>3, <3>4, RowTotal
  <2> QED BY <2>5, <2>6
<1>2. P \subseteq SUBSET S
  OBVIOUS
<1>3. P = SUBSET S
  <2> HIDE DEF P
  <2> QED BY <1>1, <1>2, SubsetInduction
<1>4. S \in P
  BY <1>3
<1>5. \E x \in S : \A y \in S : x = y \/ RowBelow(x, y)
  BY <1>4 DEF Foremost
<1> QED BY <1>5 DEF FirstRow, Foremost

QueryTyped ==
    /\ query.kind \in {"objects", "uploads"} /\ query.prefix \in QueryPrefixes
    /\ query.maxKeys \in Nat \ {0}
    /\ query.kind = "uploads" => query.delimited = FALSE

\* The rows a listing may report, and the space its entries are in.
Candidates == {row \in RowsOf(query.kind) : IsPrefix(query.prefix, row[1])}
EntrySpace == IF query.kind = "objects" THEN Seq(Nat) ELSE TableRows

LEMMA CandidateIs ==
    ASSUME QueryTyped, NEW row \in Candidates
    PROVE  /\ row \in TableRows /\ row[1] \in ObjectKeys /\ Listable(row[1])
           /\ query.kind = "objects" => row = <<row[1], 0>>
<1>1. row \in RowsOf(query.kind) /\ IsPrefix(query.prefix, row[1])
  BY DEF Candidates
<1>2. row \in ObjectKeys \X Nat /\ (query.kind = "objects" => row \in ObjectKeys \X {0})
  <2>1. UploadIds \subseteq Nat /\ 0 \in Nat
    BY ListingConstants
  <2>2. CASE query.kind = "objects"
    BY <1>1, <2>1, <2>2 DEF RowsOf
  <2>3. CASE query.kind # "objects"
    BY <1>1, <2>1, <2>3 DEF RowsOf
  <2> QED BY <2>2, <2>3
<1>3. row[1] \in ObjectKeys /\ row[1] \in Seq(Nat) /\ row[2] \in Nat /\ row = <<row[1], row[2]>>
  BY <1>2, ListingConstants
<1> QED BY <1>1, <1>2, <1>3 DEF TableRows, Listable

LEMMA EntryTyped ==
    ASSUME QueryTyped, NEW row \in Candidates
    PROVE  ListedAs(row) \in EntrySpace /\ ListedAs(row) # <<>>
<1>1. row \in TableRows /\ row[1] \in ObjectKeys /\ Listable(row[1]) /\ query.prefix \in Seq(Nat)
  BY CandidateIs, ListingConstants DEF QueryTyped
<1>2. CASE query.kind = "objects"
  <2>1. EntryOf(row[1]) \in Seq(Nat) /\ IsPrefix(EntryOf(row[1]), row[1])
    BY <1>1, EntryAgain DEF Listable
  <2>2. EntryOf(row[1]) # <<>>
    <3>1. PICK k : k = row[1]
      OBVIOUS
    <3>2. PICK c : CutAt(k, c)
      BY <1>1, <3>1, HasCut
    <3>3. CASE Splits(k) = {}
      <4>1. EntryOf(k) = k
        BY <3>3 DEF EntryOf
      <4> QED BY <1>1, <3>1, <4>1, ListingConstants
    <3>4. CASE Splits(k) # {}
      <4>1. c \in (Len(query.prefix) + 1)..Len(k) /\ Len(EntryOf(k)) = c
        BY <3>2, <3>4 DEF CutAt, Splits
      <4>2. Len(EntryOf(k)) # 0
        BY <1>1, <4>1, Letters
      <4> QED BY <3>1, <4>2
    <3> QED BY <3>3, <3>4
  <2> QED BY <1>2, <2>1, <2>2 DEF ListedAs, EntrySpace
<1>3. CASE query.kind # "objects"
  <2>1. PICK k, n : row = <<k, n>>
    BY <1>1 DEF TableRows
  <2>2. <<k, n>> # <<>>
    OBVIOUS
  <2> QED BY <1>1, <1>3, <2>1, <2>2 DEF ListedAs, EntrySpace
<1> QED BY <1>2, <1>3

LEMMA OrderIrreflexive ==
    ASSUME NEW a \in EntrySpace
    PROVE  ~InOrder(a, a)
BY BelowIrreflexive, RowIrreflexive DEF EntrySpace, InOrder

LEMMA OrderTransitive ==
    ASSUME NEW a \in EntrySpace, NEW b \in EntrySpace, NEW c \in EntrySpace,
           InOrder(a, b), InOrder(b, c)
    PROVE  InOrder(a, c)
<1>1. CASE query.kind = "objects"
  BY <1>1, BelowTransitive DEF EntrySpace, InOrder
<1>2. CASE query.kind # "objects"
  BY <1>2, RowTransitive DEF EntrySpace, InOrder
<1> QED BY <1>1, <1>2

\* What a round of the walk leaves of the rows.
Dropped(row, t) ==
    {other \in t \ {row} : Splits(row[1]) # {} => ~IsPrefix(EntryOf(row[1]), other[1])}

\* A round leaves the rows whose entry comes after the one it reports, and skips
\* no entry.
LEMMA RoundLeaves ==
    ASSUME QueryTyped, NEW t \in SUBSET Candidates, NEW row, Foremost(row, t), NEW other \in t
    PROVE  /\ other \in Dropped(row, t) <=> InOrder(ListedAs(row), ListedAs(other))
           /\ other \in Dropped(row, t) \/ ListedAs(other) = ListedAs(row)
<1>1. /\ query.prefix \in Seq(Nat) /\ row \in t
      /\ row \in Candidates /\ other \in Candidates /\ (other = row \/ RowBelow(row, other))
  BY ListingConstants DEF QueryTyped, Foremost
<1>2. /\ row \in TableRows /\ Listable(row[1]) /\ (query.kind = "objects" => row = <<row[1], 0>>)
      /\ other \in TableRows /\ Listable(other[1]) /\ (query.kind = "objects" => other = <<other[1], 0>>)
  BY <1>1, CandidateIs
<1>3. CASE other = row
  <2>1. ~InOrder(ListedAs(row), ListedAs(row))
    BY <1>1, EntryTyped, OrderIrreflexive
  <2> QED BY <1>3, <2>1 DEF Dropped
<1>4. CASE other # row /\ query.kind = "objects"
  <2>1. PICK k, l, d, e : k = row[1] /\ l = other[1] /\ d = EntryOf(row[1]) /\ e = EntryOf(other[1])
    OBVIOUS
  <2>2. k # l /\ Listable(k) /\ Listable(l) /\ d = EntryOf(k) /\ e = EntryOf(l)
    BY <1>2, <1>4, <2>1
  <2>3. Below(k, l)
    <3>1. row[2] = 0 /\ other[2] = 0
      BY <1>2, <1>4
    <3>2. ~(row[2] < other[2])
      BY <3>1
    <3> QED BY <1>1, <1>4, <2>1, <3>2 DEF RowBelow
  <2>4. d = e \/ Below(d, e)
    BY <1>1, <2>2, <2>3, EntryMonotone
  <2>5. d = e <=> Splits(k) # {} /\ IsPrefix(d, l)
    BY <1>1, <2>2, SameGroup
  <2>6. ~Below(d, d)
    <3>1. d \in Seq(Nat)
      BY <1>1, <2>2, EntryAgain DEF Listable
    <3> QED BY <3>1, BelowIrreflexive
  <2>7. other \in Dropped(row, t) <=> ~(Splits(k) # {} /\ IsPrefix(d, l))
    BY <1>1, <1>4, <2>1 DEF Dropped
  <2>8. ListedAs(row) = d /\ ListedAs(other) = e /\ (InOrder(d, e) <=> Below(d, e))
    BY <1>4, <2>1 DEF ListedAs, InOrder
  <2> QED BY ONLY <2>4, <2>5, <2>6, <2>7, <2>8
<1>5. CASE other # row /\ query.kind # "objects"
  <2>1. Splits(row[1]) = {}
    BY <1>5 DEF QueryTyped, Splits
  <2>2. other \in Dropped(row, t)
    BY <1>5, <2>1 DEF Dropped
  <2>3. ListedAs(row) = row /\ ListedAs(other) = other /\ InOrder(row, other)
    BY <1>1, <1>5 DEF ListedAs, InOrder
  <2> QED BY <2>2, <2>3
<1> QED BY <1>3, <1>4, <1>5

\* The states of the walk, and one round of it.
WalkStates == [out : Seq(EntrySpace), rest : SUBSET Candidates]
WalkRound ==
    [w \in WalkStates |->
        IF w.rest = {} THEN w
        ELSE [out |-> Append(w.out, ListedAs(FirstRow(w.rest))),
              rest |-> Dropped(FirstRow(w.rest), w.rest)]]

\* What the walk over M has done after n rounds: the entries reported ascend and
\* are of rows of M, each row of M is reported or left, and what is left comes after
\* what is reported.
Walked(w, M, n) ==
    /\ w \in WalkStates
    /\ w.rest \subseteq M
    /\ \A i, j \in 1..Len(w.out) : i < j => InOrder(w.out[i], w.out[j])
    /\ \A i \in 1..Len(w.out) : \E row \in M : w.out[i] = ListedAs(row)
    /\ \A row \in M : row \in w.rest \/ \E i \in 1..Len(w.out) : w.out[i] = ListedAs(row)
    /\ \A row \in w.rest : \A i \in 1..Len(w.out) : InOrder(w.out[i], ListedAs(row))
    /\ w.rest = {} \/ Len(w.out) = n

LEMMA CandidatesFinite ==
    ASSUME QueryTyped, NEW t \in SUBSET Candidates
    PROVE  IsFiniteSet(t) /\ t \subseteq TableRows
<1>1. IsFiniteSet(ObjectKeys \X {0}) /\ IsFiniteSet(ObjectKeys \X UploadIds)
  <2>1. IsFiniteSet({0})
    BY FS_Singleton
  <2> QED BY <2>1, FS_Product, ListingConstants
<1>2. IsFiniteSet(RowsOf(query.kind))
  BY <1>1 DEF RowsOf
<1>3. t \subseteq RowsOf(query.kind)
  BY DEF Candidates
<1>4. IsFiniteSet(t)
  BY <1>2, <1>3, FS_Subset
<1> QED BY <1>4, CandidateIs

\* A round reports the first row that is left.
LEMMA RoundWalks ==
    ASSUME QueryTyped, NEW M \in SUBSET Candidates, NEW n \in Nat, NEW w, Walked(w, M, n)
    PROVE  WalkRound[w] \in WalkStates /\ Walked(WalkRound[w], M, n + 1)
<1>1. w \in WalkStates /\ w.out \in Seq(EntrySpace) /\ w.rest \in SUBSET Candidates /\ w.rest \subseteq M
  BY DEF Walked, WalkStates
<1>2. CASE w.rest = {}
  <2>1. WalkRound[w] = w
    BY <1>1, <1>2 DEF WalkRound
  <2>2. Walked(w, M, n + 1)
    BY <1>2 DEF Walked
  <2> QED BY <1>1, <2>1, <2>2
<1>3. CASE w.rest # {}
  <2>1. PICK row, e, t : row = FirstRow(w.rest) /\ e = ListedAs(row) /\ t = Dropped(row, w.rest)
    OBVIOUS
  <2>2. Foremost(row, w.rest)
    BY <1>1, <1>3, <2>1, CandidatesFinite, HasFirst
  <2>3. row \in w.rest /\ row \in Candidates /\ row \in M
    BY <1>1, <2>2 DEF Foremost
  <2>4. e \in EntrySpace
    BY <2>1, <2>3, EntryTyped
  <2>5. PICK o : o = Append(w.out, e)
    OBVIOUS
  <2>6. PICK m \in Nat : m = Len(w.out)
    BY <1>1, LenProperties
  <2>7. o \in Seq(EntrySpace) /\ Len(o) = m + 1 /\ o[m + 1] = e /\ \A i \in 1..m : o[i] = w.out[i]
    BY <1>1, <2>4, <2>5, <2>6, AppendProperties
  <2>8. t \subseteq w.rest /\ \A other \in w.rest : (other \in t <=> InOrder(e, ListedAs(other))) /\ (other \in t \/ ListedAs(other) = e)
    <3>1. t \subseteq w.rest
      BY <2>1 DEF Dropped
    <3>2. ASSUME NEW other \in w.rest
          PROVE  (other \in t <=> InOrder(e, ListedAs(other))) /\ (other \in t \/ ListedAs(other) = e)
      BY <1>1, <2>1, <2>2, RoundLeaves
    <3> QED BY <3>1, <3>2
  <2>9. PICK v : v = [out |-> o, rest |-> t]
    OBVIOUS
  <2>10. WalkRound[w] = v
    BY <1>1, <1>3, <2>1, <2>5, <2>9 DEF WalkRound
  <2>11. v \in WalkStates /\ v.out = o /\ v.rest = t
    BY <1>1, <2>7, <2>8, <2>9 DEF WalkStates
  <2>12. \A i \in 1..Len(o) : i = m + 1 \/ i \in 1..m
    BY <2>7
  <2>13. /\ \A i, j \in 1..m : i < j => InOrder(w.out[i], w.out[j])
         /\ \A i \in 1..m : \E r \in M : w.out[i] = ListedAs(r)
         /\ \A r \in M : r \in w.rest \/ \E i \in 1..m : w.out[i] = ListedAs(r)
         /\ \A r \in w.rest : \A i \in 1..m : InOrder(w.out[i], ListedAs(r))
         /\ m = n
    BY <1>3, <2>6 DEF Walked
  <2>14. ASSUME NEW i \in 1..Len(o), NEW j \in 1..Len(o), i < j
         PROVE  InOrder(o[i], o[j])
    <3>1. i \in 1..m
      BY <2>7, <2>14
    <3>2. CASE j = m + 1
      BY <2>1, <2>3, <2>7, <2>13, <3>1, <3>2
    <3>3. CASE j \in 1..m
      BY <2>7, <2>13, <2>14, <3>1, <3>3
    <3> QED BY <2>12, <3>2, <3>3
  <2>15. ASSUME NEW i \in 1..Len(o) PROVE \E r \in M : o[i] = ListedAs(r)
    <3>1. CASE i = m + 1
      BY <2>1, <2>3, <2>7, <3>1
    <3>2. CASE i \in 1..m
      BY <2>7, <2>13, <3>2
    <3> QED BY <2>12, <3>1, <3>2
  <2>16. ASSUME NEW r \in M PROVE r \in t \/ \E i \in 1..Len(o) : o[i] = ListedAs(r)
    <3>1. CASE r \in w.rest
      <4>1. m + 1 \in 1..Len(o)
        BY <2>7
      <4> QED BY <2>7, <2>8, <3>1, <4>1
    <3>2. CASE r \notin w.rest
      <4>1. PICK i \in 1..m : w.out[i] = ListedAs(r)
        BY <2>13, <3>2
      <4>2. i \in 1..Len(o)
        BY <2>7
      <4> QED BY <2>7, <4>1, <4>2
    <3> QED BY <3>1, <3>2
  <2>17. ASSUME NEW r \in t, NEW i \in 1..Len(o) PROVE InOrder(o[i], ListedAs(r))
    <3>1. CASE i = m + 1
      BY <2>7, <2>8, <3>1
    <3>2. CASE i \in 1..m
      BY <2>7, <2>8, <2>13, <3>2
    <3> QED BY <2>12, <3>1, <3>2
  <2>18. t \subseteq M
    BY <1>1, <2>8
  <2>19. Len(o) = n + 1
    BY <2>7, <2>13
  <2>20. Walked(v, M, n + 1)
    BY <2>11, <2>14, <2>15, <2>16, <2>17, <2>18, <2>19 DEF Walked
  <2> QED BY <2>10, <2>11, <2>20
<1> QED BY <1>2, <1>3

\* The walk as the recursive function it stands for.
WalkEq(g, M) ==
    g = [n \in 0..query.maxKeys |->
           IF n = 0 THEN [out |-> <<>>, rest |-> M]
           ELSE IF g[n - 1].rest = {} THEN g[n - 1]
           ELSE [out |-> Append(g[n - 1].out, ListedAs(FirstRow(g[n - 1].rest))),
                 rest |-> Dropped(FirstRow(g[n - 1].rest), g[n - 1].rest)]]

LEMMA WalkUnfolds ==
    ASSUME NEW M
    PROVE  Walk(M) = [entries |-> (CHOOSE g : WalkEq(g, M))[query.maxKeys].out,
                      truncated |-> (CHOOSE g : WalkEq(g, M))[query.maxKeys].rest # {}]
BY Zenon DEF Walk, Dropped, WalkEq

LEMMA RoundTyped ==
    ASSUME QueryTyped
    PROVE  WalkRound \in [WalkStates -> WalkStates]
<1>1. ASSUME NEW w \in WalkStates, w.rest # {}
      PROVE  [out |-> Append(w.out, ListedAs(FirstRow(w.rest))),
              rest |-> Dropped(FirstRow(w.rest), w.rest)] \in WalkStates
  <2>1. w.out \in Seq(EntrySpace) /\ w.rest \in SUBSET Candidates
    BY DEF WalkStates
  <2>2. PICK row, e : row = FirstRow(w.rest) /\ e = ListedAs(row)
    OBVIOUS
  <2>3. row \in Candidates
    BY <1>1, <2>1, <2>2, CandidatesFinite, HasFirst DEF Foremost
  <2>4. e \in EntrySpace
    BY <2>2, <2>3, EntryTyped
  <2>5. Append(w.out, e) \in Seq(EntrySpace)
    BY <2>1, <2>4, AppendProperties
  <2>6. Dropped(row, w.rest) \in SUBSET Candidates
    BY <2>1 DEF Dropped
  <2> QED BY <2>2, <2>5, <2>6 DEF WalkStates
<1> QED BY <1>1 DEF WalkRound

\* A page is what the walk has done when it is full or nothing is left.
LEMMA WalkDone ==
    ASSUME QueryTyped, NEW M \in SUBSET Candidates
    PROVE  \E w : /\ Walked(w, M, query.maxKeys)
                  /\ Walk(M) = [entries |-> w.out, truncated |-> w.rest # {}]
<1>1. PICK N \in Nat : N = query.maxKeys
  BY DEF QueryTyped
<1>2. PICK a : a = [out |-> <<>>, rest |-> M]
  OBVIOUS
<1>3. a \in WalkStates /\ Walked(a, M, 0)
  <2>1. PICK o : o = <<>>
    OBVIOUS
  <2>2. o \in Seq(EntrySpace) /\ Len(o) = 0 /\ 1..Len(o) = {}
    BY <2>1
  <2>3. a.out = o /\ a.rest = M /\ a \in WalkStates
    BY <1>2, <2>1, <2>2 DEF WalkStates
  <2> QED BY <2>2, <2>3 DEF Walked
<1>4. PICK S, F : S = WalkStates /\ F = WalkRound
  OBVIOUS
<1>5. PICK G : G = [i \in 1..N |-> F]
  OBVIOUS
<1>6. a \in S /\ G \in [1..N -> [S -> S]]
  BY <1>3, <1>4, <1>5, RoundTyped
<1>7. HasRun(S, a, G, N)
  BY ONLY N \in Nat, <1>6, LoopRuns
<1>8. PICK f \in [0..N -> S] : IsRun(f, a, G, N)
  BY <1>7 DEF HasRun
<1>9. f[0] = a /\ \A i \in 1..N : f[i] = WalkRound[f[i - 1]]
  BY <1>4, <1>5, <1>8 DEF IsRun
<1>10. WalkEq(f, M)
  <2>1. ASSUME NEW n \in 0..N, n # 0
        PROVE  f[n] = IF f[n - 1].rest = {} THEN f[n - 1]
                      ELSE [out |-> Append(f[n - 1].out, ListedAs(FirstRow(f[n - 1].rest))),
                            rest |-> Dropped(FirstRow(f[n - 1].rest), f[n - 1].rest)]
    <3>1. n \in 1..N /\ n - 1 \in 0..N
      BY <2>1
    <3>2. f[n - 1] \in WalkStates
      BY <1>4, <1>8, <3>1
    <3>3. f[n] = WalkRound[f[n - 1]]
      BY <1>9, <3>1
    <3> QED BY <3>2, <3>3 DEF WalkRound
  <2>2. f = [n \in 0..N |-> f[n]]
    BY <1>8
  <2> QED BY <1>1, <1>2, <1>9, <2>1, <2>2 DEF WalkEq
<1>11. PICK c : c = CHOOSE g : WalkEq(g, M)
  OBVIOUS
<1>12. WalkEq(c, M)
  BY <1>10, <1>11
<1>13. Walk(M) = [entries |-> c[N].out, truncated |-> c[N].rest # {}]
  BY <1>1, <1>11, WalkUnfolds, Zenon
<1>14. c[0] = a
  BY <1>1, <1>2, <1>12 DEF WalkEq
<1>15. ASSUME NEW n \in 1..N, c[n - 1] \in WalkStates
       PROVE  c[n] = WalkRound[c[n - 1]]
  <2>1. n \in 0..query.maxKeys /\ n # 0
    BY <1>1
  <2>2. c[n] = IF c[n - 1].rest = {} THEN c[n - 1]
                      ELSE [out |-> Append(c[n - 1].out, ListedAs(FirstRow(c[n - 1].rest))),
                            rest |-> Dropped(FirstRow(c[n - 1].rest), c[n - 1].rest)]
    BY <1>12, <2>1 DEF WalkEq
  <2> QED BY <1>15, <2>2 DEF WalkRound
<1> DEFINE P == {n \in 0..N : Walked(c[n], M, n)}
<1>16. 0 \in P
  BY <1>3, <1>14
<1>17. ASSUME NEW n \in 1..N, n - 1 \in P
       PROVE  n \in P
  <2>1. PICK m \in Nat : m = n - 1
    OBVIOUS
  <2>2. Walked(c[m], M, m) /\ c[m] \in WalkStates
    BY <1>17, <2>1 DEF Walked
  <2>3. c[n] = WalkRound[c[m]]
    BY <1>15, <2>1, <2>2
  <2>4. Walked(WalkRound[c[m]], M, m + 1)
    BY <2>2, RoundWalks
  <2>5. m + 1 = n
    BY <2>1
  <2> QED BY <2>3, <2>4, <2>5
<1> HIDE DEF P
<1>18. \A n \in 0..N : n \in P
  <2>1. \A n \in 1..N : n - 1 \in P => n \in P
    BY <1>17
  <2> QED BY ONLY N \in Nat, <1>16, <2>1, StepInduction
<1>19. Walked(c[N], M, N)
  BY <1>18 DEF P
<1> QED BY <1>1, <1>13, <1>19

-----------------------------------------------------------------------------
\* A row that was there all along is listed, or comes after what is listed.
Accounted(row) ==
    \/ \E i \in 1..Len(listed) : listed[i] = ListedAs(row)
    \/ paging = "paging" /\ (Len(listed) = 0 \/ InOrder(listed[Len(listed)], ListedAs(row)))

\* The inductive form: the marker is the last entry listed, the one of some row,
\* and every steady row is covered.
ListingInv ==
    /\ QueryTyped
    /\ rows \subseteq RowsOf(query.kind) /\ steady \subseteq rows
    /\ listed \in Seq(EntrySpace)
    /\ \A i, j \in 1..Len(listed) : i < j => InOrder(listed[i], listed[j])
    /\ paging = "paging" =>
         \/ Len(listed) = 0 /\ marker = <<>>
         \/ /\ Len(listed) # 0 /\ marker = listed[Len(listed)]
            /\ \E row \in Candidates : marker = ListedAs(row)
    /\ \A row \in steady : IsPrefix(query.prefix, row[1]) => Accounted(row)

LEMMA ListingInvExact ==
    ASSUME ListingInv
    PROVE  ListingExact
BY DEF ListingInv, ListingExact, ListedOnce, ListedAll, Accounted

LEMMA ListingStarts ==
    ASSUME ListingInit
    PROVE  ListingInv
<1>1. QueryTyped /\ rows \subseteq RowsOf(query.kind)
  <2>1. 1..MaxKeys \subseteq Nat \ {0}
    BY ListingConstants
  <2>2. CASE query \in [kind : {"objects"}, prefix : QueryPrefixes, delimited : BOOLEAN,
                        maxKeys : 1..MaxKeys]
    BY <2>1, <2>2 DEF ListingInit, QueryTyped
  <2>3. CASE query \in [kind : {"uploads"}, prefix : QueryPrefixes, delimited : {FALSE},
                        maxKeys : 1..MaxKeys]
    BY <2>1, <2>3 DEF ListingInit, QueryTyped
  <2> QED BY <2>2, <2>3 DEF ListingInit
<1>2. listed \in Seq(EntrySpace) /\ Len(listed) = 0 /\ marker = <<>> /\ paging = "paging" /\ steady = rows
  BY DEF ListingInit
<1>3. 1..Len(listed) = {}
  BY <1>2
<1> QED BY <1>1, <1>2, <1>3 DEF ListingInv, Accounted

\* The rows a page is taken from: those whose entry comes after the marker.
Beyond ==
    {row \in rows : IsPrefix(query.prefix, row[1])
                    /\ (Len(listed) = 0 \/ InOrder(listed[Len(listed)], ListedAs(row)))}

\* Both listings resume with them.
LEMMA PageOf ==
    ASSUME NoFolderMarker, ListingInv, paging = "paging"
    PROVE  /\ Beyond \in SUBSET Candidates
           /\ (IF query.kind = "objects" THEN ObjectPage(marker) ELSE UploadPage(marker)) = Walk(Beyond)
<1>1. QueryTyped /\ rows \subseteq RowsOf(query.kind) /\ query.prefix \in QueryPrefixes
  BY DEF ListingInv, QueryTyped
<1>2. \A row \in rows : IsPrefix(query.prefix, row[1]) => row \in Candidates
  BY <1>1 DEF Candidates
<1>3. Beyond \in SUBSET Candidates
  BY <1>2 DEF Beyond
<1>4. CASE query.kind = "objects"
  <2>1. ASSUME NEW row \in rows, IsPrefix(query.prefix, row[1])
        PROVE  resumePoint(row[1], marker) <=> (Len(listed) = 0 \/ InOrder(listed[Len(listed)], ListedAs(row)))
    <3>1. Listable(row[1])
      BY <1>1, <1>2, <2>1, CandidateIs
    <3>2. CASE Len(listed) = 0
      <4>1. marker = <<>>
        BY <3>2 DEF ListingInv
      <4> QED BY <3>2, <4>1 DEF resumePoint
    <3>3. CASE Len(listed) # 0
      <4>1. PICK old \in Candidates : marker = ListedAs(old)
        BY <3>3 DEF ListingInv
      <4>2. marker = listed[Len(listed)]
        BY <3>3 DEF ListingInv
      <4>3. PICK x, k : x = old[1] /\ k = row[1]
        OBVIOUS
      <4>4. x \in ObjectKeys /\ Listable(x) /\ Listable(k)
        BY <1>1, <3>1, <4>3, CandidateIs
      <4>5. resumePoint(k, EntryOf(x)) <=> Below(EntryOf(x), EntryOf(k))
        BY <1>1, <4>4, ResumesBeyond
      <4>6. marker = EntryOf(x) /\ ListedAs(row) = EntryOf(k)
        BY <1>4, <4>1, <4>3 DEF ListedAs
      <4>7. InOrder(marker, ListedAs(row)) <=> Below(marker, ListedAs(row))
        BY <1>4 DEF InOrder
      <4> QED BY <3>3, <4>2, <4>3, <4>5, <4>6, <4>7
    <3> QED BY <3>2, <3>3
  <2>2. {row \in rows : IsPrefix(query.prefix, row[1]) /\ resumePoint(row[1], marker)} = Beyond
    BY <2>1 DEF Beyond
  <2> QED BY <1>3, <1>4, <2>2 DEF ObjectPage
<1>5. CASE query.kind # "objects"
  <2>1. ASSUME NEW row \in rows, IsPrefix(query.prefix, row[1])
        PROVE  (marker = <<>> \/ RowBelow(marker, row)) <=> (Len(listed) = 0 \/ InOrder(listed[Len(listed)], ListedAs(row)))
    <3>1. CASE Len(listed) = 0
      BY <3>1 DEF ListingInv
    <3>2. CASE Len(listed) # 0
      <4>1. marker = listed[Len(listed)] /\ marker # <<>>
        BY <1>1, <3>2, EntryTyped DEF ListingInv
      <4> QED BY <1>5, <3>2, <4>1 DEF InOrder, ListedAs
    <3> QED BY <3>1, <3>2
  <2>2. {row \in rows : IsPrefix(query.prefix, row[1]) /\ (marker = <<>> \/ RowBelow(marker, row))} = Beyond
    BY <2>1 DEF Beyond
  <2> QED BY <1>3, <1>5, <2>2 DEF UploadPage
<1> QED BY <1>4, <1>5

\* What depends on the query alone.
LEMMA SameQuery ==
    ASSUME query' = query
    PROVE  /\ QueryTyped' = QueryTyped /\ EntrySpace' = EntrySpace /\ Candidates' = Candidates
           /\ \A row : ListedAs(row)' = ListedAs(row)
           /\ \A a, b : InOrder(a, b)' = InOrder(a, b)
<1>1. QueryTyped' = QueryTyped /\ EntrySpace' = EntrySpace /\ Candidates' = Candidates
  BY DEF QueryTyped, EntrySpace, Candidates
<1>2. \A row : ListedAs(row)' = ListedAs(row)
  BY DEF ListedAs, EntryOf, Splits
<1>3. \A a, b : InOrder(a, b)' = InOrder(a, b)
  BY DEF InOrder
<1> QED BY <1>1, <1>2, <1>3

\* Rows come and go between two pages.
LEMMA ChangeKeepsListing ==
    ASSUME ListingInv, NEW row \in RowsOf(query.kind), ChangeRow(row)
    PROVE  ListingInv'
<1>1. UNCHANGED <<query, marker, listed, paging>>
  BY DEF ChangeRow
<1>2. rows' \subseteq RowsOf(query.kind) /\ steady' \subseteq rows' /\ steady' \subseteq steady
  BY DEF ChangeRow, ListingInv
<1>3. \A r \in steady' : IsPrefix(query.prefix, r[1]) => Accounted(r)'
  <2>1. ASSUME NEW r \in steady', IsPrefix(query.prefix, r[1]) PROVE Accounted(r)'
    <3>1. Accounted(r)
      BY <1>2, <2>1 DEF ListingInv
    <3> QED BY <1>1, <3>1, SameQuery DEF Accounted
  <2> QED BY <2>1
<1> QED BY <1>1, <1>2, <1>3, SameQuery DEF ListingInv

\* A page adds what comes after the marker, in order, up to the next marker.
LEMMA PageKeepsListing ==
    ASSUME NoFolderMarker, ListingInv, NextPage
    PROVE  ListingInv'
<1>1. paging = "paging" /\ QueryTyped /\ UNCHANGED <<rows, query, steady, changes>>
  BY DEF NextPage, ListingInv
<1>2. PICK M : M = Beyond
  OBVIOUS
<1>3. M \in SUBSET Candidates
  BY <1>1, <1>2, PageOf
<1>4. PICK w : Walked(w, M, query.maxKeys) /\ Walk(M) = [entries |-> w.out, truncated |-> w.rest # {}]
  BY <1>1, <1>3, WalkDone
<1>5. /\ listed' = listed \o w.out
      /\ paging' = IF w.rest # {} THEN "paging" ELSE "done"
      /\ marker' = IF w.rest # {} THEN Last(w.out) ELSE <<>>
  <2>1. PICK page : page = Walk(M)
    OBVIOUS
  <2>2. (IF query.kind = "objects" THEN ObjectPage(marker) ELSE UploadPage(marker)) = page
    BY <1>1, <1>2, <2>1, PageOf
  <2>3. page.entries = w.out /\ page.truncated = (w.rest # {})
    BY <1>4, <2>1
  <2> QED BY <2>2, <2>3 DEF NextPage
<1>6. PICK m, n : m = Len(listed) /\ n = Len(w.out)
  OBVIOUS
<1>7. /\ listed \in Seq(EntrySpace) /\ w.out \in Seq(EntrySpace) /\ m \in Nat /\ n \in Nat
      /\ (\A i \in 1..m : listed[i] \in EntrySpace) /\ (\A i \in 1..n : w.out[i] \in EntrySpace)
  <2>1. listed \in Seq(EntrySpace) /\ w.out \in Seq(EntrySpace)
    BY <1>4 DEF ListingInv, Walked, WalkStates
  <2> QED BY <1>6, <2>1, LenProperties, ElementOfSeq
<1>8. PICK l : l = listed'
  OBVIOUS
<1>9. /\ l \in Seq(EntrySpace) /\ Len(l) = m + n
      /\ \A i \in 1..(m + n) : l[i] = IF i <= m THEN listed[i] ELSE w.out[i - m]
  BY <1>5, <1>6, <1>7, <1>8, ConcatProperties
<1>10. (\A i \in 1..m : i \in 1..(m + n) /\ l[i] = listed[i]) /\ \A i \in 1..n : m + i \in 1..(m + n) /\ l[m + i] = w.out[i]
  <2>1. ASSUME NEW i \in 1..m PROVE i \in 1..(m + n) /\ l[i] = listed[i]
    BY <1>7, <1>9
  <2>2. ASSUME NEW i \in 1..n PROVE m + i \in 1..(m + n) /\ l[m + i] = w.out[i]
    <3>1. PICK j : j = m + i
      OBVIOUS
    <3>2. j \in 1..(m + n) /\ ~(j <= m) /\ j - m = i
      BY <1>7, <3>1
    <3> QED BY <1>9, <3>1, <3>2
  <2> QED BY <2>1, <2>2
<1>11. ASSUME NEW i \in 1..(m + n) PROVE i \in 1..m \/ \E j \in 1..n : i = m + j
  <2>1. CASE i <= m
    BY <1>7, <2>1
  <2>2. CASE ~(i <= m)
    <3>1. i - m \in 1..n /\ i = m + (i - m)
      BY <1>7, <2>2
    <3> QED BY <3>1
  <2> QED BY <2>1, <2>2
<1>12. /\ \A i, j \in 1..n : i < j => InOrder(w.out[i], w.out[j])
       /\ \A i \in 1..n : \E row \in M : w.out[i] = ListedAs(row)
       /\ \A row \in M : row \in w.rest \/ \E i \in 1..n : w.out[i] = ListedAs(row)
       /\ \A row \in w.rest : \A i \in 1..n : InOrder(w.out[i], ListedAs(row))
       /\ w.rest = {} \/ n = query.maxKeys
  BY <1>4, <1>6 DEF Walked
<1>13. \A i, j \in 1..m : i < j => InOrder(listed[i], listed[j])
  BY <1>6 DEF ListingInv
<1>14. ASSUME NEW i \in 1..m, NEW j \in 1..n PROVE InOrder(listed[i], w.out[j])
  <2>1. PICK row \in M : w.out[j] = ListedAs(row)
    BY <1>12
  <2>2. m # 0 /\ m \in 1..m
    BY <1>7
  <2>3. InOrder(listed[m], w.out[j])
    BY <1>2, <1>6, <2>1, <2>2 DEF Beyond
  <2>4. i = m \/ i < m
    BY <1>7
  <2>5. CASE i < m
    <3>1. InOrder(listed[i], listed[m])
      BY <1>13, <2>2, <2>5
    <3> QED BY <1>7, <2>2, <2>3, <3>1, OrderTransitive
  <2> QED BY <2>3, <2>4, <2>5
<1>15. ASSUME NEW i \in 1..(m + n), NEW j \in 1..(m + n), i < j
       PROVE  InOrder(l[i], l[j])
  <2>1. CASE i \in 1..m /\ j \in 1..m
    BY <1>10, <1>13, <1>15, <2>1
  <2>2. CASE i \in 1..m /\ \E k \in 1..n : j = m + k
    BY <1>10, <1>14, <2>2
  <2>3. CASE (\E k \in 1..n : i = m + k) /\ \E k \in 1..n : j = m + k
    <3>1. PICK a \in 1..n : i = m + a
      BY <2>3
    <3>2. PICK b \in 1..n : j = m + b
      BY <2>3
    <3>3. a < b
      BY <1>7, <1>15, <3>1, <3>2
    <3>4. InOrder(w.out[a], w.out[b])
      BY <1>12, <3>3
    <3> QED BY <1>10, <3>1, <3>2, <3>4
  <2>4. CASE (\E k \in 1..n : i = m + k) /\ j \in 1..m
    <3>1. PICK a \in 1..n : i = m + a
      BY <2>4
    <3> QED BY <1>7, <1>15, <2>4, <3>1
  <2> QED BY <1>11, <2>1, <2>2, <2>3, <2>4
<1>16. ASSUME w.rest # {}
       PROVE  n # 0 /\ n \in 1..n /\ Len(l) # 0 /\ l[Len(l)] = w.out[n] /\ marker' = w.out[n]
  <2>1. n # 0 /\ n \in 1..n
    BY <1>1, <1>7, <1>12, <1>16 DEF QueryTyped
  <2>2. Len(l) # 0 /\ l[Len(l)] = w.out[n]
    BY <1>7, <1>9, <1>10, <2>1
  <2>3. marker' = w.out[n]
    BY <1>5, <1>6, <1>16 DEF Last
  <2> QED BY <2>1, <2>2, <2>3
<1>17. paging' = "paging" =>
         /\ Len(l) # 0 /\ marker' = l[Len(l)]
         /\ \E row \in Candidates : marker' = ListedAs(row)
  <2>1. SUFFICES ASSUME w.rest # {}
                 PROVE  /\ Len(l) # 0 /\ marker' = l[Len(l)]
                        /\ \E row \in Candidates : marker' = ListedAs(row)
    BY <1>5
  <2>2. \E row \in M : w.out[n] = ListedAs(row)
    BY <1>12, <1>16, <2>1
  <2> QED BY <1>3, <1>16, <2>1, <2>2
<1>18. ASSUME NEW row \in steady, IsPrefix(query.prefix, row[1])
       PROVE  \/ \E i \in 1..Len(l) : l[i] = ListedAs(row)
              \/ paging' = "paging" /\ InOrder(l[Len(l)], ListedAs(row))
  <2>1. Accounted(row) /\ row \in rows
    BY <1>18 DEF ListingInv
  <2>2. CASE \E i \in 1..m : listed[i] = ListedAs(row)
    <3>1. PICK i \in 1..m : listed[i] = ListedAs(row)
      BY <2>2
    <3> QED BY <1>9, <1>10, <3>1
  <2>3. CASE Len(listed) = 0 \/ InOrder(listed[Len(listed)], ListedAs(row))
    <3>1. row \in M
      BY <1>2, <1>18, <2>1, <2>3 DEF Beyond
    <3>2. CASE \E i \in 1..n : w.out[i] = ListedAs(row)
      <4>1. PICK i \in 1..n : w.out[i] = ListedAs(row)
        BY <3>2
      <4> QED BY <1>9, <1>10, <4>1
    <3>3. CASE row \in w.rest
      <4>1. w.rest # {} /\ paging' = "paging"
        BY <1>5, <3>3
      <4>2. n \in 1..n /\ l[Len(l)] = w.out[n]
        BY <1>16, <4>1
      <4>3. InOrder(w.out[n], ListedAs(row))
        BY <1>12, <3>3, <4>2
      <4> QED BY <4>1, <4>2, <4>3
    <3> QED BY <1>12, <3>1, <3>2, <3>3
  <2> QED BY <1>6, <2>1, <2>2, <2>3 DEF Accounted
<1>19. \A row \in steady' : IsPrefix(query'.prefix, row[1]) => Accounted(row)'
  <2>1. ASSUME NEW row \in steady, IsPrefix(query.prefix, row[1])
        PROVE  Accounted(row)'
    BY <1>1, <1>8, <1>18, <2>1, SameQuery DEF Accounted
  <2> QED BY <1>1, <2>1
<1>20. \A i, j \in 1..Len(l) : i < j => InOrder(l[i], l[j])'
  BY <1>1, <1>9, <1>15, SameQuery
<1> QED BY <1>1, <1>8, <1>9, <1>17, <1>19, <1>20, SameQuery DEF ListingInv

LEMMA ListingInductive ==
    ASSUME NoFolderMarker, ListingInv, [ListingNext]_listingVars
    PROVE  ListingInv'
<1>1. CASE UNCHANGED listingVars
  BY <1>1, SameQuery DEF ListingInv, listingVars, Accounted
<1> QED BY <1>1, PageKeepsListing, ChangeKeepsListing DEF ListingNext

\* A client that follows the markers meets every row that was there all along
\* exactly once, as itself or in its group, in ascending order, whatever is stored
\* and deleted between two pages and wherever a page ends: unless an object has the
\* name of a folder the client lists.
THEOREM ListingSafety ==
    ASSUME NoFolderMarker
    PROVE  ListingSpec => []ListingExact
<1>1. ListingInit => ListingInv
  BY ListingStarts
<1>2. ListingInv /\ [ListingNext]_listingVars => ListingInv'
  BY ListingInductive
<1>3. ListingInv => ListingExact
  BY ListingInvExact
<1> QED BY <1>1, <1>2, <1>3, PTL DEF ListingSpec
=============================================================================
