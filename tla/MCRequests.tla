----------------------------- MODULE MCRequests -----------------------------
(***************************************************************************)
(* The parts a request passes through that share no variable: its identity *)
(* and permission, its body, cross-origin answers, listings, reads of an   *)
(* object under overwrites, and what a power cut leaves of the writes. A   *)
(* behaviour moves one of them and the others stay in one initial state.   *)
(* RequestPath moves in two ways, of which a signed request concerns the   *)
(* first and an anonymous one the second: with the keys, the owner, the    *)
(* clock and the network ("identity"), and with the bucket's records and   *)
(* the cached one ("access").                                              *)
(***************************************************************************)
EXTENDS RequestPath, ChunkedBody, Cors, Listing, ObjectReads, PowerLoss

Form(method, bucket, object, names) ==
    [method |-> method, bucket |-> bucket, object |-> object, query |-> names]

\* One request of each kind the router tells apart: the service, the bucket's
\* settings and listing, a batch deletion, an object read and written, a
\* malformed part upload and a preflight.
SomeForms ==
    {Form("GET", "", FALSE, {}), Form("GET", "b", FALSE, {"policy"}), Form("HEAD", "b", FALSE, {}),
     Form("POST", "b", FALSE, {"delete"}), Form("GET", "b", TRUE, {}), Form("PUT", "b", TRUE, {}),
     Form("PUT", "b", TRUE, {"partNumber"}), Form("OPTIONS", "b", TRUE, {})}

Statement(effect, resources, actions) ==
    [effect |-> effect, qualified |-> FALSE, principals |-> {"everybody"},
     resources |-> resources, actions |-> actions]

SomeStatements ==
    {Statement("Allow", {"objects"}, {"GetObject"}), Statement("Allow", {"bucket"}, {"*"}),
     Statement("Allow", {"objects"}, {"ListBucket"}), Statement("Deny", {"part"}, {"GetObject"}),
     Statement("Allow", {"part"}, {"GetObject"}),
     [Statement("Allow", {"*"}, {"*"}) EXCEPT !.qualified = TRUE]}

SomeDocuments == {<<s>> : s \in SomeStatements} \cup (SomeStatements \X SomeStatements)

\* Those that a bucket may open to everybody.
OpenForms == {Form("GET", "b", TRUE, {}), Form("GET", "b", FALSE, {})}

Rule(origins, methods, headers, age) ==
    [allowedOrigins |-> origins, allowedMethods |-> methods, allowedHeaders |-> headers,
     maxAge |-> age]

\* The last six are refused.
SomeRules ==
    {Rule({<<1, 2, 0, 2, 1>>}, {"GET"}, {<<13>>}, 0), Rule({<<0>>}, {"put", "GET"}, {}, 1),
     Rule({<<1, 2, 1>>}, {"HEAD"}, {<<0>>}, 0), Rule({<<1, 0>>, <<2>>}, {"DELETE"}, {<<3>>}, 1),
     Rule({<<0, 1, 0>>}, {"GET"}, {}, 0), Rule({<<>>}, {"GET"}, {}, 0), Rule({}, {"GET"}, {}, 0),
     Rule({<<1>>}, {"PATCH"}, {}, 0), Rule({<<1>>}, {}, {}, 0), Rule({<<1>>}, {"GET"}, {}, 2)}

SomeOrigins == {<<1, 2, 1>>, <<2>>, <<1, 2, 2, 1>>}
SomeHeaders == {<<3>>, <<13>>}

\* 3 is a letter and 2 the delimiter.
SomeKeys == {<<3>>, <<3, 2, 1>>, <<3, 2, 3>>, <<3, 3>>}
FolderKeys == {<<3, 2>>, <<3, 2, 1>>, <<3, 3>>}
SomePrefixes == {<<>>, <<3>>, <<3, 2>>}

SlotLevels == [s1 |-> "strict", r1 |-> "relaxed", n1 |-> "none", p1 |-> "none"]
SomeShards == <<"d1", "d1">>

VARIABLE moving   \* which of them this behaviour is about

Parts == {"identity", "access", "body", "cors", "listing", "reads", "power"}

Still(p) == CASE p \in {"identity", "access"} -> UNCHANGED requestVars
              [] p = "body" -> UNCHANGED bodyVars        [] p = "cors" -> UNCHANGED corsVars
              [] p = "listing" -> UNCHANGED listingVars  [] p = "reads" -> UNCHANGED readVars
              [] p = "power" -> UNCHANGED powerVars

\* The parts with the variables of this one.
Same(p) == IF p \in {"identity", "access"} THEN {"identity", "access"} ELSE {p}

PlainShape == [payload |-> "unsigned", awsChunked |-> FALSE, trailerExpected |-> FALSE,
               claim |-> "none", declared |-> TRUE]
PlainQuery == [kind |-> "objects", prefix |-> <<>>, delimited |-> FALSE, maxKeys |-> 1]

Serve ==
    \/ Authenticate \/ Preflight \/ Identify \/ Authorize
    \/ RefuseAnonymous \/ HitBucket \/ MissBucket \/ FillBucket \/ Dispatch \/ Respond

\* RequestNext without changes of the bucket, and with one change at most.
IdentityNext ==
    \/ \E form \in Forms : Send(form) \/ MintLink(form)
    \/ Alter \/ Deliver \/ Tick \/ Serve
    \/ edits = 0 /\ (ChangeKey \/ ChangeOwner)

\* RequestNext without the clock, the network and changes of identities, for
\* anonymous requests; with two changes of the bucket, those it may open.
AccessNext ==
    \/ /\ \E form \in Forms : Send(form)
       /\ message'.kind = "anonymous" /\ (message'.form \in OpenForms \/ edits <= 1)
    \/ Deliver /\ UNCHANGED mishaps
    \/ PutPolicy \/ PublishObjects \/ InvalidateBucket
    \/ ReadBucket \/ CacheBucket \/ DropEntry \/ Serve

RequestsInit ==
    /\ moving \in Parts
    /\ RequestInit /\ (moving # "identity" => owner.role = "readonly")
    /\ BodyInit    /\ (moving # "body" => sent = <<"x">> /\ shape = PlainShape)
    /\ ListingInit /\ (moving # "listing" => query = PlainQuery /\ rows = {})
    /\ ReadInit    /\ (moving # "reads" => stored.size = 0)
    /\ PowerInit   /\ (moving # "power" => dirs = [d \in Shards |-> "kept"])
    /\ CorsInit

RequestsNext ==
    /\ UNCHANGED moving
    /\ \A p \in Parts \ Same(moving) : Still(p)
    /\ \/ moving = "identity" /\ IdentityNext
       \/ moving = "access" /\ AccessNext
       \/ moving = "body" /\ BodyNext
       \/ moving = "cors" /\ CorsNext
       \/ moving = "listing" /\ ListingNext
       \/ moving = "reads" /\ ReadNext
       \/ moving = "power" /\ PowerNext

RequestsSpec ==
    RequestsInit /\ [][RequestsNext]_<<requestVars, bodyVars, corsVars, listingVars, readVars,
                                       powerVars, moving>>
=============================================================================
