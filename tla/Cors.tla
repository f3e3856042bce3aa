-------------------------------- MODULE Cors --------------------------------
(***************************************************************************)
(* Cross-origin requests: s3/cors.cpp. A bucket's rules are put by one     *)
(* client and replaced or removed by others while a browser asks first,    *)
(* with a preflight, and then sends the request the answer allowed; the    *)
(* rules are read once for each of the two, and the second time the        *)
(* browser does not say which headers it sends. Texts are sequences of     *)
(* letters, 0 the wildcard; a letter above 10 is the upper case of the     *)
(* letter 10 below it.                                                     *)
(***************************************************************************)
EXTENDS Naturals, Sequences, FiniteSets

CONSTANTS
    Origins,       \* what a browser may name as its origin
    HeaderNames,   \* the headers it may want to send
    CorsRules,     \* the rules clients put: records of RawRules
    MaxRules,      \* kMaxRules
    MaxAge,        \* the longest MaxAgeSeconds, 86400 in the code
    MaxPuts        \* bound: configurations put or removed

Star == 0
CorsMethods == {"GET", "PUT", "POST", "DELETE", "HEAD"}

RawRules ==
    [allowedOrigins : SUBSET Seq(Nat), allowedMethods : SUBSET STRING,
     allowedHeaders : SUBSET Seq(Nat), maxAge : Nat]

ASSUME CorsConstants ==
    /\ \A o \in Origins \cup HeaderNames : o \in Seq(Nat \ {Star})
    /\ \A r \in CorsRules : r \in RawRules
    /\ {MaxRules, MaxAge, MaxPuts} \subseteq Nat

VARIABLES
    rules,      \* the bucket's stored rules, <<>> for none
    browser,    \* the exchange a page is in
    unchanged,  \* history: whether the rules are the ones the preflight read
    puts

corsVars == <<rules, browser, unchanged, puts>>
----------------------------------------------------------------------------
(* Matching. *)

Stars(pattern) == {i \in DOMAIN pattern : pattern[i] = Star}

\* Mutant of corsPatternMatches: the halves around the wildcard may share letters.
corsPatternOverlaps(pattern, value) ==
    IF Stars(pattern) = {} THEN pattern = value
    ELSE LET star == CHOOSE i \in Stars(pattern) : \A j \in Stars(pattern) : i <= j
             rest == Len(pattern) - star
         IN  /\ Len(value) >= star - 1 /\ Len(value) >= rest
             /\ SubSeq(value, 1, star - 1) = SubSeq(pattern, 1, star - 1)
             /\ SubSeq(value, Len(value) - rest + 1, Len(value))
                  = SubSeq(pattern, star + 1, Len(pattern))

corsPatternMatches(pattern, value) ==
    IF Stars(pattern) = {} THEN pattern = value
    ELSE LET star == CHOOSE i \in Stars(pattern) : \A j \in Stars(pattern) : i <= j
             rest == Len(pattern) - star
         IN  /\ Len(value) >= star - 1 + rest
             /\ SubSeq(value, 1, star - 1) = SubSeq(pattern, 1, star - 1)
             /\ SubSeq(value, Len(value) - rest + 1, Len(value))
                  = SubSeq(pattern, star + 1, Len(pattern))

matchesAny(patterns, value) == \E p \in patterns : corsPatternMatches(p, value)

toUpper(method) ==
    CASE method = "get" -> "GET" [] method = "put" -> "PUT" [] OTHER -> method

toLower(text) == [i \in DOMAIN text |-> IF text[i] > 10 THEN text[i] - 10 ELSE text[i]]

\* The rules that match, in order; the first one decides.
Matching(stored, origin, method, requested) ==
    {i \in DOMAIN stored :
        /\ matchesAny(stored[i].allowedOrigins, origin)
        /\ toUpper(method) \in stored[i].allowedMethods
        /\ \A h \in requested : matchesAny(stored[i].allowedHeaders, h)}

matchCors(stored, origin, method, requested) == Matching(stored, origin, method, requested) # {}
----------------------------------------------------------------------------
(* Putting rules: parseCorsConfiguration and validateCorsRules, which the    *)
(* console reaches as well. Accepted rules are normalised.                   *)

validatePattern(pattern) == pattern # <<>> /\ Cardinality(Stars(pattern)) <= 1

ValidRule(rule) ==
    /\ rule.allowedOrigins # {}
    /\ \A p \in rule.allowedOrigins \cup rule.allowedHeaders : validatePattern(p)
    /\ rule.allowedMethods # {}
    /\ \A m \in rule.allowedMethods : toUpper(m) \in CorsMethods
    /\ rule.maxAge <= MaxAge

Normalised(rule) ==
    [rule EXCEPT !.allowedMethods = {toUpper(m) : m \in @},
                 !.allowedHeaders = {toLower(h) : h \in @}]

validateCorsRules(document) ==
    /\ document # <<>> /\ Len(document) <= MaxRules
    /\ \A i \in DOMAIN document : ValidRule(document[i])

Replace(stored) ==
    /\ puts < MaxPuts /\ puts' = puts + 1
    /\ rules' = stored
    /\ unchanged' = (unchanged /\ stored = rules)
    /\ UNCHANGED browser

PutCors ==
    \E document \in UNION {[1..n -> CorsRules] : n \in 1..(MaxRules + 1)} :
        /\ validateCorsRules(document)
        /\ Replace([i \in DOMAIN document |-> Normalised(document[i])])

DeleteCors == Replace(<<>>)
----------------------------------------------------------------------------
(* A browser. *)

NoPage == [at |-> "idle"]

CorsInit ==
    /\ rules = <<>> /\ browser = NoPage /\ unchanged = FALSE /\ puts = 0

\* handlePreflight; the names arrive in the case the page wrote them in and
\* splitRequestedHeaders lowers it.
AskFirst(origin, method, headers) ==
    /\ browser.at = "idle"
    /\ LET granted == matchCors(rules, origin, method, {toLower(h) : h \in headers})
       IN  browser' = [at |-> IF granted THEN "granted" ELSE "denied",
                       origin |-> origin, method |-> method, headers |-> headers]
    /\ unchanged' = TRUE
    /\ UNCHANGED <<rules, puts>>

\* A request whose signature does not verify, or that has none, keeps the
\* method Drogon reported: a HEAD is decorated as a GET.
Reported(method, verified) == IF method = "HEAD" /\ ~verified THEN "GET" ELSE method

\* The response of serve, decorated by applyCorsHeaders whatever its status:
\* the page reads it only when it names the page's origin.
SendFor(verified) ==
    /\ browser.at = "granted"
    /\ LET method == Reported(browser.method, verified)
           allowed == matchCors(rules, browser.origin, method, {})
       IN  browser' = [browser EXCEPT !.at = IF allowed THEN "read" ELSE "hidden",
                                      !.method = method]
    /\ UNCHANGED <<rules, unchanged, puts>>

Leave ==
    /\ browser.at \in {"denied", "read", "hidden"}
    /\ browser' = NoPage /\ unchanged' = FALSE
    /\ UNCHANGED <<rules, puts>>

CorsNext ==
    \/ PutCors \/ DeleteCors
    \/ \E origin \in Origins, method \in CorsMethods, headers \in SUBSET HeaderNames :
          AskFirst(origin, method, headers)
    \/ \E verified \in BOOLEAN : SendFor(verified)
    \/ Leave

CorsSpec == CorsInit /\ [][CorsNext]_corsVars
----------------------------------------------------------------------------
(* Properties. *)

\* The reference: something can be put for the wildcard that makes the
\* pattern the value.
Fits(pattern, value) ==
    \/ pattern = value
    \/ \E i \in Stars(pattern) : \E from \in 1..(Len(value) + 1), to \in 0..Len(value) :
          /\ from <= to + 1
          /\ SubSeq(pattern, 1, i - 1) \o SubSeq(value, from, to)
               \o SubSeq(pattern, i + 1, Len(pattern)) = value

Permitted(origin, method) ==
    \E i \in DOMAIN rules :
        /\ \E p \in rules[i].allowedOrigins : Fits(p, origin)
        /\ method \in rules[i].allowedMethods

(***************************************************************************)
(* A grant is kept and only a grant is given. While the rules are the ones *)
(* the preflight was answered from, the page reads the response to the     *)
(* request it was granted, though applyCorsHeaders matches without the     *)
(* headers and perhaps another rule (except an unverified HEAD, decorated  *)
(* as a GET, where no rule allows a GET). And neither answer is given to   *)
(* an origin and method that no stored rule really allows.                 *)
(***************************************************************************)
PreflightHonoured ==
    unchanged =>
        /\ browser.at = "hidden" => browser.method = "GET" /\ ~Permitted(browser.origin, "GET")
        /\ browser.at \in {"granted", "read"} => Permitted(browser.origin, browser.method)
=============================================================================
