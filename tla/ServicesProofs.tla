--------------------------- MODULE ServicesProofs ---------------------------
(***************************************************************************)
(* What holds of the services around the storage engine for every number   *)
(* of threads, every size of a queue, a pool or a ring and every setting:  *)
(* the circuit breaker of the shared cache, the instance's upload limit,   *)
(* the login throttle in front of the I/O pool, the dashboard's ring of    *)
(* samples, a shard of the memory cache and the console's audit log. Each  *)
(* part has its inductive invariant, a lemma for each step and a theorem;  *)
(* they share no variable.                                                 *)
(***************************************************************************)
EXTENDS MetadataCache, IoExecutor, MetricsHistory, UploadLimit, MemoryCache,
        AuditLog, RecursionTheorems, FiniteSetTheorems, SequenceTheorems, TLAPS

-----------------------------------------------------------------------------
(* The breaker of the shared cache. *)

\* The inductive form: the threads are the workers.
CarrierInv == DOMAIN thread = CacheWorkers /\ ProbeHasCarrier

\* A thread that is not on its way to Redis may go where it likes, and one
\* that stays on its way carries the probe.
LEMMA CarrierStays ==
    ASSUME CarrierInv, NEW w \in CacheWorkers, NEW t, thread' = [thread EXCEPT ![w] = t],
           \/ probeInFlight' = FALSE
           \/ t.at \in {"acquire", "command"}
           \/ probeInFlight' = probeInFlight /\ At(w) \notin {"acquire", "command"}
    PROVE  CarrierInv'
<1>1. /\ DOMAIN thread' = CacheWorkers /\ thread'[w] = t
      /\ \A v \in CacheWorkers \ {w} : thread'[v] = thread[v]
  BY DEF CarrierInv
<1>2. CASE probeInFlight' = FALSE
  BY <1>1, <1>2 DEF CarrierInv, ProbeHasCarrier
<1>3. CASE t.at \in {"acquire", "command"}
  BY <1>1, <1>3 DEF CarrierInv, ProbeHasCarrier, At
<1>4. CASE probeInFlight' = probeInFlight /\ At(w) \notin {"acquire", "command"}
  BY <1>1, <1>4 DEF CarrierInv, ProbeHasCarrier, At
<1> QED BY <1>2, <1>3, <1>4

\* Where Onward leads is one of two places, and neither is on the way to Redis.
LEMMA OnwardEnters ==
    ASSUME NEW w \in CacheWorkers, Onward(w)
    PROVE  \E t : thread' = [thread EXCEPT ![w] = t]
BY DEF Onward, Enter, Leave

\* Every step of a worker leaves a carrier for the probe, or no probe.
LEMMA WorkerKeepsCarrier ==
    ASSUME CarrierInv, NEW w \in CacheWorkers,
           Lookup(w) \/ Advance(w) \/ \E v \in 0..MaxVersion : Commit(w, v)
    PROVE  CarrierInv'
<1>1. CASE Lookup(w) \/ ReadStore(w) \/ LocalStep(w) \/ CopyToLocal(w)
           \/ \E v \in 0..MaxVersion : Commit(w, v)
  <2>1. At(w) \notin {"acquire", "command"} /\ probeInFlight' = probeInFlight
    BY <1>1 DEF Lookup, ReadStore, LocalStep, CopyToLocal, Commit, breaker
  <2>2. \E t : thread' = [thread EXCEPT ![w] = t]
    BY <1>1 DEF Lookup, ReadStore, LocalStep, CopyToLocal, Commit, Enter, Leave
  <2> QED BY <2>1, <2>2, CarrierStays
<1>2. CASE AskBreaker(w)
  <2>1. CASE Onward(w) /\ UNCHANGED breaker
    <3>1. At(w) \notin {"acquire", "command"} /\ probeInFlight' = probeInFlight
      BY <1>2, <2>1 DEF AskBreaker, AllowShared, breaker
    <3> QED BY <2>1, <3>1, OnwardEnters, CarrierStays
  <2>2. CASE Enter(w, thread[w].op, "acquire", thread[w].held)
    <3>1. PICK t : t = [op |-> thread[w].op, at |-> "acquire", held |-> thread[w].held]
      OBVIOUS
    <3>2. thread' = [thread EXCEPT ![w] = t] /\ t.at = "acquire"
      BY <2>2, <3>1 DEF Enter
    <3> QED BY <3>2, CarrierStays
  <2> QED BY <1>2, <2>1, <2>2 DEF AskBreaker, AllowShared
<1>3. CASE Acquire(w)
  <2>1. PICK t : t = [op |-> thread[w].op, at |-> "command", held |-> thread[w].held]
    OBVIOUS
  <2>2. thread' = [thread EXCEPT ![w] = t] /\ t.at = "command"
    BY <1>3, <2>1 DEF Acquire, Enter
  <2> QED BY <2>2, CarrierStays
<1>4. CASE AcquireTimesOut(w) \/ CommandSucceeds(w) \/ CommandFails(w)
  <2>1. probeInFlight' = FALSE
    BY <1>4 DEF AcquireTimesOut, CommandSucceeds, CommandFails, RecordSuccess, RecordFailure
  <2>2. \E t : thread' = [thread EXCEPT ![w] = t]
    BY <1>4, OnwardEnters DEF AcquireTimesOut, CommandSucceeds, CommandFails, Enter
  <2> QED BY <2>1, <2>2, CarrierStays
<1> QED BY <1>1, <1>2, <1>3, <1>4 DEF Advance

(***************************************************************************)
(* The half-open breaker cannot get stuck, for any number of I/O threads,  *)
(* any threshold and any size of the connection pool: whoever raises the   *)
(* flag of the probe is a thread on its way to Redis, and every way out of *)
(* there takes the flag down.                                              *)
(***************************************************************************)
THEOREM BreakerSafety == CacheSpec => []ProbeHasCarrier
<1>1. CacheInit => CarrierInv
  BY DEF CacheInit, CarrierInv, ProbeHasCarrier
<1>2. CarrierInv /\ [CacheNext]_cacheVars => CarrierInv'
  <2> SUFFICES ASSUME CarrierInv, [CacheNext]_cacheVars
               PROVE  CarrierInv'
    OBVIOUS
  <2>1. CASE \E w \in CacheWorkers :
                Lookup(w) \/ Advance(w) \/ \E v \in 0..MaxVersion : Commit(w, v)
    BY <2>1, WorkerKeepsCarrier
  <2>2. CASE CooldownEnds \/ LoseLocal \/ ExpireShared \/ UNCHANGED cacheVars
    <3>1. thread' = thread /\ probeInFlight' = probeInFlight
      BY <2>2 DEF CooldownEnds, LoseLocal, ExpireShared, cacheVars, breaker
    <3> QED BY <3>1 DEF CarrierInv, ProbeHasCarrier, At
  <2> QED BY <2>1, <2>2 DEF CacheNext
<1>3. CarrierInv => ProbeHasCarrier
  BY DEF CarrierInv
<1> QED BY <1>1, <1>2, <1>3, PTL DEF CacheSpec

-----------------------------------------------------------------------------
(* The upload limit. *)

\* Every instance that runs has a limit stored.
LimitInv ==
    /\ setting \in Nat \ {0} /\ ceiling \in Nat \ {0}
    /\ setter \in [Setters -> Nat]

\* seedUploadLimit prefers what is stored, and gives a limit in any case.
LEMMA SeededStored ==
    ASSUME NEW was \in Nat, NEW env \in Nat \ {0}, NEW top \in Nat \ {0}
    PROVE  /\ seeded(was, env, top) \in Nat \ {0}
           /\ was # 0 /\ was <= top => seeded(was, env, top) = was
BY DEF seeded

(***************************************************************************)
(* A restart keeps the limit an operator stored, for every environment and *)
(* every ceiling that is not below it: the seed finds a stored figure from *)
(* the first start on, so the environment never speaks again.              *)
(***************************************************************************)
THEOREM LimitSafety == LimitSpec => RestartKeepsLimit
<1> DEFINE Kept == \/ \E s \in Setters : setter'[s] = setting'
                   \/ setting <= ceiling' => setting' = setting
           Keeps == ceiling' # ceiling \/ setting' # setting => Kept
<1>1. LimitInit => LimitInv
  BY UploadLimitAssumption, SeededStored DEF LimitInit, LimitInv
<1>2. LimitInv /\ [LimitNext]_limitVars => LimitInv' /\ [Keeps]_limitVars
  <2> SUFFICES ASSUME LimitInv, [LimitNext]_limitVars
               PROVE  LimitInv' /\ [Keeps]_limitVars
    OBVIOUS
  <2>1. CASE RestartLimit
    <3>1. PICK env \in Limits \ {0} : maxUpload' = seeded(setting, env, ceiling')
      BY <2>1 DEF RestartLimit
    <3>2. ceiling' \in Nat \ {0} /\ env \in Nat \ {0} /\ setting' = seeded(setting, env, ceiling')
      BY <2>1, <3>1, UploadLimitAssumption DEF RestartLimit
    <3>3. setter' \in [Setters -> Nat]
      BY <2>1 DEF RestartLimit
    <3> QED BY <3>2, <3>3, SeededStored DEF LimitInv
  <2>2. ASSUME NEW s \in Setters, PublishLimit(s)
        PROVE  LimitInv' /\ Keeps
    BY <2>2 DEF PublishLimit, LimitInv
  <2>3. ASSUME NEW s \in Setters, NEW bytes \in Limits, StoreLimit(s, bytes)
        PROVE  LimitInv' /\ Keeps
    <3>1. /\ bytes \in Nat \ {0} /\ setting' = bytes /\ ceiling' = ceiling
          /\ setter' = [setter EXCEPT ![s] = bytes]
      BY <2>3, UploadLimitAssumption DEF StoreLimit
    <3>2. setter' \in [Setters -> Nat] /\ setter'[s] = bytes
      BY <3>1 DEF LimitInv
    <3> QED BY <3>1, <3>2 DEF LimitInv
  <2>4. CASE UNCHANGED limitVars
    BY <2>4 DEF limitVars, LimitInv
  <2> QED BY <2>1, <2>2, <2>3, <2>4 DEF LimitNext
<1> QED BY <1>1, <1>2, PTL DEF LimitSpec, RestartKeepsLimit

-----------------------------------------------------------------------------
(* The pool and the login throttle. *)

\* What a worker or a place in the queue may hold, and where a login may be.
AllTasks == [kind : {"awake", "asleep", "gone", "work", "audit", "login"}, of : 0..MaxLogins]
LoginStates == {"outside", "asked", "posted", "over"}

\* A queue, the workers and the logins fit together when there is one task for
\* each login that is posted, in the queue or at a worker, and none else.
PoolFits(q, wk, lg) ==
    /\ q \in Seq(AllTasks) /\ Len(q) <= queueLimit
    /\ wk \in [Workers -> AllTasks]
    /\ lg \in [Logins -> LoginStates]
    /\ \A i \in 1..Len(q) : q[i].kind = "login" =>
          q[i].of \in Logins /\ lg[q[i].of] = "posted"
    /\ \A w \in Workers : wk[w].kind = "login" =>
          wk[w].of \in Logins /\ lg[wk[w].of] = "posted"
    /\ \A i, j \in 1..Len(q) : q[i].kind = "login" /\ q[j] = q[i] => i = j
    /\ \A w, v \in Workers : wk[w].kind = "login" /\ wk[v] = wk[w] => w = v
    /\ \A i \in 1..Len(q) : \A w \in Workers : q[i].kind = "login" => wk[w] # q[i]
    /\ \A l \in Logins : lg[l] = "posted" =>
          \/ \E i \in 1..Len(q) : q[i] = Task("login", l)
          \/ \E w \in Workers : wk[w] = Task("login", l)

\* Workers that change from one task that is no login's to another.
LEMMA FitsIdle ==
    ASSUME NEW q, NEW wk, NEW lg, PoolFits(q, wk, lg), NEW nw \in [Workers -> AllTasks],
           \A w \in Workers : nw[w] = wk[w] \/ (nw[w].kind # "login" /\ wk[w].kind # "login")
    PROVE  PoolFits(q, nw, lg)
<1>1. /\ q \in Seq(AllTasks) /\ wk \in [Workers -> AllTasks] /\ Len(q) \in Nat
  BY LenProperties DEF PoolFits
<1>2. \A w \in Workers : nw[w].kind = "login" => nw[w] = wk[w]
  OBVIOUS
<1>3. \A w, v \in Workers : nw[w].kind = "login" /\ nw[v] = nw[w] => w = v
  BY <1>2 DEF PoolFits
<1>4. \A i \in 1..Len(q) : \A w \in Workers : q[i].kind = "login" => nw[w] # q[i]
  BY <1>2 DEF PoolFits
<1>5. ASSUME NEW l \in Logins, lg[l] = "posted"
      PROVE  \/ \E i \in 1..Len(q) : q[i] = Task("login", l)
             \/ \E w \in Workers : nw[w] = Task("login", l)
  <2>1. CASE \E i \in 1..Len(q) : q[i] = Task("login", l)
    BY <2>1
  <2>2. CASE \E w \in Workers : wk[w] = Task("login", l)
    <3>1. PICK w \in Workers : wk[w] = Task("login", l)
      BY <2>2
    <3>2. wk[w].kind = "login"
      BY <3>1 DEF Task
    <3> QED BY <3>1, <3>2
  <2> QED BY <1>5, <2>1, <2>2 DEF PoolFits
<1> QED BY <1>2, <1>3, <1>4, <1>5 DEF PoolFits

\* Logins that change where the pool does not look.
LEMMA FitsRelabel ==
    ASSUME NEW q, NEW wk, NEW lg, PoolFits(q, wk, lg), NEW nl \in [Logins -> LoginStates],
           \A l \in Logins : nl[l] = "posted" <=> lg[l] = "posted"
    PROVE  PoolFits(q, wk, nl)
BY DEF PoolFits

\* A task that is no login's is pushed.
LEMMA FitsPush ==
    ASSUME NEW q, NEW wk, NEW lg, PoolFits(q, wk, lg), Len(q) < queueLimit,
           NEW t \in AllTasks, t.kind # "login"
    PROVE  PoolFits(Append(q, t), wk, lg)
<1>1. PICK p, n : p = Append(q, t) /\ n = Len(q)
  OBVIOUS
<1>2. q \in Seq(AllTasks) /\ n \in Nat
  BY <1>1, LenProperties DEF PoolFits
<1>3. p \in Seq(AllTasks) /\ Len(p) = n + 1 /\ (\A i \in 1..n : p[i] = q[i]) /\ p[n + 1] = t
  BY <1>1, <1>2, AppendProperties
<1>4. Len(p) <= queueLimit
  BY <1>1, <1>2, <1>3, IoExecutorAssumption
<1>5. \A i \in 1..Len(p) : p[i].kind = "login" => i \in 1..n /\ p[i] = q[i]
  BY <1>2, <1>3
<1>6. \A i \in 1..Len(p) : p[i].kind = "login" =>
         /\ p[i].of \in Logins /\ lg[p[i].of] = "posted"
         /\ \A w \in Workers : wk[w] # p[i]
  BY <1>1, <1>5 DEF PoolFits
<1>7. \A i, j \in 1..Len(p) : p[i].kind = "login" /\ p[j] = p[i] => i = j
  BY <1>1, <1>5 DEF PoolFits
<1>8. ASSUME NEW l \in Logins, lg[l] = "posted", \E i \in 1..n : q[i] = Task("login", l)
      PROVE  \E i \in 1..Len(p) : p[i] = Task("login", l)
  <2>1. PICK i \in 1..n : q[i] = Task("login", l)
    BY <1>8
  <2>2. i \in 1..Len(p) /\ p[i] = q[i]
    BY <1>2, <1>3
  <2> QED BY <2>1, <2>2
<1>9. PoolFits(p, wk, lg)
  BY <1>1, <1>3, <1>4, <1>6, <1>7, <1>8 DEF PoolFits
<1> QED BY <1>1, <1>9

\* A login is posted.
LEMMA FitsPost ==
    ASSUME NEW q, NEW wk, NEW lg, PoolFits(q, wk, lg), Len(q) < queueLimit,
           NEW l \in Logins, lg[l] # "posted"
    PROVE  PoolFits(Append(q, Task("login", l)), wk, [lg EXCEPT ![l] = "posted"])
<1>1. PICK t, p, n, nl : /\ t = Task("login", l) /\ p = Append(q, t) /\ n = Len(q)
                         /\ nl = [lg EXCEPT ![l] = "posted"]
  OBVIOUS
<1>2. q \in Seq(AllTasks) /\ n \in Nat
  BY <1>1, LenProperties DEF PoolFits
<1>3. t \in AllTasks /\ t.kind = "login" /\ t.of = l
  BY <1>1, IoExecutorAssumption DEF Task, AllTasks, Logins
<1>4. p \in Seq(AllTasks) /\ Len(p) = n + 1 /\ (\A i \in 1..n : p[i] = q[i]) /\ p[n + 1] = t
  BY <1>1, <1>2, <1>3, AppendProperties
<1>5. Len(p) <= queueLimit
  BY <1>1, <1>2, <1>4, IoExecutorAssumption
<1>6. /\ nl \in [Logins -> LoginStates] /\ nl[l] = "posted"
      /\ \A m \in Logins \ {l} : nl[m] = lg[m]
  BY <1>1 DEF PoolFits, LoginStates
<1>7. \A i \in 1..Len(p) : \/ i \in 1..n /\ p[i] = q[i]
                           \/ i = n + 1 /\ p[i] = t
  BY <1>2, <1>4
<1>8. \A i \in 1..n : q[i] # t
  BY <1>1, <1>3 DEF PoolFits
<1>9. \A w \in Workers : wk[w] # t
  BY <1>3 DEF PoolFits
<1>10. ASSUME NEW i \in 1..Len(p), p[i].kind = "login"
       PROVE  /\ p[i].of \in Logins /\ nl[p[i].of] = "posted"
              /\ \A w \in Workers : wk[w] # p[i]
  <2>1. CASE i \in 1..n /\ p[i] = q[i]
    BY <1>1, <1>6, <1>10, <2>1 DEF PoolFits
  <2>2. CASE i = n + 1 /\ p[i] = t
    BY <1>3, <1>6, <1>9, <2>2
  <2> QED BY <1>7, <2>1, <2>2
<1>11. ASSUME NEW i \in 1..Len(p), NEW j \in 1..Len(p), p[i].kind = "login", p[j] = p[i]
       PROVE  i = j
  <2>1. CASE i \in 1..n /\ p[i] = q[i] /\ j \in 1..n /\ p[j] = q[j]
    BY <1>1, <1>11, <2>1 DEF PoolFits
  <2> QED BY <1>7, <1>8, <1>11, <2>1
<1>12. \A w \in Workers : wk[w].kind = "login" =>
          wk[w].of \in Logins /\ nl[wk[w].of] = "posted"
  BY <1>6 DEF PoolFits
<1>13. ASSUME NEW m \in Logins, nl[m] = "posted"
       PROVE  \/ \E i \in 1..Len(p) : p[i] = Task("login", m)
              \/ \E w \in Workers : wk[w] = Task("login", m)
  <2>1. CASE m = l
    <3>1. n + 1 \in 1..Len(p)
      BY <1>2, <1>4
    <3> QED BY <1>1, <1>4, <2>1, <3>1
  <2>2. CASE m # l
    <3>1. lg[m] = "posted"
      BY <1>6, <1>13, <2>2
    <3>2. ASSUME NEW i \in 1..n, q[i] = Task("login", m)
          PROVE  \E k \in 1..Len(p) : p[k] = Task("login", m)
      <4>1. i \in 1..Len(p) /\ p[i] = q[i]
        BY <1>2, <1>4
      <4> QED BY <3>2, <4>1
    <3> QED BY <1>1, <3>1, <3>2 DEF PoolFits
  <2> QED BY <2>1, <2>2
<1>14. PoolFits(p, wk, nl)
  BY <1>4, <1>5, <1>6, <1>10, <1>11, <1>12, <1>13 DEF PoolFits
<1> QED BY <1>1, <1>14

\* A worker without a login's task takes the first of the queue.
LEMMA FitsTake ==
    ASSUME NEW q, NEW wk, NEW lg, PoolFits(q, wk, lg), q # <<>>,
           NEW w \in Workers, wk[w].kind # "login"
    PROVE  PoolFits(Tail(q), [wk EXCEPT ![w] = Head(q)], lg)
<1>1. PICK t, p, n, nw : /\ t = Head(q) /\ p = Tail(q) /\ n = Len(q)
                         /\ nw = [wk EXCEPT ![w] = t]
  OBVIOUS
<1>2. q \in Seq(AllTasks) /\ n \in Nat \ {0}
  BY <1>1, EmptySeq DEF PoolFits
<1>3. t \in AllTasks /\ t = q[1]
  BY <1>1, <1>2, HeadTailProperties
<1>4. p \in Seq(AllTasks) /\ Len(p) = n - 1 /\ \A i \in 1..Len(p) : p[i] = q[i + 1]
  BY <1>1, <1>2, HeadTailProperties
<1>5. Len(p) <= queueLimit
  BY <1>1, <1>2, <1>4, IoExecutorAssumption DEF PoolFits
<1>6. /\ nw \in [Workers -> AllTasks] /\ nw[w] = t
      /\ \A v \in Workers \ {w} : nw[v] = wk[v]
  BY <1>1, <1>3 DEF PoolFits
<1>7. \A i \in 1..Len(p) : i + 1 \in 1..n /\ i + 1 # 1 /\ p[i] = q[i + 1]
  BY <1>2, <1>4
<1>8. 1 \in 1..n
  BY <1>2
<1>9. \A i \in 1..n : q[i].kind = "login" => q[i].of \in Logins /\ lg[q[i].of] = "posted"
  BY <1>1 DEF PoolFits
<1>10. \A i \in 1..Len(p) : p[i].kind = "login" =>
          /\ p[i].of \in Logins /\ lg[p[i].of] = "posted"
          /\ p[i] # t /\ \A v \in Workers : wk[v] # p[i]
  <2> SUFFICES ASSUME NEW i \in 1..Len(p), p[i].kind = "login"
               PROVE  /\ p[i].of \in Logins /\ lg[p[i].of] = "posted"
                      /\ p[i] # t /\ \A v \in Workers : wk[v] # p[i]
    OBVIOUS
  <2>1. PICK k : k = i + 1
    OBVIOUS
  <2>2. k \in 1..n /\ k # 1 /\ p[i] = q[k]
    BY <1>7, <2>1
  <2>3. q[1] # q[k] /\ \A v \in Workers : wk[v] # q[k]
    BY <1>1, <1>8, <2>2 DEF PoolFits
  <2> QED BY <1>3, <1>9, <2>2, <2>3
<1>11. ASSUME NEW i \in 1..Len(p), NEW j \in 1..Len(p), p[i].kind = "login", p[j] = p[i]
       PROVE  i = j
  <2>1. PICK k, m : k = i + 1 /\ m = j + 1
    OBVIOUS
  <2>2. k \in 1..n /\ m \in 1..n /\ p[i] = q[k] /\ p[j] = q[m]
    BY <1>7, <2>1
  <2>3. k = m
    BY <1>1, <1>11, <2>2 DEF PoolFits
  <2> QED BY <1>4, <2>1, <2>3
<1>12. \A i \in 1..Len(p) : \A v \in Workers : p[i].kind = "login" => nw[v] # p[i]
  BY <1>6, <1>10
<1>13. \A v \in Workers : nw[v].kind = "login" =>
          nw[v].of \in Logins /\ lg[nw[v].of] = "posted"
  BY <1>3, <1>6, <1>8, <1>9 DEF PoolFits
<1>14. ASSUME NEW v \in Workers, NEW u \in Workers, nw[v].kind = "login", nw[u] = nw[v]
       PROVE  v = u
  <2>1. ASSUME t.kind = "login"
        PROVE  \A x \in Workers : wk[x] # t
    BY <1>1, <1>3, <1>8, <2>1 DEF PoolFits
  <2>2. CASE v = w \/ u = w
    BY <1>6, <1>14, <2>1, <2>2
  <2>3. CASE v # w /\ u # w
    BY <1>6, <1>14, <2>3 DEF PoolFits
  <2> QED BY <2>2, <2>3
<1>15. ASSUME NEW l \in Logins, lg[l] = "posted"
       PROVE  \/ \E i \in 1..Len(p) : p[i] = Task("login", l)
              \/ \E v \in Workers : nw[v] = Task("login", l)
  <2>1. ASSUME NEW i \in 1..n, q[i] = Task("login", l)
        PROVE  \/ \E k \in 1..Len(p) : p[k] = Task("login", l)
               \/ \E v \in Workers : nw[v] = Task("login", l)
    <3>1. CASE i = 1
      BY <1>3, <1>6, <2>1, <3>1
    <3>2. CASE i # 1
      <4>1. PICK k : k = i - 1
        OBVIOUS
      <4>2. k \in 1..Len(p) /\ k + 1 = i
        BY <1>2, <1>4, <3>2, <4>1
      <4>3. p[k] = q[i]
        BY <1>4, <4>2
      <4> QED BY <2>1, <4>2, <4>3
    <3> QED BY <3>1, <3>2
  <2>2. ASSUME NEW v \in Workers, wk[v] = Task("login", l)
        PROVE  nw[v] = Task("login", l)
    <3>1. wk[v].kind = "login"
      BY <2>2 DEF Task
    <3> QED BY <1>6, <2>2, <3>1
  <2> QED BY <1>1, <1>15, <2>1, <2>2 DEF PoolFits
<1>16. PoolFits(p, nw, lg)
  <2>1. lg \in [Logins -> LoginStates]
    BY DEF PoolFits
  <2>2. \A i \in 1..Len(p) : p[i].kind = "login" => p[i].of \in Logins /\ lg[p[i].of] = "posted"
    BY <1>10
  <2> QED BY <1>4, <1>5, <1>6, <1>11, <1>12, <1>13, <1>14, <1>15, <2>1, <2>2 DEF PoolFits
<1> QED BY <1>1, <1>16

\* A login's task is done and the login over.
LEMMA FitsDone ==
    ASSUME NEW q, NEW wk, NEW lg, PoolFits(q, wk, lg), NEW w \in Workers, wk[w].kind = "login"
    PROVE  PoolFits(q, [wk EXCEPT ![w] = Awake], [lg EXCEPT ![wk[w].of] = "over"])
<1>1. PICK l, nw, nl : /\ l = wk[w].of /\ nw = [wk EXCEPT ![w] = Awake]
                       /\ nl = [lg EXCEPT ![l] = "over"]
  OBVIOUS
<1>2. l \in Logins /\ lg[l] = "posted" /\ wk[w] \in AllTasks
  BY <1>1 DEF PoolFits
<1>3. Awake \in AllTasks /\ Awake.kind # "login"
  BY IoExecutorAssumption DEF Awake, Task, AllTasks
<1>4. /\ nw \in [Workers -> AllTasks] /\ nw[w] = Awake
      /\ \A v \in Workers \ {w} : nw[v] = wk[v]
  BY <1>1, <1>3 DEF PoolFits
<1>5. /\ nl \in [Logins -> LoginStates] /\ nl[l] = "over"
      /\ \A m \in Logins \ {l} : nl[m] = lg[m]
  BY <1>1, <1>2 DEF PoolFits, LoginStates
<1>6. ASSUME NEW t \in AllTasks, t.kind = "login", t.of = l
      PROVE  t = wk[w]
  BY <1>1, <1>2, <1>6 DEF AllTasks
<1>7. q \in Seq(AllTasks) /\ \A i \in 1..Len(q) : q[i] \in AllTasks
  BY ElementOfSeq DEF PoolFits
<1>8. \A i \in 1..Len(q) : q[i].kind = "login" =>
         /\ q[i].of # l /\ q[i].of \in Logins /\ lg[q[i].of] = "posted"
         /\ \A v \in Workers : wk[v] # q[i]
  BY <1>6, <1>7 DEF PoolFits
<1>9. \A v \in Workers : nw[v].kind = "login" =>
         /\ nw[v] = wk[v] /\ nw[v].of # l /\ nw[v].of \in Logins /\ lg[nw[v].of] = "posted"
  <2> SUFFICES ASSUME NEW v \in Workers, nw[v].kind = "login"
               PROVE  nw[v] = wk[v] /\ nw[v].of # l /\ nw[v].of \in Logins /\ lg[nw[v].of] = "posted"
    OBVIOUS
  <2>1. v # w /\ nw[v] = wk[v] /\ wk[v] \in AllTasks
    BY <1>3, <1>4 DEF PoolFits
  <2>2. wk[v] # wk[w]
    BY <2>1 DEF PoolFits
  <2>3. wk[v].of # l
    BY <1>6, <2>1, <2>2
  <2> QED BY <2>1, <2>3 DEF PoolFits
<1>10. \A v, u \in Workers : nw[v].kind = "login" /\ nw[u] = nw[v] => v = u
  BY <1>9 DEF PoolFits
<1>11. \A i \in 1..Len(q) : \A v \in Workers : q[i].kind = "login" => nw[v] # q[i]
  BY <1>3, <1>4, <1>8
<1>12. ASSUME NEW m \in Logins, nl[m] = "posted"
       PROVE  \/ \E i \in 1..Len(q) : q[i] = Task("login", m)
              \/ \E v \in Workers : nw[v] = Task("login", m)
  <2>1. m # l /\ lg[m] = "posted"
    BY <1>5, <1>12
  <2>2. ASSUME NEW v \in Workers, wk[v] = Task("login", m)
        PROVE  nw[v] = Task("login", m)
    <3>1. wk[v].of = m
      BY <2>2 DEF Task
    <3> QED BY <1>1, <1>4, <2>1, <2>2, <3>1
  <2> QED BY <2>1, <2>2 DEF PoolFits
<1>13. PoolFits(q, nw, nl)
  <2>1. \A i \in 1..Len(q) : q[i].kind = "login" => q[i].of \in Logins /\ nl[q[i].of] = "posted"
    BY <1>5, <1>8
  <2>2. \A v \in Workers : nw[v].kind = "login" => nw[v].of \in Logins /\ nl[nw[v].of] = "posted"
    BY <1>5, <1>9
  <2>3. q \in Seq(AllTasks) /\ Len(q) <= queueLimit
    BY DEF PoolFits
  <2>4. \A i, j \in 1..Len(q) : q[i].kind = "login" /\ q[j] = q[i] => i = j
    BY DEF PoolFits
  <2> QED BY <1>4, <1>5, <1>10, <1>11, <1>12, <2>1, <2>2, <2>3, <2>4 DEF PoolFits
<1> QED BY <1>1, <1>13

\* The logins by where they are.
Posted(lg) == {l \in Logins : lg[l] = "posted"}
AskedOf(lg) == {l \in Logins : lg[l] = "asked"}
Flying(lg) == {l \in Logins : lg[l] \in {"asked", "posted"}}

\* What the event loops, the queue and the threads can hold.
Room == Loops + queueLimit + Cardinality(Workers)

\* The inductive form of the bound.
PoolInv ==
    /\ PoolFits(queue, worker, login)
    /\ failures \in Nat
    /\ Cardinality(AskedOf(login)) <= Loops
    /\ failures + Cardinality(Flying(login)) <= kMaxFailedLogins - 1 + Room

\* The logins are finitely many.
LEMMA LoginSets ==
    ASSUME NEW lg
    PROVE  /\ IsFiniteSet(Posted(lg)) /\ IsFiniteSet(AskedOf(lg)) /\ IsFiniteSet(Flying(lg))
           /\ Cardinality(Posted(lg)) \in Nat /\ Cardinality(AskedOf(lg)) \in Nat
           /\ Cardinality(Flying(lg)) \in Nat /\ Cardinality(Workers) \in Nat
           /\ Cardinality(Flying(lg)) <= Cardinality(AskedOf(lg)) + Cardinality(Posted(lg))
<1>1. IsFiniteSet(Logins)
  BY FS_Interval, IoExecutorAssumption DEF Logins
<1>2. IsFiniteSet(Posted(lg)) /\ IsFiniteSet(AskedOf(lg)) /\ IsFiniteSet(Flying(lg))
  BY <1>1, FS_Subset DEF Posted, AskedOf, Flying
<1>3. /\ Cardinality(Posted(lg)) \in Nat /\ Cardinality(AskedOf(lg)) \in Nat
      /\ Cardinality(Flying(lg)) \in Nat /\ Cardinality(Workers) \in Nat
  BY <1>2, FS_CardinalityType, IoExecutorAssumption
<1>4. Flying(lg) = AskedOf(lg) \cup Posted(lg)
  BY DEF Flying, AskedOf, Posted
<1>5. Cardinality(AskedOf(lg) \cap Posted(lg)) = 0
  <2>1. AskedOf(lg) \cap Posted(lg) = {}
    BY DEF AskedOf, Posted
  <2> QED BY <2>1, FS_EmptySet
<1>6. Cardinality(AskedOf(lg) \cup Posted(lg))
        = Cardinality(AskedOf(lg)) + Cardinality(Posted(lg)) - Cardinality(AskedOf(lg) \cap Posted(lg))
  BY <1>2, FS_Union
<1> QED BY <1>2, <1>3, <1>4, <1>5, <1>6

\* What is posted is in the queue or at a worker, so there is no more of it
\* than they hold.
LEMMA PostedBound ==
    ASSUME NEW q, NEW wk, NEW lg, PoolFits(q, wk, lg)
    PROVE  Cardinality(Posted(lg)) <= queueLimit + Cardinality(Workers)
<1>1. PICK n : n = Len(q)
  OBVIOUS
<1>2. n \in Nat /\ n <= queueLimit
  BY <1>1, LenProperties DEF PoolFits
<1>3. PICK f, g : f = [i \in 1..n |-> q[i].of] /\ g = [w \in Workers |-> wk[w].of]
  OBVIOUS
<1>4. PICK A, B : A = {f[i] : i \in 1..n} /\ B = {g[w] : w \in Workers}
  OBVIOUS
<1>5. f \in Surjection(1..n, A) /\ g \in Surjection(Workers, B)
  BY <1>3, <1>4 DEF Surjection
<1>6. IsFiniteSet(1..n) /\ Cardinality(1..n) = n
  <2>1. Cardinality(1..n) = IF 1 > n THEN 0 ELSE n - 1 + 1
    BY <1>2, FS_Interval
  <2>2. IsFiniteSet(1..n)
    BY <1>2, FS_Interval
  <2> QED BY <1>2, <2>1, <2>2
<1>7. IsFiniteSet(A) /\ Cardinality(A) <= n /\ IsFiniteSet(B) /\ Cardinality(B) <= Cardinality(Workers)
  BY <1>5, <1>6, FS_Surjection, IoExecutorAssumption
<1>8. IsFiniteSet(A \cup B) /\ Cardinality(A \cup B) = Cardinality(A) + Cardinality(B) - Cardinality(A \cap B)
  BY <1>7, FS_Union
<1>9. Cardinality(A \cap B) \in Nat /\ Cardinality(A) \in Nat /\ Cardinality(B) \in Nat
  <2>1. IsFiniteSet(A \cap B)
    BY <1>7, FS_Subset
  <2> QED BY <1>7, <2>1, FS_CardinalityType
<1>10. Posted(lg) \subseteq A \cup B
  <2> SUFFICES ASSUME NEW l \in Logins, lg[l] = "posted"
               PROVE  l \in A \cup B
    BY DEF Posted
  <2>1. ASSUME NEW i \in 1..n, q[i] = Task("login", l)
        PROVE  l \in A
    <3>1. f[i] = l
      BY <1>3, <2>1 DEF Task
    <3> QED BY <1>4, <3>1
  <2>2. ASSUME NEW w \in Workers, wk[w] = Task("login", l)
        PROVE  l \in B
    <3>1. g[w] = l
      BY <1>3, <2>2 DEF Task
    <3> QED BY <1>4, <3>1
  <2> QED BY <1>1, <2>1, <2>2 DEF PoolFits
<1>11. Cardinality(Posted(lg)) <= Cardinality(A \cup B)
  BY <1>8, <1>10, FS_Subset
<1> QED BY <1>2, <1>7, <1>8, <1>9, <1>11, LoginSets, IoExecutorAssumption

\* Logins that leave the flight.
LEMMA FlightShrinks ==
    ASSUME NEW lg, NEW nl, Flying(nl) \subseteq Flying(lg)
    PROVE  Cardinality(Flying(nl)) <= Cardinality(Flying(lg))
BY LoginSets, FS_Subset

\* And fewer that have asked.
LEMMA AskersShrink ==
    ASSUME NEW lg, NEW nl, AskedOf(nl) \subseteq AskedOf(lg)
    PROVE  Cardinality(AskedOf(nl)) <= Cardinality(AskedOf(lg))
BY LoginSets, FS_Subset

\* Steps that neither admit a login nor count a failure.
LEMMA SparingStep ==
    ASSUME PoolInv, PoolFits(queue, worker, login)', failures' \in {failures, 0},
           Flying(login') \subseteq Flying(login), AskedOf(login') \subseteq AskedOf(login)
    PROVE  PoolInv'
<1>1. /\ Cardinality(AskedOf(login')) <= Cardinality(AskedOf(login))
      /\ Cardinality(Flying(login')) <= Cardinality(Flying(login))
  BY FlightShrinks, AskersShrink
<1>2. /\ Cardinality(AskedOf(login)) \in Nat /\ Cardinality(AskedOf(login')) \in Nat
      /\ Cardinality(Flying(login)) \in Nat /\ Cardinality(Flying(login')) \in Nat
      /\ Cardinality(Workers) \in Nat
  BY LoginSets
<1>3. Room \in Nat /\ kMaxFailedLogins \in Nat \ {0} /\ Loops \in Nat
  BY <1>2, IoExecutorAssumption DEF Room
<1>4. failures \in Nat /\ failures' \in Nat /\ failures' <= failures
  BY DEF PoolInv
<1>5. Cardinality(AskedOf(login')) <= Loops
  BY <1>1, <1>2, <1>3 DEF PoolInv
<1>6. failures' + Cardinality(Flying(login')) <= kMaxFailedLogins - 1 + Room
  <2>1. failures + Cardinality(Flying(login)) <= kMaxFailedLogins - 1 + Room
    BY DEF PoolInv
  <2> QED BY <1>1, <1>2, <1>3, <1>4, <2>1
<1> QED BY <1>4, <1>5, <1>6 DEF PoolInv, Room

\* The three tasks a worker is in when it runs none are no login's.
LEMMA RestTasks ==
    /\ {Awake, Asleep, Gone} \subseteq AllTasks
    /\ \A t \in {Awake, Asleep, Gone} : t.kind # "login"
BY IoExecutorAssumption DEF Awake, Asleep, Gone, Task, AllTasks

\* Workers that go to sleep, wake, or finish a task that is no login's.
LEMMA RestingStep ==
    ASSUME PoolInv, queue' = queue, login' = login, failures' \in {failures, 0},
           worker' \in [Workers -> AllTasks],
           \A w \in Workers : \/ worker'[w] = worker[w]
                              \/ worker'[w].kind # "login" /\ worker[w].kind # "login"
    PROVE  PoolInv'
<1>1. PoolFits(queue, worker, login)
  BY DEF PoolInv
<1>2. PoolFits(queue, worker', login)
  BY <1>1, FitsIdle
<1>3. PoolFits(queue, worker, login)'
  BY <1>2
<1> QED BY <1>3, SparingStep

\* One worker that does so.
LEMMA OneRests ==
    ASSUME PoolInv, queue' = queue, login' = login, failures' = failures,
           NEW w \in Workers, NEW t \in {Awake, Asleep, Gone},
           worker[w].kind # "login", worker' = [worker EXCEPT ![w] = t]
    PROVE  PoolInv'
<1>1. worker \in [Workers -> AllTasks]
  BY DEF PoolInv, PoolFits
<1>2. t \in AllTasks /\ t.kind # "login"
  BY RestTasks
<1>3. worker' \in [Workers -> AllTasks] /\ worker'[w] = t
      /\ \A v \in Workers \ {w} : worker'[v] = worker[v]
  BY <1>1, <1>2
<1> QED BY <1>2, <1>3, RestingStep

\* The pool's own steps.
LEMMA PoolSteps ==
    ASSUME PoolInv,
           \/ Notify \/ PostWork \/ StopExecutor
           \/ \E w \in Workers : Take(w) \/ RunWork(w)
    PROVE  PoolInv'
<1>1. worker \in [Workers -> AllTasks] /\ PoolFits(queue, worker, login)
  BY DEF PoolInv, PoolFits
<1>2. CASE Notify
  <2>1. queue' = queue /\ login' = login /\ failures' = failures
    BY <1>2 DEF Notify
  <2>2. CASE worker' = worker
    BY <1>1, <2>1, <2>2, RestingStep
  <2>3. CASE \E w \in Workers : worker[w] = Asleep /\ worker' = [worker EXCEPT ![w] = Awake]
    BY <2>1, <2>3, OneRests, RestTasks
  <2> QED BY <1>2, <2>2, <2>3 DEF Notify
<1>3. CASE PostWork
  <2>1. PICK t : t = Task("work", 0)
    OBVIOUS
  <2>2. t \in AllTasks /\ t.kind # "login"
    BY <2>1, IoExecutorAssumption DEF Task, AllTasks
  <2>3. /\ queue' = Append(queue, t) /\ worker' = worker /\ login' = login /\ failures' = failures
        /\ Len(queue) < queueLimit
    BY <1>3, <2>1 DEF PostWork, Accepts, Pushed
  <2>4. PoolFits(Append(queue, t), worker, login)
    BY <1>1, <2>2, <2>3, FitsPush
  <2>5. PoolFits(queue, worker, login)'
    BY <2>3, <2>4
  <2> QED BY <2>3, <2>5, SparingStep
<1>4. CASE StopExecutor
  <2>1. /\ queue' = queue /\ login' = login /\ failures' = failures
        /\ worker' = [w \in Workers |-> IF worker[w] = Asleep THEN Awake ELSE worker[w]]
    BY <1>4 DEF StopExecutor
  <2>2. /\ worker' \in [Workers -> AllTasks]
        /\ \A w \in Workers : \/ worker'[w] = worker[w]
                              \/ worker'[w].kind # "login" /\ worker[w].kind # "login"
    BY <1>1, <2>1, RestTasks
  <2> QED BY <2>1, <2>2, RestingStep
<1>5. ASSUME NEW w \in Workers, Take(w)
      PROVE  PoolInv'
  <2>1. worker[w] = Awake /\ login' = login /\ failures' = failures
    BY <1>5 DEF Take
  <2>2. worker[w].kind # "login"
    BY <2>1, RestTasks
  <2>3. CASE queue # <<>>
    <3>1. worker' = [worker EXCEPT ![w] = Head(queue)] /\ queue' = Tail(queue)
      BY <1>5, <2>3 DEF Take
    <3>2. PoolFits(Tail(queue), [worker EXCEPT ![w] = Head(queue)], login)
      BY <1>1, <2>2, <2>3, FitsTake
    <3>3. PoolFits(queue, worker, login)'
      BY <2>1, <3>1, <3>2
    <3> QED BY <2>1, <3>3, SparingStep
  <2>4. CASE queue = <<>>
    <3>1. queue' = queue /\ worker' = [worker EXCEPT ![w] = IF stopping THEN Gone ELSE Asleep]
      BY <1>5, <2>4 DEF Take
    <3>2. \E t \in {Awake, Asleep, Gone} : worker' = [worker EXCEPT ![w] = t]
      BY <3>1
    <3> QED BY <2>1, <2>2, <3>1, <3>2, OneRests
  <2> QED BY <2>3, <2>4
<1>6. ASSUME NEW w \in Workers, RunWork(w)
      PROVE  PoolInv'
  <2>1. /\ queue' = queue /\ login' = login /\ failures' = failures
        /\ worker' = [worker EXCEPT ![w] = Awake] /\ worker[w].kind # "login"
    BY <1>6 DEF RunWork, Running, Done
  <2> QED BY <2>1, OneRests
<1> QED BY <1>2, <1>3, <1>4, <1>5, <1>6

\* A login that asks is let in only while the failures are below the limit,
\* and then everything in flight fits in the pool and the event loops.
LEMMA AskStep ==
    ASSUME PoolInv, NEW l \in Logins, AskThrottle(l)
    PROVE  PoolInv'
<1>1. /\ queue' = queue /\ worker' = worker /\ failures' = failures /\ login[l] = "outside"
      /\ login' = [login EXCEPT ![l] = IF failures >= kMaxFailedLogins THEN "over" ELSE "asked"]
      /\ Cardinality(AskedOf(login)) < Loops
  BY DEF AskThrottle, To, poolVars, AskedOf
<1>2. login \in [Logins -> LoginStates] /\ PoolFits(queue, worker, login)
  BY DEF PoolInv, PoolFits
<1>3. /\ login' \in [Logins -> LoginStates] /\ \A m \in Logins \ {l} : login'[m] = login[m]
      /\ login'[l] = IF failures >= kMaxFailedLogins THEN "over" ELSE "asked"
  BY <1>1, <1>2 DEF LoginStates
<1>4. \A m \in Logins : login'[m] = "posted" <=> login[m] = "posted"
  BY <1>1, <1>3
<1>5. PoolFits(queue, worker, login')
  BY <1>2, <1>3, <1>4, FitsRelabel
<1>6. PoolFits(queue, worker, login)'
  BY <1>1, <1>5
<1>7. CASE failures >= kMaxFailedLogins
  <2>1. Flying(login') \subseteq Flying(login) /\ AskedOf(login') \subseteq AskedOf(login)
    BY <1>3, <1>7 DEF Flying, AskedOf
  <2> QED BY <1>1, <1>6, <2>1, SparingStep
<1>8. CASE ~(failures >= kMaxFailedLogins)
  <2>1. AskedOf(login') = AskedOf(login) \cup {l} /\ l \notin AskedOf(login)
    BY <1>1, <1>3, <1>8 DEF AskedOf
  <2>2. Cardinality(AskedOf(login')) = Cardinality(AskedOf(login)) + 1
    <3>1. IsFiniteSet(AskedOf(login))
      BY LoginSets
    <3> QED BY <2>1, <3>1, FS_AddElement
  <2>3. /\ Cardinality(AskedOf(login)) \in Nat /\ Cardinality(AskedOf(login')) \in Nat
        /\ Cardinality(Flying(login')) \in Nat /\ Cardinality(Posted(login')) \in Nat
        /\ Cardinality(Workers) \in Nat
        /\ Cardinality(Flying(login')) <= Cardinality(AskedOf(login')) + Cardinality(Posted(login'))
    BY LoginSets
  <2>4. Cardinality(AskedOf(login')) <= Loops
    BY <1>1, <2>2, <2>3, IoExecutorAssumption
  <2>5. Cardinality(Posted(login')) <= queueLimit + Cardinality(Workers)
    BY <1>5, PostedBound
  <2>6. failures \in Nat /\ failures <= kMaxFailedLogins - 1
    BY <1>8, IoExecutorAssumption DEF PoolInv
  <2>7. failures' + Cardinality(Flying(login')) <= kMaxFailedLogins - 1 + Room
    BY <1>1, <2>3, <2>4, <2>5, <2>6, IoExecutorAssumption DEF Room
  <2> QED BY <1>1, <1>6, <2>4, <2>6, <2>7 DEF PoolInv, Room
<1> QED BY <1>7, <1>8

\* A login that was let in is posted, or answered that the server is busy.
LEMMA PostStep ==
    ASSUME PoolInv, NEW l \in Logins, PostLogin(l)
    PROVE  PoolInv'
<1>1. worker' = worker /\ failures' = failures /\ login[l] = "asked"
  BY DEF PostLogin
<1>2. login \in [Logins -> LoginStates] /\ PoolFits(queue, worker, login)
  BY DEF PoolInv, PoolFits
<1>3. CASE Accepts
  <2>1. /\ login' = [login EXCEPT ![l] = "posted"] /\ queue' = Append(queue, Task("login", l))
        /\ Len(queue) < queueLimit
    BY <1>3 DEF PostLogin, To, Pushed, Accepts
  <2>2. PoolFits(Append(queue, Task("login", l)), worker, [login EXCEPT ![l] = "posted"])
    BY <1>1, <1>2, <2>1, FitsPost
  <2>3. PoolFits(queue, worker, login)'
    BY <1>1, <2>1, <2>2
  <2>4. Flying(login') \subseteq Flying(login) /\ AskedOf(login') \subseteq AskedOf(login)
    BY <1>1, <1>2, <2>1 DEF Flying, AskedOf
  <2> QED BY <1>1, <2>3, <2>4, SparingStep
<1>4. CASE ~Accepts
  <2>1. login' = [login EXCEPT ![l] = "over"] /\ queue' = queue
    BY <1>4 DEF PostLogin, To
  <2>2. login' \in [Logins -> LoginStates] /\ \A m \in Logins : login'[m] = "posted" <=> login[m] = "posted"
    BY <1>1, <1>2, <2>1 DEF LoginStates
  <2>3. PoolFits(queue, worker, login')
    BY <1>2, <2>2, FitsRelabel
  <2>4. PoolFits(queue, worker, login)'
    BY <1>1, <2>1, <2>3
  <2>5. Flying(login') \subseteq Flying(login) /\ AskedOf(login') \subseteq AskedOf(login)
    BY <1>1, <1>2, <2>1 DEF Flying, AskedOf
  <2> QED BY <1>1, <2>4, <2>5, SparingStep
<1> QED BY <1>3, <1>4

\* A verification that fails counts, and is no longer in flight.
LEMMA LoginStep ==
    ASSUME PoolInv, NEW w \in Workers, RunLogin(w)
    PROVE  PoolInv'
<1>1. PICK l, nw, nl : /\ l = worker[w].of /\ nw = [worker EXCEPT ![w] = Awake]
                       /\ nl = [login EXCEPT ![l] = "over"]
  OBVIOUS
<1>2. /\ worker[w].kind = "login" /\ worker' = nw /\ login' = nl /\ failures' \in {failures + 1, 0}
      /\ PostAudit
  BY <1>1 DEF RunLogin, Running, Done, To
<1>3. PoolFits(queue, worker, login) /\ login \in [Logins -> LoginStates] /\ l \in Logins
      /\ login[l] = "posted"
  BY <1>1, <1>2 DEF PoolInv, PoolFits
<1>4. PoolFits(queue, nw, nl)
  BY <1>1, <1>2, <1>3, FitsDone
<1>5. PoolFits(queue', nw, nl)
  <2>1. CASE Accepts
    <3>1. PICK t : t = Task("audit", 0)
      OBVIOUS
    <3>2. t \in AllTasks /\ t.kind # "login"
      BY <3>1, IoExecutorAssumption DEF Task, AllTasks
    <3>3. queue' = Append(queue, t) /\ Len(queue) < queueLimit
      BY <1>2, <2>1, <3>1 DEF PostAudit, Pushed, Accepts
    <3>4. PoolFits(Append(queue, t), nw, nl)
      BY <1>4, <3>2, <3>3, FitsPush
    <3> QED BY <3>3, <3>4
  <2>2. CASE ~Accepts
    BY <1>2, <1>4, <2>2 DEF PostAudit
  <2> QED BY <2>1, <2>2
<1>6. PoolFits(queue, worker, login)'
  BY <1>2, <1>5
<1>7. nl[l] = "over" /\ \A m \in Logins \ {l} : nl[m] = login[m]
  BY <1>1, <1>3
<1>8. /\ Flying(nl) = Flying(login) \ {l} /\ l \in Flying(login)
      /\ AskedOf(nl) \subseteq AskedOf(login)
  BY <1>3, <1>7 DEF Flying, AskedOf
<1>9. Cardinality(Flying(nl)) = Cardinality(Flying(login)) - 1
  <2>1. IsFiniteSet(Flying(login))
    BY LoginSets
  <2> QED BY <1>8, <2>1, FS_RemoveElement
<1>10. /\ Cardinality(AskedOf(nl)) <= Cardinality(AskedOf(login))
       /\ Cardinality(AskedOf(login)) \in Nat /\ Cardinality(AskedOf(nl)) \in Nat
       /\ Cardinality(Flying(login)) \in Nat /\ Cardinality(Workers) \in Nat
  BY <1>8, LoginSets, AskersShrink
<1>11. Room \in Nat /\ kMaxFailedLogins \in Nat \ {0} /\ Loops \in Nat
  BY <1>10, IoExecutorAssumption DEF Room
<1>12. failures' \in Nat /\ failures' <= failures + 1 /\ failures \in Nat
  BY <1>2 DEF PoolInv
<1>13. Cardinality(AskedOf(nl)) <= Loops
  BY <1>10, <1>11 DEF PoolInv
<1>14. failures' + Cardinality(Flying(nl)) <= kMaxFailedLogins - 1 + Room
  <2>1. failures + Cardinality(Flying(login)) <= kMaxFailedLogins - 1 + Room
    BY DEF PoolInv
  <2> QED BY <1>9, <1>10, <1>11, <1>12, <2>1
<1> QED BY <1>2, <1>6, <1>12, <1>13, <1>14 DEF PoolInv, Room

\* What is not queued, running or asked is no load.
LEMMA EmptyPool ==
    ASSUME NEW lg \in [Logins -> LoginStates], \A l \in Logins : lg[l] \notin {"asked", "posted"}
    PROVE  /\ PoolFits(<<>>, [w \in Workers |-> Awake], lg)
           /\ Cardinality(AskedOf(lg)) = 0 /\ Cardinality(Flying(lg)) = 0
<1>1. AskedOf(lg) = {} /\ Flying(lg) = {}
  BY DEF AskedOf, Flying
<1>2. PICK q, wk : q = << >> /\ wk = [w \in Workers |-> Awake]
  OBVIOUS
<1>3. q \in Seq(AllTasks) /\ Len(q) = 0 /\ 0 <= queueLimit
  BY <1>2, EmptySeq, IoExecutorAssumption
<1>4. wk \in [Workers -> AllTasks] /\ \A w \in Workers : wk[w].kind # "login"
  BY <1>2, RestTasks
<1>5. 1..Len(q) = {}
  BY <1>3
<1>6. PoolFits(q, wk, lg)
  BY <1>3, <1>4, <1>5 DEF PoolFits
<1> QED BY <1>1, <1>2, <1>6, FS_EmptySet

\* Signals, and the process that starts again.
LEMMA LifeSteps ==
    ASSUME PoolInv, Quit \/ Join \/ Flush \/ Restart \/ WindowEnds \/ UNCHANGED ioVars
    PROVE  PoolInv'
<1>1. login \in [Logins -> LoginStates] /\ PoolFits(queue, worker, login) /\ worker \in [Workers -> AllTasks]
  BY DEF PoolInv, PoolFits
<1>2. CASE Quit
  <2>1. /\ queue' = queue /\ worker' = worker /\ failures' = failures
        /\ login' = [l \in Logins |-> IF login[l] = "asked" THEN "over" ELSE login[l]]
    BY <1>2 DEF Quit, poolVars
  <2>2. login' \in [Logins -> LoginStates] /\ \A l \in Logins : login'[l] = "posted" <=> login[l] = "posted"
    BY <1>1, <2>1 DEF LoginStates
  <2>3. PoolFits(queue, worker, login')
    BY <1>1, <2>2, FitsRelabel
  <2>4. PoolFits(queue, worker, login)'
    BY <2>1, <2>3
  <2>5. Flying(login') \subseteq Flying(login) /\ AskedOf(login') \subseteq AskedOf(login)
    BY <1>1, <2>1 DEF Flying, AskedOf
  <2> QED BY <2>1, <2>4, <2>5, SparingStep
<1>3. CASE Join \/ Flush \/ WindowEnds \/ UNCHANGED ioVars
  <2>1. queue' = queue /\ worker' = worker /\ login' = login /\ failures' \in {failures, 0}
    BY <1>3 DEF Join, Flush, WindowEnds, ioVars, poolVars
  <2> QED BY <1>1, <2>1, RestingStep
<1>4. CASE Restart
  <2>1. /\ queue' = <<>> /\ worker' = [w \in Workers |-> Awake] /\ failures' = 0
        /\ login' = [l \in Logins |-> IF login[l] \in {"asked", "posted"} THEN "over" ELSE login[l]]
    BY <1>4 DEF Restart
  <2>2. login' \in [Logins -> LoginStates] /\ \A l \in Logins : login'[l] \notin {"asked", "posted"}
    BY <1>1, <2>1 DEF LoginStates
  <2>3. /\ PoolFits(<<>>, [w \in Workers |-> Awake], login')
        /\ Cardinality(AskedOf(login')) = 0 /\ Cardinality(Flying(login')) = 0
    BY <2>2, EmptyPool
  <2>4. PoolFits(queue, worker, login)'
    BY <2>1, <2>3
  <2>5. Flying(login') = {} /\ AskedOf(login') = {}
    BY <2>2 DEF Flying, AskedOf
  <2> QED BY <2>1, <2>4, <2>5, SparingStep
<1> QED BY <1>2, <1>3, <1>4

(***************************************************************************)
(* The sign-ins that get past the throttle in one window are bounded by    *)
(* its limit and by what the event loops, the queue and the threads can    *)
(* hold, for every size of each and any number of clients. The count needs *)
(* that each posted sign-in has one task of its own in the pool.           *)
(***************************************************************************)
THEOREM ThrottleSafety == IoSpec => []ThrottleOvershootBounded
<1>1. IoInit => PoolInv
  <2> SUFFICES ASSUME IoInit
               PROVE  PoolInv
    OBVIOUS
  <2>1. /\ queue = <<>> /\ worker = [w \in Workers |-> Awake] /\ failures = 0
        /\ login \in [Logins -> LoginStates] /\ \A l \in Logins : login[l] \notin {"asked", "posted"}
    BY DEF IoInit, LoginStates
  <2>2. /\ PoolFits(<<>>, [w \in Workers |-> Awake], login)
        /\ Cardinality(AskedOf(login)) = 0 /\ Cardinality(Flying(login)) = 0
    BY <2>1, EmptyPool
  <2>3. Cardinality(Workers) \in Nat
    BY LoginSets
  <2>4. 0 <= Loops /\ 0 + 0 <= kMaxFailedLogins - 1 + Room
    BY <2>3, IoExecutorAssumption DEF Room
  <2> QED BY <2>1, <2>2, <2>4 DEF PoolInv
<1>2. PoolInv /\ [IoNext]_ioVars => PoolInv'
  <2> SUFFICES ASSUME PoolInv, [IoNext]_ioVars
               PROVE  PoolInv'
    OBVIOUS
  <2>1. CASE Notify \/ PostWork \/ StopExecutor \/ \E w \in Workers : Take(w) \/ RunWork(w)
    BY <2>1, PoolSteps
  <2>2. CASE Quit \/ Join \/ Flush \/ Restart \/ WindowEnds \/ UNCHANGED ioVars
    BY <2>2, LifeSteps
  <2>3. CASE \E w \in Workers : RunLogin(w)
    BY <2>3, LoginStep
  <2>4. CASE \E l \in Logins : AskThrottle(l) \/ PostLogin(l)
    BY <2>4, AskStep, PostStep
  <2> QED BY <2>1, <2>2, <2>3, <2>4 DEF IoNext, Worker, Shutdown
<1>3. PoolInv => ThrottleOvershootBounded
  <2> SUFFICES ASSUME PoolInv
               PROVE  ThrottleOvershootBounded
    OBVIOUS
  <2>1. Cardinality(Workers) \in Nat /\ Cardinality(Flying(login)) \in Nat
    BY LoginSets
  <2>2. failures + Cardinality(Flying(login)) <= kMaxFailedLogins - 1 + Room
    BY DEF PoolInv
  <2>3. kMaxFailedLogins - 1 + Room = kMaxFailedLogins - 1 + Loops + queueLimit + Cardinality(Workers)
    BY <2>1, IoExecutorAssumption DEF Room
  <2> QED BY <2>2, <2>3 DEF ThrottleOvershootBounded, Flying
<1> QED BY <1>1, <1>2, <1>3, PTL DEF IoSpec

-----------------------------------------------------------------------------
(* The dashboard's samples. *)

\* The intervals so far, and what the counter gained in one of them.
Intervals(rs) == IF rs = <<>> THEN 0 ELSE Len(rs) - 1
Gain(rs, k) == IF rs[k + 1] < rs[k] THEN 0 ELSE rs[k + 1] - rs[k]

\* The slots before the write position hold the latest gains, and once the
\* ring is full the slots from it on hold the ones before those.
HistoryInv ==
    /\ readings \in Seq(Nat)
    /\ ring \in [0..RingSize - 1 -> Nat] /\ slot \in 0..RingSize - 1 /\ wrapped \in BOOLEAN
    /\ IF wrapped THEN slot + RingSize <= Intervals(readings) ELSE Intervals(readings) = slot
    /\ \A i \in 0..slot - 1 : ring[i] = Gain(readings, Intervals(readings) - slot + i + 1)
    /\ wrapped => \A i \in slot..RingSize - 1 :
                     ring[i] = Gain(readings, Intervals(readings) - slot - RingSize + i + 1)

\* The write position goes around.
LEMMA Around ==
    ASSUME NEW R \in Nat \ {0}, NEW s \in 0..R - 1
    PROVE  (s + 1) % R = IF s + 1 = R THEN 0 ELSE s + 1
<1>1. CASE s + 1 = R
  BY <1>1
<1>2. CASE s + 1 # R
  BY <1>2
<1> QED BY <1>1, <1>2

\* A list of readings with one more interval than another, in which d was gained.
LongerBy(rs, ns, n, d) ==
    /\ ns \in Seq(Nat) /\ Intervals(ns) = n + 1 /\ Intervals(rs) = n /\ n \in Nat
    /\ Gain(ns, n + 1) = d /\ d \in Nat
    /\ \A k \in 1..n : Gain(ns, k) = Gain(rs, k)

\* The slots from one up to another, as samples copies them.
Held(f, from, to) == [i \in 1..to - from |-> f[from + i - 1]]

\* A function over 1..n is a sequence.
LEMMA ListLength ==
    ASSUME NEW S, NEW n \in Nat, NEW f \in [1..n -> S]
    PROVE  f \in Seq(S) /\ Len(f) = n
OBVIOUS

\* One reading more, and what was gained before it is as it was.
LEMMA OneMore ==
    ASSUME NEW rs \in Seq(Nat), rs # <<>>, NEW r \in Nat
    PROVE  LongerBy(rs, Append(rs, r), Len(rs) - 1, delta(r, Last(rs)))
<1>0. PICK n : n = Len(rs) - 1
  OBVIOUS
<1>1. n \in Nat /\ Len(rs) = n + 1
  BY <1>0, EmptySeq
<1>2. PICK ns : ns = Append(rs, r)
  OBVIOUS
<1>3. ns \in Seq(Nat) /\ ns # <<>> /\ Len(ns) = n + 2
      /\ (\A i \in 1..(n + 1) : ns[i] = rs[i]) /\ ns[n + 2] = r
  <2>1. /\ ns \in Seq(Nat) /\ ns # <<>> /\ Len(ns) = Len(rs) + 1
        /\ (\A i \in 1..Len(rs) : ns[i] = rs[i]) /\ ns[Len(rs) + 1] = r
    BY <1>2, AppendProperties
  <2>2. Len(rs) + 1 = n + 2
    BY <1>1
  <2> QED BY <1>1, <2>1, <2>2
<1>4. Intervals(ns) = n + 1 /\ Intervals(rs) = n
  BY <1>1, <1>3 DEF Intervals
<1>5. PICK p : p = rs[n + 1]
  OBVIOUS
<1>6. p \in Nat /\ Last(rs) = p /\ ns[n + 1] = p
  BY <1>1, <1>3, <1>5, ElementOfSeq DEF Last
<1>7. Gain(ns, n + 1) = IF r < p THEN 0 ELSE r - p
  <2>1. (n + 1) + 1 = n + 2
    BY <1>1
  <2> QED BY <1>3, <1>6, <2>1 DEF Gain
<1>8. Gain(ns, n + 1) = delta(r, Last(rs)) /\ Gain(ns, n + 1) \in Nat
  BY <1>6, <1>7 DEF delta
<1>9. ASSUME NEW k \in 1..n
      PROVE  Gain(ns, k) = Gain(rs, k)
  <2>1. k \in 1..(n + 1) /\ k + 1 \in 1..(n + 1)
    BY <1>1
  <2> QED BY <1>3, <2>1 DEF Gain
<1>10. LongerBy(rs, ns, n, delta(r, Last(rs)))
  BY <1>1, <1>3, <1>4, <1>8, <1>9 DEF LongerBy
<1> QED BY <1>0, <1>2, <1>10

\* A step of the sampler keeps the slots in order.
LEMMA RecordKeeps ==
    ASSUME HistoryInv, NEW reading \in Readings, Record(reading)
    PROVE  HistoryInv'
<1>1. reading \in Nat /\ RingSize \in Nat \ {0}
  BY MetricsHistoryAssumption
<1>2. PICK rs, ns : rs = readings /\ ns = Append(rs, reading)
  OBVIOUS
<1>3. rs \in Seq(Nat) /\ readings' = ns
  BY <1>2 DEF HistoryInv, Record
<1>4. CASE rs = <<>>
  <2>1. ring' = ring /\ slot' = slot /\ wrapped' = wrapped
    BY <1>2, <1>4 DEF Record
  <2>2. slot = 0 /\ wrapped = FALSE
    BY <1>1, <1>2, <1>4 DEF HistoryInv, Intervals
  <2>3. ns \in Seq(Nat) /\ Intervals(ns) = 0
    <3>1. ns \in Seq(Nat) /\ ns # <<>> /\ Len(ns) = Len(rs) + 1
      BY <1>1, <1>2, <1>3, AppendProperties
    <3>2. Len(rs) = 0
      BY <1>4, EmptySeq
    <3> QED BY <3>1, <3>2 DEF Intervals
  <2>4. 0..slot - 1 = {}
    BY <2>2
  <2> QED BY <1>1, <1>3, <2>1, <2>2, <2>3, <2>4 DEF HistoryInv
<1>5. CASE rs # <<>>
  <2>1. PICK n, s, R, d : n = Len(rs) - 1 /\ s = slot /\ R = RingSize /\ d = delta(reading, Last(rs))
    OBVIOUS
  <2>2. /\ ns \in Seq(Nat) /\ Intervals(ns) = n + 1 /\ Intervals(rs) = n /\ n \in Nat
        /\ Gain(ns, n + 1) = d /\ d \in Nat /\ \A k \in 1..n : Gain(ns, k) = Gain(rs, k)
    <3>1. LongerBy(rs, Append(rs, reading), Len(rs) - 1, delta(reading, Last(rs)))
      BY <1>1, <1>3, <1>5, OneMore
    <3>2. LongerBy(rs, ns, n, d)
      BY <1>2, <2>1, <3>1
    <3> QED BY <3>2 DEF LongerBy
  <2>3. /\ ring' = [ring EXCEPT ![s] = d] /\ slot' = (s + 1) % R
        /\ wrapped' = (wrapped \/ slot' = 0)
    BY <1>2, <1>5, <2>1 DEF Record
  <2>4. /\ ring \in [0..R - 1 -> Nat] /\ s \in 0..R - 1 /\ wrapped \in BOOLEAN /\ R \in Nat \ {0}
        /\ IF wrapped THEN s + R <= n ELSE n = s
        /\ \A i \in 0..s - 1 : ring[i] = Gain(rs, n - s + i + 1)
        /\ wrapped => \A i \in s..R - 1 : ring[i] = Gain(rs, n - s - R + i + 1)
    BY <1>1, <1>2, <2>1, <2>2 DEF HistoryInv
  <2>5. slot' = IF s + 1 = R THEN 0 ELSE s + 1
    BY <2>3, <2>4, Around
  <2>6. /\ ring' \in [0..R - 1 -> Nat] /\ ring'[s] = d
        /\ \A i \in (0..R - 1) \ {s} : ring'[i] = ring[i]
    BY <2>2, <2>3, <2>4
  <2>7. s <= n
    BY <2>2, <2>4
  <2>8. \A i \in 0..s - 1 : ring'[i] = Gain(ns, n - s + i + 1)
    <3> SUFFICES ASSUME NEW i \in 0..s - 1
                 PROVE  ring'[i] = Gain(ns, n - s + i + 1)
      OBVIOUS
    <3>1. PICK k : k = n - s + i + 1
      OBVIOUS
    <3>2. k \in 1..n /\ i \in (0..R - 1) \ {s}
      BY <2>2, <2>4, <2>7, <3>1
    <3>3. ring[i] = Gain(rs, k)
      BY <2>4, <3>1
    <3> QED BY <2>2, <2>6, <3>1, <3>2, <3>3
  <2>9. ring'[s] = Gain(ns, n + 1)
    BY <2>2, <2>6
  <2>10. CASE s + 1 # R
    <3>1. slot' = s + 1 /\ wrapped' = wrapped
      BY <2>3, <2>4, <2>5, <2>10
    <3>2. slot' \in 0..R - 1
      BY <2>4, <2>10, <3>1
    <3>3. IF wrapped' THEN slot' + R <= n + 1 ELSE n + 1 = slot'
      BY <2>2, <2>4, <3>1
    <3>4. ASSUME NEW i \in 0..slot' - 1
          PROVE  ring'[i] = Gain(ns, (n + 1) - slot' + i + 1)
      <4>1. (n + 1) - slot' + i + 1 = n - s + i + 1
        BY <2>2, <2>4, <3>1
      <4>2. CASE i = s
        <5>1. n - s + i + 1 = n + 1
          BY <2>2, <2>4, <4>2
        <5> QED BY <2>9, <4>1, <4>2, <5>1
      <4>3. CASE i # s
        <5>1. i \in 0..s - 1
          BY <2>4, <3>1, <4>3
        <5> QED BY <2>8, <4>1, <5>1
      <4> QED BY <4>2, <4>3
    <3>5. ASSUME wrapped', NEW i \in slot'..R - 1
          PROVE  ring'[i] = Gain(ns, (n + 1) - slot' - R + i + 1)
      <4>1. PICK k : k = n - s - R + i + 1
        OBVIOUS
      <4>2. wrapped /\ i \in s..R - 1 /\ i \in (0..R - 1) \ {s} /\ k = (n + 1) - slot' - R + i + 1
        BY <2>2, <2>4, <3>1, <3>5, <4>1
      <4>3. k \in 1..n
        BY <2>2, <2>4, <4>1, <4>2
      <4>4. ring[i] = Gain(rs, k)
        BY <2>4, <4>1, <4>2
      <4> QED BY <2>2, <2>6, <4>2, <4>3, <4>4
    <3>6. \A i \in 0..slot' - 1 : ring'[i] = Gain(readings', Intervals(readings') - slot' + i + 1)
      BY <1>3, <2>2, <3>4
    <3>7. wrapped' => \A i \in slot'..R - 1 :
             ring'[i] = Gain(readings', Intervals(readings') - slot' - R + i + 1)
      BY <1>3, <2>2, <3>5
    <3>8. /\ readings' \in Seq(Nat) /\ wrapped' \in BOOLEAN
          /\ IF wrapped' THEN slot' + R <= Intervals(readings') ELSE Intervals(readings') = slot'
      BY <1>3, <2>2, <2>4, <3>1, <3>3
    <3> QED BY <2>1, <2>6, <3>2, <3>6, <3>7, <3>8 DEF HistoryInv
  <2>11. CASE s + 1 = R
    <3>1. slot' = 0 /\ wrapped' = TRUE
      BY <2>3, <2>5, <2>11
    <3>2. slot' \in 0..R - 1 /\ slot' + R <= n + 1
      BY <2>2, <2>4, <2>7, <2>11, <3>1
    <3>3. 0..slot' - 1 = {}
      BY <3>1
    <3>4. ASSUME NEW i \in slot'..R - 1
          PROVE  ring'[i] = Gain(ns, (n + 1) - slot' - R + i + 1)
      <4>1. (n + 1) - slot' - R + i + 1 = n - s + i + 1
        BY <2>2, <2>4, <2>11, <3>1
      <4>2. CASE i = s
        <5>1. n - s + i + 1 = n + 1
          BY <2>2, <2>4, <4>2
        <5> QED BY <2>9, <4>1, <4>2, <5>1
      <4>3. CASE i # s
        <5>1. i \in 0..s - 1
          BY <2>4, <2>11, <3>1, <4>3
        <5> QED BY <2>8, <4>1, <5>1
      <4> QED BY <4>2, <4>3
    <3>6. \A i \in slot'..R - 1 :
             ring'[i] = Gain(readings', Intervals(readings') - slot' - R + i + 1)
      BY <1>3, <2>2, <3>4
    <3>7. readings' \in Seq(Nat) /\ wrapped' \in BOOLEAN /\ slot' + R <= Intervals(readings')
      BY <1>3, <2>2, <3>1, <3>2
    <3> QED BY <2>1, <2>6, <3>1, <3>2, <3>3, <3>6, <3>7 DEF HistoryInv
  <2> QED BY <2>10, <2>11
<1> QED BY <1>4, <1>5

\* The two halves of a full ring, put together.
LEMMA TwoHalves ==
    ASSUME NEW R \in Nat \ {0}, NEW s \in 0..R - 1, NEW f \in [0..R - 1 -> Nat],
           NEW g \in [1..R -> Nat],
           \A i \in 1..(R - s) : f[s + i - 1] = g[i],
           \A j \in 1..s : f[0 + j - 1] = g[R - s + j]
    PROVE  Held(f, s, R) \o Held(f, 0, s) = g
<1>0. PICK a, b, m : a = Held(f, s, R) /\ b = Held(f, 0, s) /\ m = R - s
  OBVIOUS
<1>1. /\ a = [i \in 1..R - s |-> f[s + i - 1]] /\ b = [i \in 1..s - 0 |-> f[0 + i - 1]]
      /\ m = R - s
  BY <1>0 DEF Held
<1>2. m \in Nat /\ s \in Nat /\ m + s = R /\ s - 0 = s
  BY <1>1
<1>3. a \in [1..m -> Nat] /\ \A i \in 1..m : a[i] = g[i]
  <2>1. \A i \in 1..m : i \in 1..R
    BY <1>2
  <2> QED BY <1>1, <1>2, <2>1
<1>4. b \in [1..s -> Nat] /\ \A j \in 1..s : b[j] = g[m + j]
  <2>1. \A j \in 1..s : m + j \in 1..R
    BY <1>2
  <2> QED BY <1>1, <1>2, <2>1
<1>5. a \in Seq(Nat) /\ Len(a) = m /\ b \in Seq(Nat) /\ Len(b) = s /\ g \in Seq(Nat) /\ Len(g) = R
  <2>1. a \in Seq(Nat) /\ Len(a) = m
    BY <1>2, <1>3, ListLength
  <2>2. b \in Seq(Nat) /\ Len(b) = s
    BY <1>2, <1>4, ListLength
  <2>3. g \in Seq(Nat) /\ Len(g) = R
    BY ListLength
  <2> QED BY <2>1, <2>2, <2>3
<1>6. /\ a \o b \in Seq(Nat) /\ Len(a \o b) = m + s
      /\ \A i \in 1..m + s : (a \o b)[i] = IF i <= m THEN a[i] ELSE b[i - m]
  <2>1. a \in Seq(Nat) /\ b \in Seq(Nat)
    BY <1>5
  <2>2. /\ a \o b \in Seq(Nat) /\ Len(a \o b) = Len(a) + Len(b)
        /\ \A i \in 1..Len(a) + Len(b) : (a \o b)[i] = IF i <= Len(a) THEN a[i] ELSE b[i - Len(a)]
    BY ONLY <2>1, ConcatProperties
  <2> QED BY <1>5, <2>2
<1>7. ASSUME NEW i \in 1..R
      PROVE  (a \o b)[i] = g[i]
  <2>1. (a \o b)[i] = IF i <= m THEN a[i] ELSE b[i - m]
    BY <1>2, <1>6
  <2>2. CASE i <= m
    <3>1. i \in 1..m
      BY <1>2, <2>2
    <3> QED BY <1>3, <2>1, <2>2, <3>1
  <2>3. CASE ~(i <= m)
    <3>1. PICK j : j = i - m
      OBVIOUS
    <3>2. j \in 1..s /\ m + j = i
      BY <1>2, <2>3, <3>1
    <3> QED BY <1>4, <2>1, <2>3, <3>1, <3>2
  <2> QED BY <2>2, <2>3
<1>8. a \o b = g
  BY <1>2, <1>5, <1>6, <1>7, SeqEqual
<1> QED BY <1>0, <1>8

\* In such a ring the samples are the gains of the last intervals.
LEMMA GraphFollows ==
    HistoryInv => GraphShowsLastIntervals
<1> SUFFICES ASSUME HistoryInv
             PROVE  GraphShowsLastIntervals
  OBVIOUS
<1>1. PICK rs, n, s, R : rs = readings /\ n = Intervals(rs) /\ s = slot /\ R = RingSize
  OBVIOUS
<1>2. /\ rs \in Seq(Nat) /\ ring \in [0..R - 1 -> Nat] /\ s \in 0..R - 1 /\ R \in Nat \ {0}
      /\ wrapped \in BOOLEAN /\ IF wrapped THEN s + R <= n ELSE n = s
      /\ \A i \in 0..s - 1 : ring[i] = Gain(rs, n - s + i + 1)
      /\ wrapped => \A i \in s..R - 1 : ring[i] = Gain(rs, n - s - R + i + 1)
  BY <1>1, MetricsHistoryAssumption DEF HistoryInv
<1>3. n \in Nat /\ (n # 0 => Len(rs) = n + 1)
  BY <1>1, <1>2, EmptySeq DEF Intervals
<1>4. Min({n, R}) = IF wrapped THEN R ELSE n
  <2>1. CASE wrapped
    <3>1. R <= n
      BY <1>2, <1>3, <2>1
    <3> QED BY <1>2, <1>3, <2>1, <3>1 DEF Min
  <2>2. CASE ~wrapped
    <3>1. n < R
      BY <1>2, <1>3, <2>2
    <3> QED BY <1>2, <1>3, <2>2, <3>1 DEF Min
  <2> QED BY <2>1, <2>2
<1>5. \A k \in 1..n : Gain(rs, k) \in Nat
  <2> SUFFICES ASSUME NEW k \in 1..n
               PROVE  Gain(rs, k) \in Nat
    OBVIOUS
  <2>1. k \in 1..Len(rs) /\ k + 1 \in 1..Len(rs)
    BY <1>3
  <2>2. PICK x, y : x = rs[k] /\ y = rs[k + 1]
    OBVIOUS
  <2>3. x \in Nat /\ y \in Nat
    BY <1>2, <2>1, <2>2, ElementOfSeq
  <2> QED BY <2>2, <2>3 DEF Gain
<1>6. PICK shown : shown = Min({n, R})
  OBVIOUS
<1>7. SUFFICES samples = [i \in 1..shown |-> Gain(rs, n - shown + i)]
  BY <1>1, <1>6 DEF GraphShowsLastIntervals, Intervals, Gain
<1>8. CASE wrapped
  <2>1. shown = R /\ R <= n
    BY <1>2, <1>3, <1>4, <1>6, <1>8
  <2>2. PICK g : g = [i \in 1..R |-> Gain(rs, n - R + i)]
    OBVIOUS
  <2>3. g \in [1..R -> Nat]
    <3>1. \A i \in 1..R : n - R + i \in 1..n
      BY <1>2, <1>3, <2>1
    <3> QED BY <1>5, <2>2, <3>1
  <2>4. ASSUME NEW i \in 1..(R - s)
        PROVE  ring[s + i - 1] = g[i]
    <3>1. PICK k : k = s + i - 1
      OBVIOUS
    <3>2. k \in s..R - 1 /\ n - s - R + k + 1 = n - R + i /\ i \in 1..R
      BY <1>2, <1>3, <3>1
    <3>3. ring[k] = Gain(rs, n - s - R + k + 1)
      BY <1>2, <1>8, <3>2
    <3> QED BY <2>2, <3>1, <3>2, <3>3
  <2>5. ASSUME NEW j \in 1..s
        PROVE  ring[0 + j - 1] = g[R - s + j]
    <3>1. PICK k, m : k = 0 + j - 1 /\ m = R - s + j
      OBVIOUS
    <3>2. k \in 0..s - 1 /\ n - s + k + 1 = n - R + m /\ m \in 1..R
      BY <1>2, <1>3, <3>1
    <3>3. ring[k] = Gain(rs, n - s + k + 1)
      BY <1>2, <3>2
    <3> QED BY <2>2, <3>1, <3>2, <3>3
  <2>6. Held(ring, s, R) \o Held(ring, 0, s) = g
    <3>1. R \in Nat \ {0} /\ s \in 0..R - 1 /\ ring \in [0..R - 1 -> Nat]
      BY <1>2
    <3> QED BY ONLY <2>3, <2>4, <2>5, <3>1, TwoHalves
  <2>7. samples = Held(ring, s, R) \o Held(ring, 0, s)
    BY <1>1, <1>8 DEF samples, Held
  <2> QED BY <2>1, <2>2, <2>6, <2>7
<1>9. CASE ~wrapped
  <2>1. shown = n /\ n = s
    BY <1>2, <1>4, <1>6, <1>9
  <2>2. samples = [i \in 1..s - 0 |-> ring[0 + i - 1]]
    BY <1>1, <1>9 DEF samples
  <2>3. s - 0 = s
    BY <1>2
  <2>4. ASSUME NEW i \in 1..s
        PROVE  ring[0 + i - 1] = Gain(rs, n - shown + i)
    <3>1. PICK k : k = 0 + i - 1
      OBVIOUS
    <3>2. k \in 0..s - 1 /\ n - s + k + 1 = n - shown + i
      BY <1>2, <1>3, <2>1, <3>1
    <3>3. ring[k] = Gain(rs, n - s + k + 1)
      BY <1>2, <3>2
    <3> QED BY <3>1, <3>2, <3>3
  <2> QED BY <2>1, <2>2, <2>3, <2>4
<1> QED BY <1>8, <1>9

(***************************************************************************)
(* The graph shows the last intervals, in order, for rings of every size   *)
(* and any number of ticks: after the write position has gone around any   *)
(* number of times no slot is skipped, shown twice or shown unwritten.     *)
(***************************************************************************)
THEOREM GraphSafety == HistorySpec => []GraphShowsLastIntervals
<1>1. HistoryInit => HistoryInv
  <2> SUFFICES ASSUME HistoryInit
               PROVE  HistoryInv
    OBVIOUS
  <2>1. /\ ring \in [0..RingSize - 1 -> Nat] /\ slot = 0 /\ wrapped = FALSE
        /\ readings = <<>> /\ RingSize \in Nat \ {0}
    BY MetricsHistoryAssumption DEF HistoryInit
  <2>2. readings \in Seq(Nat) /\ Intervals(readings) = 0
    BY <2>1, EmptySeq DEF Intervals
  <2>3. 0..slot - 1 = {} /\ slot \in 0..RingSize - 1
    BY <2>1
  <2> QED BY <2>1, <2>2, <2>3 DEF HistoryInv
<1>2. HistoryInv /\ [HistoryNext]_historyVars => HistoryInv'
  <2> SUFFICES ASSUME HistoryInv, [HistoryNext]_historyVars
               PROVE  HistoryInv'
    OBVIOUS
  <2>1. CASE HistoryNext
    BY <2>1, RecordKeeps DEF HistoryNext
  <2>2. CASE UNCHANGED historyVars
    <3>1. ring' = ring /\ slot' = slot /\ wrapped' = wrapped /\ readings' = readings
      BY <2>2 DEF historyVars
    <3> QED BY <3>1 DEF HistoryInv
  <2> QED BY <2>1, <2>2
<1> QED BY <1>1, <1>2, GraphFollows, PTL DEF HistorySpec

-----------------------------------------------------------------------------
(* A shard of the memory cache. *)

Nodes == [key : CacheKeys, value : Values, bytes : Weights,
          accessed : BOOLEAN, expired : BOOLEAN]

\* Two nodes that differ in their flags alone.
SameEntry(m, n) == m.key = n.key /\ m.value = n.value /\ m.bytes = n.bytes

\* Every entry of t is one of s, and another one for each, at the position h gives.
Traces(h, t, s) ==
    /\ \A i \in DOMAIN t : h[i] \in DOMAIN s /\ SameEntry(t[i], s[h[i]])
    /\ \A i, j \in DOMAIN t : h[i] = h[j] => i = j

\* t is what is left of s, in some order.
Drawn(t, s) == t \in Seq(Nodes) /\ \E h : Traces(h, t, s)

\* Positions of a list.
LEMMA Positions ==
    ASSUME NEW s \in Seq(Nodes)
    PROVE  /\ Len(s) \in Nat /\ DOMAIN s = 1..Len(s) /\ IsFiniteSet(DOMAIN s)
           /\ \A i \in DOMAIN s : s[i] \in Nodes
<1>1. Len(s) \in Nat /\ DOMAIN s = 1..Len(s) /\ \A i \in 1..Len(s) : s[i] \in Nodes
  BY LenProperties, ElementOfSeq
<1>2. IsFiniteSet(1..Len(s))
  BY <1>1, FS_Interval
<1> QED BY <1>1, <1>2

\* A list is drawn from itself.
LEMMA DrawnSelf ==
    ASSUME NEW s \in Seq(Nodes)
    PROVE  Drawn(s, s)
<1>1. PICK h : h = [i \in DOMAIN s |-> i]
  OBVIOUS
<1>2. Traces(h, s, s)
  BY <1>1 DEF Traces, SameEntry
<1> QED BY <1>2 DEF Drawn

\* What is left of the rest is left of the whole.
LEMMA DrawnFromDrawn ==
    ASSUME NEW s, NEW t, NEW u, Drawn(t, s), Drawn(u, t)
    PROVE  Drawn(u, s)
<1>1. PICK h : Traces(h, t, s)
  BY DEF Drawn
<1>2. PICK g : Traces(g, u, t)
  BY DEF Drawn
<1>3. PICK f : f = [i \in DOMAIN u |-> h[g[i]]]
  OBVIOUS
<1>4. Traces(f, u, s)
  BY <1>1, <1>2, <1>3 DEF Traces, SameEntry
<1> QED BY <1>4 DEF Drawn

\* A piece of a list.
LEMMA PieceOf ==
    ASSUME NEW S, NEW s \in Seq(S), NEW m \in Nat \ {0}, NEW n \in Nat,
           n <= Len(s), m <= n + 1
    PROVE  /\ SubSeq(s, m, n) \in Seq(S)
           /\ Len(SubSeq(s, m, n)) = n - m + 1
           /\ DOMAIN SubSeq(s, m, n) = 1..(n - m + 1)
           /\ \A i \in 1..(n - m + 1) : SubSeq(s, m, n)[i] = s[m + i - 1]
<1>1. Len(s) \in Nat /\ \A i \in 1..Len(s) : s[i] \in S
  BY LenProperties, ElementOfSeq
<1>2. m \in Int /\ n \in Int /\ \A i \in m..n : s[i] \in S
  BY <1>1
<1>3. /\ SubSeq(s, m, n) \in Seq(S)
      /\ Len(SubSeq(s, m, n)) = (IF m <= n THEN n - m + 1 ELSE 0)
      /\ \A i \in 1..(n - m + 1) : SubSeq(s, m, n)[i] = s[m + i - 1]
  BY ONLY <1>2, SubSeqProperties
<1>4. Len(SubSeq(s, m, n)) = n - m + 1
  BY <1>3
<1>5. PICK t : t = SubSeq(s, m, n)
  OBVIOUS
<1>6. t \in Seq(S)
  BY <1>3, <1>5
<1>7. DOMAIN t = 1..Len(t)
  BY ONLY <1>6, LenProperties
<1> QED BY <1>3, <1>4, <1>5, <1>7

\* Two lists, one after the other.
LEMMA Joined ==
    ASSUME NEW S, NEW a \in Seq(S), NEW b \in Seq(S)
    PROVE  /\ a \o b \in Seq(S)
           /\ Len(a \o b) = Len(a) + Len(b)
           /\ DOMAIN (a \o b) = 1..(Len(a) + Len(b))
           /\ \A i \in 1..(Len(a) + Len(b)) : (a \o b)[i] = IF i <= Len(a) THEN a[i] ELSE b[i - Len(a)]
<1>1. /\ a \o b \in Seq(S) /\ Len(a \o b) = Len(a) + Len(b)
      /\ \A i \in 1..(Len(a) + Len(b)) : (a \o b)[i] = IF i <= Len(a) THEN a[i] ELSE b[i - Len(a)]
  BY ONLY a \in Seq(S), b \in Seq(S), ConcatProperties
<1>2. PICK t : t = a \o b
  OBVIOUS
<1>3. t \in Seq(S)
  BY <1>1, <1>2
<1>4. DOMAIN t = 1..Len(t)
  BY ONLY <1>3, LenProperties
<1> QED BY <1>1, <1>2, <1>4

\* removeLocked takes one entry out.
LEMMA RemoveDraws ==
    ASSUME NEW s \in Seq(Nodes), NEW p \in DOMAIN s
    PROVE  /\ Drawn(RemoveAt(s, p), s)
           /\ Len(RemoveAt(s, p)) = Len(s) - 1
           /\ \A i \in DOMAIN RemoveAt(s, p) :
                 RemoveAt(s, p)[i] = s[IF i < p THEN i ELSE i + 1]
<1>1. PICK a, b, r : a = SubSeq(s, 1, p - 1) /\ b = SubSeq(s, p + 1, Len(s)) /\ r = RemoveAt(s, p)
  OBVIOUS
<1>2. Len(s) \in Nat /\ DOMAIN s = 1..Len(s) /\ p \in 1..Len(s)
  BY Positions
<1>3. a \in Seq(Nodes) /\ Len(a) = p - 1 /\ \A i \in 1..(p - 1) : a[i] = s[i]
  <2>1. PICK m, n : m = 1 /\ n = p - 1
    OBVIOUS
  <2>2. m \in Nat \ {0} /\ n \in Nat /\ n <= Len(s) /\ m <= n + 1
    BY <1>2, <2>1
  <2>3. /\ SubSeq(s, m, n) \in Seq(Nodes) /\ Len(SubSeq(s, m, n)) = n - m + 1
        /\ \A i \in 1..(n - m + 1) : SubSeq(s, m, n)[i] = s[m + i - 1]
    BY ONLY s \in Seq(Nodes), <2>2, PieceOf
  <2>4. a \in Seq(Nodes) /\ Len(a) = n - m + 1 /\ \A i \in 1..(n - m + 1) : a[i] = s[m + i - 1]
    BY <1>1, <2>1, <2>3
  <2>5. n - m + 1 = p - 1 /\ \A i \in 1..(p - 1) : m + i - 1 = i
    BY <1>2, <2>1
  <2> QED BY <2>4, <2>5
<1>4. b \in Seq(Nodes) /\ Len(b) = Len(s) - p /\ \A i \in 1..(Len(s) - p) : b[i] = s[p + i]
  <2>1. PICK m, n : m = p + 1 /\ n = Len(s)
    OBVIOUS
  <2>2. m \in Nat \ {0} /\ n \in Nat /\ n <= Len(s) /\ m <= n + 1
    BY <1>2, <2>1
  <2>3. /\ SubSeq(s, m, n) \in Seq(Nodes) /\ Len(SubSeq(s, m, n)) = n - m + 1
        /\ \A i \in 1..(n - m + 1) : SubSeq(s, m, n)[i] = s[m + i - 1]
    BY ONLY s \in Seq(Nodes), <2>2, PieceOf
  <2>4. b \in Seq(Nodes) /\ Len(b) = n - m + 1 /\ \A i \in 1..(n - m + 1) : b[i] = s[m + i - 1]
    BY <1>1, <2>1, <2>3
  <2>5. n - m + 1 = Len(s) - p /\ \A i \in 1..(Len(s) - p) : m + i - 1 = p + i
    BY <1>2, <2>1
  <2> QED BY <2>4, <2>5
<1>5. r = a \o b
  BY <1>1 DEF RemoveAt
<1>6. /\ r \in Seq(Nodes) /\ Len(r) = Len(a) + Len(b) /\ DOMAIN r = 1..(Len(a) + Len(b))
      /\ \A i \in 1..(Len(a) + Len(b)) : r[i] = IF i <= Len(a) THEN a[i] ELSE b[i - Len(a)]
  <2>1. a \in Seq(Nodes) /\ b \in Seq(Nodes)
    BY <1>3, <1>4
  <2> QED BY ONLY <1>5, <2>1, Joined
<1>7. r \in Seq(Nodes) /\ Len(r) = Len(s) - 1 /\ DOMAIN r = 1..(Len(s) - 1)
  BY <1>2, <1>3, <1>4, <1>6
<1>8. ASSUME NEW i \in DOMAIN r PROVE r[i] = s[IF i < p THEN i ELSE i + 1]
  <2>1. i \in 1..(Len(a) + Len(b)) /\ i \in 1..(Len(s) - 1)
    BY <1>6, <1>7
  <2>2. CASE i < p
    <3>1. i <= Len(a) /\ i \in 1..(p - 1)
      BY <1>2, <1>3, <2>1, <2>2
    <3> QED BY <1>3, <1>6, <2>1, <2>2, <3>1
  <2>3. CASE ~(i < p)
    <3>1. ~(i <= Len(a)) /\ i - Len(a) \in 1..(Len(s) - p) /\ p + (i - Len(a)) = i + 1
      BY <1>2, <1>3, <2>1, <2>3
    <3>2. r[i] = b[i - Len(a)]
      BY <1>6, <2>1, <3>1
    <3>3. b[i - Len(a)] = s[p + (i - Len(a))]
      BY <1>4, <3>1
    <3> QED BY <2>3, <3>1, <3>2, <3>3
  <2> QED BY <2>2, <2>3
<1>9. PICK h : h = [i \in DOMAIN r |-> IF i < p THEN i ELSE i + 1]
  OBVIOUS
<1>10. Traces(h, r, s)
  BY <1>2, <1>7, <1>8, <1>9 DEF Traces, SameEntry
<1> QED BY <1>1, <1>7, <1>8, <1>10 DEF Drawn

\* The last of some positions.
LEMMA LastPosition ==
    ASSUME NEW n \in Nat, NEW C \in SUBSET (1..n), C # {}
    PROVE  \E x \in C : \A y \in C : y <= x
<1>1. PICK T : T = {m \in Nat : m <= n /\ n - m \in C}
  OBVIOUS
<1>2. \A y \in C : n - y \in T
  BY <1>1
<1>3. T \in SUBSET Nat /\ T # {}
  BY <1>1, <1>2
<1>4. PICK m \in T : \A k \in T : m <= k
  BY <1>3, LeastNumber
<1>5. m \in Nat /\ m <= n /\ n - m \in C
  BY <1>1
<1>6. ASSUME NEW y \in C PROVE y <= n - m
  <2>1. m <= n - y
    BY <1>2, <1>4
  <2> QED BY <1>5, <2>1
<1> QED BY <1>5, <1>6

\* Losing the flags changes nothing else.
LEMMA ClearedEntries ==
    ASSUME NEW s \in Seq(Nodes)
    PROVE  /\ Cleared(s) \in Seq(Nodes) /\ Len(Cleared(s)) = Len(s)
           /\ \A i \in DOMAIN s : SameEntry(Cleared(s)[i], s[i])
<1>1. Len(s) \in Nat /\ DOMAIN s = 1..Len(s) /\ \A i \in DOMAIN s : s[i] \in Nodes
  BY Positions
<1>2. ASSUME NEW i \in DOMAIN s
      PROVE  [s[i] EXCEPT !.accessed = FALSE] \in Nodes /\ SameEntry([s[i] EXCEPT !.accessed = FALSE], s[i])
  BY <1>1 DEF Nodes, SameEntry
<1>3. PICK t : t = Cleared(s)
  OBVIOUS
<1>4. t \in [1..Len(s) -> Nodes] /\ \A i \in DOMAIN s : SameEntry(t[i], s[i])
  BY <1>1, <1>2, <1>3 DEF Cleared
<1>5. t \in Seq(Nodes) /\ Len(t) = Len(s)
  BY <1>1, <1>4
<1> QED BY <1>3, <1>4, <1>5

\* evictOneLocked takes one entry out and keeps the others.
LEMMA EvictDraws ==
    ASSUME NEW s \in Seq(Nodes), s # <<>>
    PROVE  Drawn(evictOne(s), s) /\ Len(evictOne(s)) = Len(s) - 1
<1>1. Len(s) \in Nat \ {0} /\ DOMAIN s = 1..Len(s)
  BY Positions, EmptySeq
<1>2. PICK cold : cold = {i \in DOMAIN s : ~s[i].accessed}
  OBVIOUS
<1>3. CASE cold = {}
  <2>1. PICK m, n : m = 1 /\ n = Len(s) - 1
    OBVIOUS
  <2>2. m \in Nat \ {0} /\ n \in Nat /\ n <= Len(s) /\ m <= n + 1
    BY <1>1, <2>1
  <2>3. PICK t : t = SubSeq(s, m, n)
    OBVIOUS
  <2>4. t \in Seq(Nodes) /\ Len(t) = n - m + 1 /\ \A i \in 1..(n - m + 1) : t[i] = s[m + i - 1]
    BY ONLY s \in Seq(Nodes), <2>2, <2>3, PieceOf
  <2>5. Len(t) = Len(s) - 1 /\ DOMAIN t = 1..(Len(s) - 1) /\ \A i \in DOMAIN t : t[i] = s[i]
    <3>1. Len(t) = Len(s) - 1
      BY <1>1, <2>1, <2>4
    <3>2. DOMAIN t = 1..(Len(s) - 1)
      BY <2>4, <3>1, Positions
    <3>3. n - m + 1 = Len(s) - 1 /\ \A i \in 1..(Len(s) - 1) : m + i - 1 = i
      BY <1>1, <2>1
    <3> QED BY <2>4, <3>1, <3>2, <3>3
  <2>6. Cleared(t) \in Seq(Nodes) /\ Len(Cleared(t)) = Len(t) /\ \A i \in DOMAIN t : SameEntry(Cleared(t)[i], t[i])
    BY <2>4, ClearedEntries
  <2>7. DOMAIN Cleared(t) = DOMAIN t
    BY DEF Cleared
  <2>8. evictOne(s) = Cleared(t)
    BY <1>2, <1>3, <2>1, <2>3 DEF evictOne, Front
  <2>9. PICK h : h = [i \in DOMAIN t |-> i]
    OBVIOUS
  <2>10. Traces(h, Cleared(t), s)
    BY <1>1, <2>5, <2>6, <2>7, <2>9 DEF Traces
  <2> QED BY <2>5, <2>6, <2>8, <2>10 DEF Drawn
<1>4. CASE cold # {}
  <2>1. PICK v : v = CHOOSE i \in cold : \A j \in cold : j <= i
    OBVIOUS
  <2>2. v \in cold
    <3>1. cold \in SUBSET (1..Len(s))
      BY <1>1, <1>2
    <3>2. \E x \in cold : \A y \in cold : y <= x
      BY <1>1, <1>4, <3>1, LastPosition
    <3> QED BY <2>1, <3>2
  <2>3. v \in 1..Len(s)
    BY <1>1, <1>2, <2>2
  <2>4. PICK a, b, c : a = SubSeq(s, v + 1, Len(s)) /\ b = SubSeq(s, 1, v - 1) /\ c = Cleared(a)
    OBVIOUS
  <2>5. evictOne(s) = c \o b
    BY <1>2, <1>4, <2>1, <2>4 DEF evictOne
  <2>6. a \in Seq(Nodes) /\ Len(a) = Len(s) - v /\ \A i \in 1..(Len(s) - v) : a[i] = s[v + i]
    <3>1. PICK m, n : m = v + 1 /\ n = Len(s)
      OBVIOUS
    <3>2. m \in Nat \ {0} /\ n \in Nat /\ n <= Len(s) /\ m <= n + 1
      BY <1>1, <2>3, <3>1
    <3>3. a = SubSeq(s, m, n)
      BY <2>4, <3>1
    <3>4. a \in Seq(Nodes) /\ Len(a) = n - m + 1 /\ \A i \in 1..(n - m + 1) : a[i] = s[m + i - 1]
      BY ONLY s \in Seq(Nodes), <3>2, <3>3, PieceOf
    <3>5. n - m + 1 = Len(s) - v /\ \A i \in 1..(Len(s) - v) : m + i - 1 = v + i
      BY <1>1, <2>3, <3>1
    <3> QED BY <3>4, <3>5
  <2>7. b \in Seq(Nodes) /\ Len(b) = v - 1 /\ \A i \in 1..(v - 1) : b[i] = s[i]
    <3>1. PICK m, n : m = 1 /\ n = v - 1
      OBVIOUS
    <3>2. m \in Nat \ {0} /\ n \in Nat /\ n <= Len(s) /\ m <= n + 1
      BY <1>1, <2>3, <3>1
    <3>3. b = SubSeq(s, m, n)
      BY <2>4, <3>1
    <3>4. b \in Seq(Nodes) /\ Len(b) = n - m + 1 /\ \A i \in 1..(n - m + 1) : b[i] = s[m + i - 1]
      BY ONLY s \in Seq(Nodes), <3>2, <3>3, PieceOf
    <3>5. n - m + 1 = v - 1 /\ \A i \in 1..(v - 1) : m + i - 1 = i
      BY <1>1, <2>3, <3>1
    <3> QED BY <3>4, <3>5
  <2>8. c \in Seq(Nodes) /\ Len(c) = Len(s) - v /\ \A i \in 1..(Len(s) - v) : SameEntry(c[i], s[v + i])
    <3>1. DOMAIN a = 1..(Len(s) - v)
      BY <2>6, Positions
    <3>2. c \in Seq(Nodes) /\ Len(c) = Len(a) /\ \A i \in DOMAIN a : SameEntry(c[i], a[i])
      BY <2>4, <2>6, ClearedEntries
    <3> QED BY <2>6, <3>1, <3>2
  <2>9. PICK r : r = c \o b
    OBVIOUS
  <2>10. /\ r \in Seq(Nodes) /\ Len(r) = Len(c) + Len(b) /\ DOMAIN r = 1..(Len(c) + Len(b))
         /\ \A i \in 1..(Len(c) + Len(b)) : r[i] = IF i <= Len(c) THEN c[i] ELSE b[i - Len(c)]
    <3>1. c \in Seq(Nodes) /\ b \in Seq(Nodes)
      BY <2>7, <2>8
    <3> QED BY ONLY <2>9, <3>1, Joined
  <2>11. Len(r) = Len(s) - 1 /\ DOMAIN r = 1..(Len(s) - 1)
    BY <1>1, <2>3, <2>7, <2>8, <2>10
  <2>12. PICK d \in Nat : d = Len(s) - v
    <3>1. Len(s) - v \in Nat
      BY <1>1, <2>3
    <3> QED BY <3>1
  <2>13. PICK h : h = [i \in DOMAIN r |-> IF i <= d THEN v + i ELSE i - d]
    OBVIOUS
  <2>14. ASSUME NEW i \in DOMAIN r
         PROVE  h[i] \in DOMAIN s /\ SameEntry(r[i], s[h[i]])
    <3>1. i \in 1..(Len(s) - 1) /\ i \in 1..(Len(c) + Len(b)) /\ Len(c) = d
      BY <2>8, <2>10, <2>11, <2>12
    <3>2. CASE i <= d
      <4>1. h[i] = v + i /\ v + i \in 1..Len(s) /\ i \in 1..(Len(s) - v)
        BY <1>1, <2>3, <2>12, <2>13, <3>1, <3>2
      <4>2. r[i] = c[i]
        BY <2>10, <3>1, <3>2
      <4> QED BY <1>1, <2>8, <4>1, <4>2
    <3>3. CASE ~(i <= d)
      <4>1. h[i] = i - d /\ i - d \in 1..(v - 1) /\ i - d \in 1..Len(s)
        BY <1>1, <2>3, <2>12, <2>13, <3>1, <3>3
      <4>2. r[i] = b[i - d]
        BY <2>10, <3>1, <3>3
      <4>3. r[i] = s[i - d]
        BY <2>7, <4>1, <4>2
      <4> QED BY <1>1, <4>1, <4>3 DEF SameEntry
    <3> QED BY <3>2, <3>3
  <2>15. ASSUME NEW i \in DOMAIN r, NEW j \in DOMAIN r, h[i] = h[j]
         PROVE  i = j
    <3>1. i \in 1..(Len(s) - 1) /\ j \in 1..(Len(s) - 1)
      BY <2>11
    <3>2. (h[i] = IF i <= d THEN v + i ELSE i - d) /\ (h[j] = IF j <= d THEN v + j ELSE j - d)
      BY <2>13
    <3>3. (IF i <= d THEN v + i ELSE i - d) = (IF j <= d THEN v + j ELSE j - d)
      BY <2>15, <3>2, Zenon
    <3>4. v \in Nat /\ i \in Nat /\ j \in Nat /\ i < d + v /\ j < d + v
      BY <1>1, <2>3, <2>12, <3>1
    <3> QED BY ONLY d \in Nat, <3>3, <3>4
  <2>16. Traces(h, r, s)
    BY <2>14, <2>15 DEF Traces
  <2> QED BY <2>5, <2>9, <2>10, <2>11, <2>16 DEF Drawn
<1> QED BY <1>3, <1>4

\* What is left weighs no more.
LEMMA DrawnWeighs ==
    ASSUME NEW s \in Seq(Nodes), NEW t, Drawn(t, s)
    PROVE  Bytes(t) \in Nat /\ Bytes(s) \in Nat /\ Bytes(t) <= Bytes(s)
<1>1. t \in Seq(Nodes)
  BY DEF Drawn
<1>2. PICK h : Traces(h, t, s)
  BY DEF Drawn
<1>3. PICK T, U, f, g : /\ T = DOMAIN t /\ U = DOMAIN s
                        /\ f = [i \in DOMAIN t |-> t[i].bytes]
                        /\ g = [i \in DOMAIN s |-> s[i].bytes]
  OBVIOUS
<1>4. IsFiniteSet(T) /\ IsFiniteSet(U)
  BY <1>1, <1>3, Positions
<1>5. /\ \A i \in T : t[i] \in Nodes /\ f[i] = t[i].bytes
      /\ \A i \in U : s[i] \in Nodes /\ g[i] = s[i].bytes
  BY <1>1, <1>3, Positions
<1>6. (\A i \in T : f[i] \in Nat) /\ \A i \in U : g[i] \in Nat
  BY <1>5, MemoryCacheAssumption DEF Nodes
<1>7. Into(h, T, U) /\ (\A x, y \in T : h[x] = h[y] => x = y) /\ \A x \in T : f[x] \in Nat /\ f[x] <= g[h[x]]
  <2>1. Into(h, T, U) /\ (\A x, y \in T : h[x] = h[y] => x = y) 
    BY <1>2, <1>3 DEF Traces, Into
  <2>2. ASSUME NEW x \in T PROVE f[x] = g[h[x]]
    BY <1>2, <1>3, <1>5 DEF Traces, SameEntry
  <2> QED BY <1>6, <2>1, <2>2
<1>8. SumFunctionOnSet(f, T) \in Nat /\ SumFunctionOnSet(g, U) \in Nat
  BY ONLY <1>4, <1>6, SumNat
<1>9. SumFunctionOnSet(f, T) <= SumFunctionOnSet(g, U)
  BY ONLY <1>4, <1>6, <1>7, SumInjects
<1>10. DOMAIN f = T /\ DOMAIN g = U
  BY <1>3
<1>11. Bytes(t) = SumFunctionOnSet(f, T) /\ Bytes(s) = SumFunctionOnSet(g, U)
  BY <1>3, <1>10, Zenon DEF Bytes, SumFunction, SumFunctionOnSet, FoldFunction
<1> QED BY <1>8, <1>9, <1>11

\* An empty shard weighs nothing.
LEMMA NothingWeighs ==
    ASSUME NEW s \in Seq(Nodes), Len(s) = 0
    PROVE  Bytes(s) = 0
<1>1. PICK f : f = [i \in DOMAIN s |-> s[i].bytes]
  OBVIOUS
<1>2. DOMAIN f = {}
  BY <1>1, Positions
<1>3. Bytes(s) = SumFunctionOnSet(f, DOMAIN f)
  BY <1>1, Zenon DEF Bytes, SumFunction
<1> QED BY <1>2, <1>3, SumEmpty

\* g is the loop that starts with s and goes on as F says.
Looped(g, s, F) == g = [n \in 0..Len(s) |-> IF n = 0 THEN s ELSE F[g[n - 1]]]

\* A loop over the lists of the shard, as a recursive function, has the values its
\* equation gives.
LEMMA LoopSolves ==
    ASSUME NEW s \in Seq(Nodes), NEW F \in [Seq(Nodes) -> Seq(Nodes)]
    PROVE  \E g \in [0..Len(s) -> Seq(Nodes)] : Looped(g, s, F)
<1>1. PICK S, n : S = Seq(Nodes) /\ n = Len(s)
  OBVIOUS
<1>2. n \in Nat /\ s \in S
  BY <1>1, Positions
<1>3. PICK G : G = [i \in 1..n |-> F]
  OBVIOUS
<1>4. G \in [1..n -> [S -> S]]
  BY <1>1, <1>3
<1>5. HasRun(S, s, G, n)
  BY ONLY <1>2, <1>4, LoopRuns
<1>6. PICK f \in [0..n -> S] : IsRun(f, s, G, n)
  BY <1>5 DEF HasRun
<1>7. f[0] = s /\ \A i \in 1..n : f[i] = F[f[i - 1]]
  BY <1>3, <1>6 DEF IsRun
<1>8. f = [i \in 0..n |-> IF i = 0 THEN s ELSE F[f[i - 1]]]
  BY <1>2, <1>6, <1>7
<1> QED BY <1>1, <1>6, <1>8 DEF Looped

\* One round of evictTo's loop, and of purgeExpired's.
Round(budget) == [t \in Seq(Nodes) |-> IF Bytes(t) > budget THEN evictOne(t) ELSE t]
ExpiredOf(t) == {i \in DOMAIN t : t[i].expired}
PurgeRound ==
    [t \in Seq(Nodes) |->
        IF ExpiredOf(t) = {} THEN t ELSE RemoveAt(t, CHOOSE i \in ExpiredOf(t) : TRUE)]

\* A list over the budget is not empty, and a round takes one entry out of it.
LEMMA RoundDraws ==
    ASSUME NEW budget \in Nat, NEW t \in Seq(Nodes)
    PROVE  /\ Drawn(Round(budget)[t], t)
           /\ Bytes(t) <= budget \/ Len(Round(budget)[t]) = Len(t) - 1
           /\ Bytes(t) <= budget => Round(budget)[t] = t
<1>1. Bytes(t) \in Nat
  BY DrawnSelf, DrawnWeighs
<1>2. CASE Bytes(t) > budget
  <2>1. Len(t) # 0
    BY <1>1, <1>2, NothingWeighs
  <2>2. t # <<>>
    BY <2>1
  <2>3. Round(budget)[t] = evictOne(t)
    BY <1>2 DEF Round
  <2> QED BY <1>1, <1>2, <2>2, <2>3, EvictDraws
<1>3. CASE ~(Bytes(t) > budget)
  <2>1. Round(budget)[t] = t
    BY <1>3 DEF Round
  <2> QED BY <1>1, <1>3, <2>1, DrawnSelf
<1> QED BY <1>2, <1>3

\* A round of the purge takes an expired entry out, if there is one.
LEMMA PurgeRoundDraws ==
    ASSUME NEW t \in Seq(Nodes)
    PROVE  Drawn(PurgeRound[t], t)
<1>1. CASE ExpiredOf(t) = {}
  BY <1>1, DrawnSelf DEF PurgeRound
<1>2. CASE ExpiredOf(t) # {}
  <2>1. PICK i : i = CHOOSE j \in ExpiredOf(t) : TRUE
    OBVIOUS
  <2>2. i \in ExpiredOf(t)
    BY <1>2, <2>1
  <2>3. i \in DOMAIN t
    BY <2>2 DEF ExpiredOf
  <2>4. PurgeRound[t] = RemoveAt(t, i)
    BY <1>2, <2>1 DEF PurgeRound
  <2> QED BY <2>3, <2>4, RemoveDraws
<1> QED BY <1>1, <1>2

LEMMA EvictUnfolds ==
    ASSUME NEW s, NEW budget
    PROVE  evictTo(s, budget) =
             (CHOOSE g : g = [n \in 0..Len(s) |->
                IF n = 0 THEN s
                ELSE IF Bytes(g[n - 1]) > budget THEN evictOne(g[n - 1]) ELSE g[n - 1]])[Len(s)]
BY Zenon DEF evictTo

LEMMA PurgeUnfolds ==
    ASSUME NEW s
    PROVE  purgeExpired(s) =
             (CHOOSE g : g = [n \in 0..Len(s) |->
                IF n = 0 THEN s
                ELSE IF ExpiredOf(g[n - 1]) = {} THEN g[n - 1]
                ELSE RemoveAt(g[n - 1], CHOOSE i \in ExpiredOf(g[n - 1]) : TRUE)])[Len(s)]
BY Zenon DEF purgeExpired, ExpiredOf

\* evictTo keeps entries of the shard, and leaves no more than the budget.
LEMMA EvictToFits ==
    ASSUME NEW s \in Seq(Nodes), NEW budget \in Nat
    PROVE  Drawn(evictTo(s, budget), s) /\ Bytes(evictTo(s, budget)) <= budget
<1> DEFINE Eq(g) == g = [n \in 0..Len(s) |->
                IF n = 0 THEN s
                ELSE IF Bytes(g[n - 1]) > budget THEN evictOne(g[n - 1]) ELSE g[n - 1]]
<1>1. PICK N \in Nat : N = Len(s)
  BY Positions
<1>2. Round(budget) \in [Seq(Nodes) -> Seq(Nodes)]
  <2>1. \A t \in Seq(Nodes) : Round(budget)[t] \in Seq(Nodes)
    BY RoundDraws DEF Drawn
  <2>2. Round(budget) = [t \in Seq(Nodes) |-> Round(budget)[t]]
    BY DEF Round
  <2> QED BY <2>1, <2>2
<1>3. PICK f \in [0..Len(s) -> Seq(Nodes)] : Looped(f, s, Round(budget))
  BY <1>2, LoopSolves
<1>4. Eq(f)
  <2>1. ASSUME NEW n \in 0..Len(s), n # 0
        PROVE  f[n] = IF Bytes(f[n - 1]) > budget THEN evictOne(f[n - 1]) ELSE f[n - 1]
    <3>1. n - 1 \in 0..Len(s)
      BY <1>1, <2>1
    <3>2. f[n - 1] \in Seq(Nodes)
      BY <3>1
    <3>3. f[n] = Round(budget)[f[n - 1]]
      BY <1>3, <2>1 DEF Looped
    <3> QED BY <3>2, <3>3 DEF Round
  <2>2. f[0] = s
    BY <1>1, <1>3 DEF Looped
  <2>3. f = [n \in 0..Len(s) |-> f[n]]
    BY <1>3
  <2> QED BY <2>1, <2>2, <2>3
<1>5. PICK c : c = CHOOSE g : Eq(g)
  OBVIOUS
<1>6. Eq(c)
  <2> HIDE DEF Eq
  <2> QED BY <1>4, <1>5
<1>7. evictTo(s, budget) = c[N]
  BY <1>1, <1>5, EvictUnfolds, Zenon
<1>8. c[0] = s
  BY <1>1, <1>6
<1>9. ASSUME NEW n \in 1..N
      PROVE  c[n] = IF Bytes(c[n - 1]) > budget THEN evictOne(c[n - 1]) ELSE c[n - 1]
  <2>1. n \in 0..Len(s) /\ n # 0
    BY <1>1
  <2> QED BY <1>6, <2>1
<1> HIDE DEF Eq
<1> DEFINE P == {n \in 0..N : Drawn(c[n], s) /\ (Bytes(c[n]) <= budget \/ Len(c[n]) = N - n)}
<1>10. 0 \in P
  <2>1. Len(c[0]) = N - 0
    BY <1>1, <1>8
  <2> QED BY <1>8, <2>1, DrawnSelf
<1>11. ASSUME NEW n \in 1..N, n - 1 \in P
       PROVE  n \in P
  <2>1. PICK t, u : t = c[n - 1] /\ u = c[n]
    OBVIOUS
  <2>2. Drawn(t, s) /\ t \in Seq(Nodes) /\ (Bytes(t) <= budget \/ Len(t) = N - (n - 1))
    BY <1>11, <2>1 DEF Drawn
  <2>3. u = Round(budget)[t]
    BY <1>9, <2>1, <2>2 DEF Round
  <2>4. /\ Drawn(u, t)
        /\ Bytes(t) <= budget \/ Len(u) = Len(t) - 1
        /\ Bytes(t) <= budget => u = t
    BY <2>2, <2>3, RoundDraws
  <2>5. Drawn(u, s)
    BY ONLY <2>2, <2>4, DrawnFromDrawn
  <2>6. Bytes(u) <= budget \/ Len(u) = N - n
    <3>1. CASE Bytes(t) <= budget
      BY <2>4, <3>1
    <3>2. CASE ~(Bytes(t) <= budget)
      BY <2>2, <2>4, <3>2
    <3> QED BY <3>1, <3>2
  <2> QED BY <2>1, <2>5, <2>6
<1> HIDE DEF P
<1>12. \A n \in 0..N : n \in P
  <2>1. \A n \in 1..N : n - 1 \in P => n \in P
    BY <1>11
  <2> QED BY ONLY N \in Nat, <1>10, <2>1, StepInduction
<1>13. Drawn(c[N], s) /\ (Bytes(c[N]) <= budget \/ Len(c[N]) = N - N)
  BY <1>12 DEF P
<1>14. Bytes(c[N]) <= budget
  <2>1. CASE Len(c[N]) = N - N
    <3>1. Len(c[N]) = 0 /\ c[N] \in Seq(Nodes)
      BY <1>13, <2>1 DEF Drawn
    <3>2. Bytes(c[N]) = 0
      BY <3>1, NothingWeighs
    <3> QED BY <3>2
  <2> QED BY <1>13, <2>1
<1> QED BY <1>7, <1>13, <1>14

\* purgeExpired keeps entries of the shard.
LEMMA PurgeDraws ==
    ASSUME NEW s \in Seq(Nodes)
    PROVE  Drawn(purgeExpired(s), s)
<1> DEFINE Eq(g) == g = [n \in 0..Len(s) |->
                IF n = 0 THEN s
                ELSE IF ExpiredOf(g[n - 1]) = {} THEN g[n - 1]
                ELSE RemoveAt(g[n - 1], CHOOSE i \in ExpiredOf(g[n - 1]) : TRUE)]
<1>1. PICK N \in Nat : N = Len(s)
  BY Positions
<1>2. PurgeRound \in [Seq(Nodes) -> Seq(Nodes)]
  <2>1. \A t \in Seq(Nodes) : PurgeRound[t] \in Seq(Nodes)
    BY PurgeRoundDraws DEF Drawn
  <2>2. PurgeRound = [t \in Seq(Nodes) |-> PurgeRound[t]]
    BY DEF PurgeRound
  <2> QED BY <2>1, <2>2
<1>3. PICK f \in [0..Len(s) -> Seq(Nodes)] : Looped(f, s, PurgeRound)
  BY <1>2, LoopSolves
<1>4. Eq(f)
  <2>1. ASSUME NEW n \in 0..Len(s), n # 0
        PROVE  f[n] = IF ExpiredOf(f[n - 1]) = {} THEN f[n - 1]
                      ELSE RemoveAt(f[n - 1], CHOOSE i \in ExpiredOf(f[n - 1]) : TRUE)
    <3>1. n - 1 \in 0..Len(s)
      BY <1>1, <2>1
    <3>2. f[n - 1] \in Seq(Nodes)
      BY <3>1
    <3>3. f[n] = PurgeRound[f[n - 1]]
      BY <1>3, <2>1 DEF Looped
    <3> QED BY <3>2, <3>3 DEF PurgeRound
  <2>2. f[0] = s
    BY <1>1, <1>3 DEF Looped
  <2>3. f = [n \in 0..Len(s) |-> f[n]]
    BY <1>3
  <2> QED BY <2>1, <2>2, <2>3
<1>5. PICK c : c = CHOOSE g : Eq(g)
  OBVIOUS
<1>6. Eq(c)
  <2> HIDE DEF Eq
  <2> QED BY <1>4, <1>5
<1>7. purgeExpired(s) = c[N]
  BY <1>1, <1>5, PurgeUnfolds, Zenon
<1>8. c[0] = s
  BY <1>1, <1>6
<1>9. ASSUME NEW n \in 1..N, c[n - 1] \in Seq(Nodes)
      PROVE  c[n] = PurgeRound[c[n - 1]]
  <2>1. n \in 0..Len(s) /\ n # 0
    BY <1>1
  <2> QED BY <1>6, <1>9, <2>1 DEF PurgeRound
<1> HIDE DEF Eq
<1> DEFINE P == {n \in 0..N : Drawn(c[n], s)}
<1>10. 0 \in P
  BY <1>8, DrawnSelf
<1>11. ASSUME NEW n \in 1..N, n - 1 \in P
       PROVE  n \in P
  <2>1. PICK t, u : t = c[n - 1] /\ u = c[n]
    OBVIOUS
  <2>2. Drawn(t, s) /\ t \in Seq(Nodes)
    BY <1>11, <2>1 DEF Drawn
  <2>3. Drawn(u, t)
    BY <1>9, <2>1, <2>2, PurgeRoundDraws
  <2>4. Drawn(u, s)
    BY ONLY <2>2, <2>3, DrawnFromDrawn
  <2> QED BY <2>1, <2>4
<1> HIDE DEF P
<1>12. \A n \in 0..N : n \in P
  <2>1. \A n \in 1..N : n - 1 \in P => n \in P
    BY <1>11
  <2> QED BY ONLY N \in Nat, <1>10, <2>1, StepInduction
<1>13. Drawn(c[N], s)
  BY <1>12 DEF P
<1> QED BY <1>7, <1>13

\* No key twice, and under each key the value given for it.
Fresh(t, lt) ==
    /\ \A i, j \in DOMAIN t : t[i].key = t[j].key => i = j
    /\ \A i \in DOMAIN t : t[i].value = lt[t[i].key]

\* The inductive form: what the list is made of, its weight and its entries.
MemoryInv ==
    /\ list \in Seq(Nodes)
    /\ latest \in [CacheKeys -> Values \cup {Nothing}]
    /\ Bytes(list) <= Budget
    /\ Fresh(list, latest)

LEMMA MemoryInvImplies ==
    ASSUME MemoryInv
    PROVE  ShardWithinBudget /\ NoOlderValue
BY DEF MemoryInv, Fresh, ShardWithinBudget, NoOlderValue

\* What is left of a fresh shard is fresh.
LEMMA DrawnFresh ==
    ASSUME NEW s, NEW t, NEW lt, Drawn(t, s), Fresh(s, lt)
    PROVE  Fresh(t, lt)
<1>1. PICK h : Traces(h, t, s)
  BY DEF Drawn
<1> QED BY <1>1 DEF Traces, SameEntry, Fresh

\* A step that leaves entries of the shard keeps its invariant.
LEMMA DrawnKeeps ==
    ASSUME MemoryInv, Drawn(list', list), UNCHANGED latest
    PROVE  MemoryInv'
<1>1. list' \in Seq(Nodes)
  BY DEF Drawn
<1>2. Bytes(list') \in Nat /\ Bytes(list) \in Nat /\ Bytes(list') <= Bytes(list) /\ Bytes(list) <= Budget /\ Budget \in Nat
  BY DrawnWeighs, MemoryCacheAssumption DEF MemoryInv
<1>3. Bytes(list') <= Budget
  BY <1>2
<1>4. Fresh(list', latest)
  BY DrawnFresh DEF MemoryInv
<1> QED BY <1>1, <1>3, <1>4 DEF MemoryInv

\* Nodes that differ from those of the shard in their flags alone.
LEMMA FlagsDraw ==
    ASSUME NEW s \in Seq(Nodes), NEW p \in DOMAIN s, NEW n \in Nodes, SameEntry(n, s[p])
    PROVE  Drawn([s EXCEPT ![p] = n], s)
<1>1. PICK t : t = [s EXCEPT ![p] = n]
  OBVIOUS
<1>2. DOMAIN t = DOMAIN s /\ \A i \in DOMAIN s : t[i] = IF i = p THEN n ELSE s[i]
  BY <1>1
<1>3. t \in Seq(Nodes)
  <2>1. p \in 1..Len(s)
    BY Positions
  <2> QED BY <1>1, <2>1, ExceptSeq
<1>4. PICK h : h = [i \in DOMAIN s |-> i]
  OBVIOUS
<1>5. Traces(h, t, s)
  BY <1>2, <1>4 DEF Traces, SameEntry
<1> QED BY <1>1, <1>3, <1>5 DEF Drawn

\* The position of a key is one that holds it.
LEMMA NodeAtHolds ==
    ASSUME NEW s, NEW k, HasKey(s, k)
    PROVE  NodeAt(s, k) \in DOMAIN s /\ s[NodeAt(s, k)].key = k
BY DEF HasKey, NodeAt

\* removeLocked leaves no entry under its key.
LEMMA WithoutKey ==
    ASSUME NEW s \in Seq(Nodes), NEW k
    PROVE  /\ Drawn(Without(s, k), s)
           /\ \A lt : Fresh(s, lt) => \A i \in DOMAIN Without(s, k) : Without(s, k)[i].key # k
<1>1. CASE ~HasKey(s, k)
  <2>1. Without(s, k) = s
    BY <1>1 DEF Without
  <2>2. \A i \in DOMAIN s : s[i].key # k
    BY <1>1 DEF HasKey
  <2> QED BY <2>1, <2>2, DrawnSelf
<1>2. CASE HasKey(s, k)
  <2>1. PICK p : p = NodeAt(s, k)
    OBVIOUS
  <2>2. p \in DOMAIN s /\ s[p].key = k
    BY <1>2, <2>1, NodeAtHolds
  <2>3. PICK w : w = RemoveAt(s, p)
    OBVIOUS
  <2>4. Without(s, k) = w
    BY <1>2, <2>1, <2>3 DEF Without
  <2>5. Drawn(w, s) /\ Len(w) = Len(s) - 1 /\ \A i \in DOMAIN w : w[i] = s[IF i < p THEN i ELSE i + 1]
    BY <2>2, <2>3, RemoveDraws
  <2>6. Len(s) \in Nat /\ DOMAIN s = 1..Len(s) /\ DOMAIN w = 1..(Len(s) - 1)
    BY <2>5, Positions DEF Drawn
  <2>7. ASSUME NEW lt, Fresh(s, lt), NEW i \in DOMAIN w
        PROVE  w[i].key # k
    <3>1. PICK j : j = IF i < p THEN i ELSE i + 1
      OBVIOUS
    <3>2. j \in DOMAIN s /\ j # p
      BY <2>2, <2>6, <3>1
    <3>3. w[i] = s[j]
      BY <2>5, <3>1
    <3> QED BY <2>2, <2>7, <3>2, <3>3 DEF Fresh
  <2> QED BY <2>4, <2>5, <2>7
<1> QED BY <1>1, <1>2

\* A new entry in front of a shard that has none under its key.
LEMMA InFront ==
    ASSUME NEW w \in Seq(Nodes), NEW n \in Nodes, NEW lt, Fresh(w, lt),
           \A i \in DOMAIN w : w[i].key # n.key,
           NEW lu, lu[n.key] = n.value, \A k \in CacheKeys : k # n.key => lu[k] = lt[k]
    PROVE  <<n>> \o w \in Seq(Nodes) /\ Fresh(<<n>> \o w, lu)
<1>1. PICK a : a = <<n>>
  OBVIOUS
<1>2. a \in Seq(Nodes) /\ Len(a) = 1 /\ a[1] = n
  BY <1>1
<1>3. PICK r : r = a \o w
  OBVIOUS
<1>4. /\ r \in Seq(Nodes) /\ DOMAIN r = 1..(Len(a) + Len(w))
      /\ \A i \in 1..(Len(a) + Len(w)) : r[i] = IF i <= Len(a) THEN a[i] ELSE w[i - Len(a)]
  BY ONLY <1>2, w \in Seq(Nodes), <1>3, Joined
<1>5. Len(w) \in Nat /\ DOMAIN w = 1..Len(w) /\ \A i \in DOMAIN w : w[i] \in Nodes
  BY Positions
<1>6. ASSUME NEW i \in DOMAIN r
      PROVE  \/ i = 1 /\ r[i] = n
             \/ i - 1 \in DOMAIN w /\ i # 1 /\ i \in Nat /\ r[i] = w[i - 1]
  BY <1>2, <1>4, <1>5
<1>7. ASSUME NEW i \in DOMAIN r, NEW j \in DOMAIN r, r[i].key = r[j].key
      PROVE  i = j
  <2>1. CASE i = 1 \/ j = 1
    BY <1>6, <1>7, <2>1
  <2>2. CASE i # 1 /\ j # 1
    <3>1. i - 1 = j - 1 /\ i \in Nat /\ j \in Nat
      BY <1>6, <1>7, <2>2 DEF Fresh
    <3> QED BY <3>1
  <2> QED BY <2>1, <2>2
<1>8. ASSUME NEW i \in DOMAIN r
      PROVE  r[i].value = lu[r[i].key]
  <2>1. CASE i = 1
    BY <1>6, <2>1
  <2>2. CASE i # 1
    <3>1. i - 1 \in DOMAIN w /\ r[i] = w[i - 1]
      BY <1>6, <2>2
    <3>2. w[i - 1].key \in CacheKeys /\ w[i - 1].key # n.key
      BY <1>5, <3>1 DEF Nodes
    <3> QED BY <3>1, <3>2 DEF Fresh
  <2> QED BY <2>1, <2>2
<1> QED BY <1>1, <1>3, <1>4, <1>7, <1>8 DEF Fresh

\* Setting a value: a value that does not fit takes the old entry with it, any
\* other replaces it before what is cold is pushed out.
LEMMA SetKeeps ==
    ASSUME MemoryInv, NEW k \in CacheKeys, NEW v \in Values, NEW b \in Weights, Set(k, v, b)
    PROVE  MemoryInv'
<1>1. PICK w : w = Without(list, k)
  OBVIOUS
<1>2. list \in Seq(Nodes) /\ Fresh(list, latest) /\ latest \in [CacheKeys -> Values \cup {Nothing}]
  BY DEF MemoryInv
<1>3. Drawn(w, list) /\ w \in Seq(Nodes) /\ \A i \in DOMAIN w : w[i].key # k
  BY <1>1, <1>2, WithoutKey DEF Drawn
<1>4. Fresh(w, latest)
  BY <1>2, <1>3, DrawnFresh
<1>5. /\ latest' \in [CacheKeys -> Values \cup {Nothing}] /\ latest'[k] = v
      /\ \A j \in CacheKeys : j # k => latest'[j] = latest[j]
  BY <1>2 DEF Set
<1>6. CASE b > Budget
  <2>1. list' = w
    BY <1>1, <1>6 DEF Set
  <2>2. Bytes(w) <= Budget
    <3>1. Bytes(w) \in Nat /\ Bytes(list) \in Nat /\ Bytes(w) <= Bytes(list) /\ Bytes(list) <= Budget /\ Budget \in Nat
      BY <1>2, <1>3, DrawnWeighs, MemoryCacheAssumption DEF MemoryInv
    <3> QED BY <3>1
  <2>3. Fresh(w, latest')
    <3>1. \A i \in DOMAIN w : w[i].key \in CacheKeys
      BY <1>3, Positions DEF Nodes
    <3> QED BY <1>3, <1>4, <1>5, <3>1 DEF Fresh
  <2> QED BY <1>3, <1>5, <2>1, <2>2, <2>3 DEF MemoryInv
<1>7. CASE ~(b > Budget)
  <2>1. PICK n : n = Node(k, v, b)
    OBVIOUS
  <2>2. n \in Nodes /\ n.key = k /\ n.value = v
    BY <2>1 DEF Node, Nodes
  <2>3. PICK t : t = <<n>> \o w
    OBVIOUS
  <2>4. t \in Seq(Nodes) /\ Fresh(t, latest')
    <3>1. latest'[n.key] = n.value /\ \A j \in CacheKeys : j # n.key => latest'[j] = latest[j]
      BY <1>5, <2>2
    <3>2. \A i \in DOMAIN w : w[i].key # n.key
      BY <1>3, <2>2
    <3>3. w \in Seq(Nodes)
      BY <1>3
    <3>4. PICK lu : lu = latest'
      OBVIOUS
    <3>5. lu[n.key] = n.value /\ \A j \in CacheKeys : j # n.key => lu[j] = latest[j]
      BY <3>1, <3>4
    <3>6. t \in Seq(Nodes) /\ Fresh(t, lu)
      BY <1>4, <2>2, <2>3, <3>2, <3>3, <3>5, InFront
    <3> QED BY <3>4, <3>6
  <2>5. list' = evictTo(t, Budget)
    BY <1>1, <1>7, <2>1, <2>3 DEF Set
  <2>6. Drawn(list', t) /\ Bytes(list') <= Budget
    BY <2>4, <2>5, EvictToFits, MemoryCacheAssumption
  <2>7. list' \in Seq(Nodes) /\ Fresh(list', latest')
    BY <2>4, <2>6, DrawnFresh DEF Drawn
  <2> QED BY <1>5, <2>6, <2>7 DEF MemoryInv
<1> QED BY <1>6, <1>7

\* Deleting a key takes its entry with it.
LEMMA DelKeeps ==
    ASSUME MemoryInv, NEW k \in CacheKeys, Del(k)
    PROVE  MemoryInv'
<1>1. PICK w : w = Without(list, k)
  OBVIOUS
<1>2. list \in Seq(Nodes) /\ Fresh(list, latest) /\ latest \in [CacheKeys -> Values \cup {Nothing}]
  BY DEF MemoryInv
<1>3. Drawn(w, list) /\ w \in Seq(Nodes) /\ \A i \in DOMAIN w : w[i].key # k
  BY <1>1, <1>2, WithoutKey DEF Drawn
<1>4. Fresh(w, latest)
  BY <1>2, <1>3, DrawnFresh
<1>5. /\ latest' \in [CacheKeys -> Values \cup {Nothing}]
      /\ \A j \in CacheKeys : j # k => latest'[j] = latest[j]
  BY <1>2 DEF Del
<1>6. list' = w
  BY <1>1 DEF Del
<1>7. Bytes(w) <= Budget
  <2>1. Bytes(w) \in Nat /\ Bytes(list) \in Nat /\ Bytes(w) <= Bytes(list) /\ Bytes(list) <= Budget /\ Budget \in Nat
    BY <1>2, <1>3, DrawnWeighs, MemoryCacheAssumption DEF MemoryInv
  <2> QED BY <2>1
<1>8. Fresh(w, latest')
  <2>1. \A i \in DOMAIN w : w[i].key \in CacheKeys
    BY <1>3, Positions DEF Nodes
  <2> QED BY <1>3, <1>4, <1>5, <2>1 DEF Fresh
<1> QED BY <1>3, <1>5, <1>6, <1>7, <1>8 DEF MemoryInv

\* The other steps leave entries of the shard, flags aside.
LEMMA OthersDraw ==
    ASSUME MemoryInv,
           \/ \E r \in Readers : DropExpired(r) \/ \E k \in CacheKeys : Get(r, k)
           \/ \E k \in CacheKeys : Expire(k)
           \/ Evict(Budget) \/ Clear
    PROVE  Drawn(list', list) /\ UNCHANGED latest
<1>1. list \in Seq(Nodes)
  BY DEF MemoryInv
<1>2. \A k : HasKey(list, k) => NodeAt(list, k) \in DOMAIN list /\ list[NodeAt(list, k)] \in Nodes
  BY <1>1, NodeAtHolds, Positions
<1>3. ASSUME NEW r \in Readers, DropExpired(r)
      PROVE  Drawn(list', list) /\ UNCHANGED latest
  <2>1. PICK k : k = expiredHit[r]
    OBVIOUS
  <2>2. list' = Without(list, k) \/ list' = list
    BY <1>3, <2>1 DEF DropExpired
  <2>3. Drawn(Without(list, k), list) /\ Drawn(list, list)
    BY <1>1, WithoutKey, DrawnSelf
  <2> QED BY <1>3, <2>2, <2>3 DEF DropExpired
<1>4. ASSUME NEW r \in Readers, NEW k \in CacheKeys, Get(r, k)
      PROVE  Drawn(list', list) /\ UNCHANGED latest
  <2>1. CASE UNCHANGED list
    BY <1>1, <1>4, <2>1, DrawnSelf DEF Get
  <2>2. CASE ~UNCHANGED list
    <3>1. PICK p : p = NodeAt(list, k)
      OBVIOUS
    <3>2. p \in DOMAIN list /\ list[p] \in Nodes
      BY <1>2, <1>4, <3>1 DEF Get
    <3>3. PICK n : n = [list[p] EXCEPT !.accessed = TRUE]
      OBVIOUS
    <3>4. list' = [list EXCEPT ![p] = n]
      BY <1>4, <2>2, <3>1, <3>3 DEF Get
    <3>5. n \in Nodes /\ SameEntry(n, list[p])
      BY <3>2, <3>3 DEF Nodes, SameEntry
    <3> QED BY <1>1, <1>4, <3>2, <3>4, <3>5, FlagsDraw DEF Get
  <2> QED BY <2>1, <2>2
<1>5. ASSUME NEW k \in CacheKeys, Expire(k)
      PROVE  Drawn(list', list) /\ UNCHANGED latest
  <2>1. PICK p : p = NodeAt(list, k)
    OBVIOUS
  <2>2. p \in DOMAIN list /\ list[p] \in Nodes
    BY <1>2, <1>5, <2>1 DEF Expire
  <2>3. PICK n : n = [list[p] EXCEPT !.expired = TRUE]
    OBVIOUS
  <2>4. list' = [list EXCEPT ![p] = n]
    BY <1>5, <2>1, <2>3 DEF Expire
  <2>5. n \in Nodes /\ SameEntry(n, list[p])
    BY <2>2, <2>3 DEF Nodes, SameEntry
  <2> QED BY <1>1, <1>5, <2>2, <2>4, <2>5, FlagsDraw DEF Expire
<1>6. CASE Evict(Budget)
  <2>1. PICK t : t = purgeExpired(list)
    OBVIOUS
  <2>2. Drawn(t, list) /\ t \in Seq(Nodes)
    BY <1>1, <2>1, PurgeDraws DEF Drawn
  <2>3. list' = evictTo(t, Budget)
    BY <1>6, <2>1 DEF Evict
  <2>4. Drawn(list', t)
    BY <2>2, <2>3, EvictToFits, MemoryCacheAssumption
  <2>5. PICK u : u = list'
    OBVIOUS
  <2>6. Drawn(u, list)
    BY <2>2, <2>4, <2>5, DrawnFromDrawn
  <2> QED BY <1>6, <2>5, <2>6 DEF Evict
<1>7. CASE Clear
  <2>1. list' = <<>>
    BY <1>7 DEF Clear
  <2>2. PICK e : e = <<>>
    OBVIOUS
  <2>3. e \in Seq(Nodes) /\ DOMAIN e = {}
    BY <2>2
  <2>4. PICK h : h = [i \in DOMAIN e |-> i]
    OBVIOUS
  <2>5. Traces(h, e, list)
    BY <2>3 DEF Traces
  <2>6. Drawn(e, list)
    BY <2>3, <2>5 DEF Drawn
  <2> QED BY <1>7, <2>1, <2>2, <2>6 DEF Clear
<1> QED BY <1>3, <1>4, <1>5, <1>6, <1>7

\* A shard starts empty.
LEMMA MemoryStarts ==
    ASSUME MemoryInit
    PROVE  MemoryInv
<1>1. list \in Seq(Nodes) /\ Len(list) = 0 /\ DOMAIN list = {}
  BY DEF MemoryInit
<1>2. Bytes(list) = 0
  BY <1>1, NothingWeighs
<1> QED BY <1>1, <1>2, MemoryCacheAssumption DEF MemoryInit, MemoryInv, Fresh

LEMMA MemoryInductive ==
    ASSUME MemoryInv, [MemoryNext]_memoryVars
    PROVE  MemoryInv'
<1>1. CASE UNCHANGED memoryVars
  BY <1>1 DEF MemoryInv, memoryVars
<1>2. CASE \E k \in CacheKeys : Del(k) \/ \E v \in Values, b \in Weights : Set(k, v, b)
  BY <1>2, DelKeeps, SetKeeps
<1>3. CASE \/ \E r \in Readers : DropExpired(r) \/ \E k \in CacheKeys : Get(r, k)
           \/ \E k \in CacheKeys : Expire(k)
           \/ Evict(Budget) \/ Clear
  <2>1. Drawn(list', list) /\ UNCHANGED latest
    BY <1>3, OthersDraw
  <2> QED BY <2>1, DrawnKeeps
<1> QED BY <1>1, <1>2, <1>3 DEF MemoryNext

\* However entries are read, set, replaced, refused, expired, evicted and dropped,
\* a shard holds no more than its share of the budget and no key twice.
THEOREM BudgetSafety == MemorySpec => []ShardWithinBudget
<1>1. MemoryInit => MemoryInv
  BY MemoryStarts
<1>2. MemoryInv /\ [MemoryNext]_memoryVars => MemoryInv'
  BY MemoryInductive
<1>3. MemoryInv => ShardWithinBudget
  BY MemoryInvImplies
<1> QED BY <1>1, <1>2, <1>3, PTL DEF MemorySpec

\* No operation of a shard brings back a value that was replaced or deleted.
THEOREM FreshnessSafety == MemorySpec => []NoOlderValue
<1>1. MemoryInit => MemoryInv
  BY MemoryStarts
<1>2. MemoryInv /\ [MemoryNext]_memoryVars => MemoryInv'
  BY MemoryInductive
<1>3. MemoryInv => NoOlderValue
  BY MemoryInvImplies
<1> QED BY <1>1, <1>2, <1>3, PTL DEF MemorySpec

-----------------------------------------------------------------------------
(* The audit log. *)

Batches == [put : Nat \ {0}, entry : Nat, trim : Int]

\* The log as it is written: sequence numbers rise from batch to batch, and each
\* batch deletes the one a ring's length below.
RisingLog(w) ==
    /\ \A i \in 1..Len(w) : w[i].trim = w[i].put - kAuditCapacity
    /\ \A i, j \in 1..Len(w) : i < j => w[i].put < w[j].put

\* The inductive form: the cursor is not below any sequence number written.
AuditInv ==
    /\ cursor \in Nat /\ entries \in Nat /\ synced \in Nat
    /\ wal \in Seq(Batches)
    /\ synced <= Len(wal)
    /\ RisingLog(wal)
    /\ \A i \in 1..Len(wal) : wal[i].put <= cursor

LEMMA AuditLogIs ==
    ASSUME AuditInv
    PROVE  /\ Len(wal) \in Nat /\ DOMAIN wal = 1..Len(wal)
           /\ \A i \in 1..Len(wal) : /\ wal[i] \in Batches /\ wal[i].put \in Nat \ {0}
                                     /\ wal[i].put <= cursor
                                     /\ wal[i].trim = wal[i].put - kAuditCapacity
           /\ \A i, j \in 1..Len(wal) : i < j => wal[i].put < wal[j].put
<1>1. Len(wal) \in Nat /\ DOMAIN wal = 1..Len(wal) /\ \A i \in 1..Len(wal) : wal[i] \in Batches
  BY LenProperties, ElementOfSeq DEF AuditInv
<1> QED BY <1>1 DEF AuditInv, RisingLog, Batches

\* An append takes the next number.
LEMMA AppendKeepsLog ==
    ASSUME AuditInv, AppendAudit
    PROVE  AuditInv'
<1>1. CASE UNCHANGED wal
  BY <1>1, AuditLogIs DEF AppendAudit, AuditInv
<1>2. CASE wal' = Append(wal, [put |-> cursor + 1, entry |-> entries + 1, trim |-> Trim(cursor + 1)])
  <2>1. PICK b : b = [put |-> cursor + 1, entry |-> entries + 1, trim |-> Trim(cursor + 1)]
    OBVIOUS
  <2>2. PICK w : w = wal'
    OBVIOUS
  <2>3. PICK n \in Nat : n = Len(wal)
    BY AuditLogIs
  <2>4. b \in Batches /\ b.put = cursor + 1 /\ b.trim = b.put - kAuditCapacity
    BY <2>1, AuditLogAssumption DEF Batches, Trim, AuditInv
  <2>5. w \in Seq(Batches) /\ Len(w) = n + 1 /\ w[n + 1] = b /\ \A i \in 1..n : w[i] = wal[i]
    <3>1. wal \in Seq(Batches) /\ w = Append(wal, b)
      BY <1>2, <2>1, <2>2 DEF AuditInv
    <3> QED BY <2>3, <2>4, <3>1, AppendProperties
  <2>6. cursor \in Nat /\ \A i \in 1..n : wal[i].put <= cursor /\ wal[i].put \in Nat
    BY <2>3, AuditLogIs DEF AuditInv
  <2>7. ASSUME NEW i \in 1..Len(w)
        PROVE  w[i].trim = w[i].put - kAuditCapacity /\ w[i].put <= cursor + 1 /\ (i # n + 1 => i \in 1..n)
    <3>1. CASE i = n + 1
      BY <2>4, <2>5, <2>6, <3>1
    <3>2. CASE i # n + 1
      <4>1. i \in 1..n
        BY <2>5, <3>2
      <4> QED BY <2>3, <2>5, <2>6, <4>1, AuditLogIs
    <3> QED BY <3>1, <3>2
  <2>8. ASSUME NEW i \in 1..Len(w), NEW j \in 1..Len(w), i < j
        PROVE  w[i].put < w[j].put
    <3>1. i \in 1..n
      BY <2>5, <2>8
    <3>2. CASE j = n + 1
      BY <2>4, <2>5, <2>6, <3>1, <3>2
    <3>3. CASE j # n + 1
      <4>1. j \in 1..n
        BY <2>7, <3>3
      <4> QED BY <2>3, <2>5, <2>8, <3>1, <4>1, AuditLogIs
    <3> QED BY <3>2, <3>3
  <2>9. RisingLog(w)
    BY <2>7, <2>8 DEF RisingLog
  <2>10. /\ cursor' = cursor + 1 /\ entries' \in Nat /\ synced' = synced /\ synced \in Nat
         /\ cursor + 1 \in Nat /\ synced <= n + 1
    BY <2>3 DEF AppendAudit, AuditInv
  <2> QED BY <2>2, <2>5, <2>7, <2>9, <2>10 DEF AuditInv
<1> QED BY <1>1, <1>2 DEF AppendAudit

\* The last batch is in the store, and none has a higher key.
LEMMA NewestStored ==
    ASSUME AuditInv, NEW n \in 1..Len(wal)
    PROVE  seedAuditSequence(Stored(n)) = wal[n].put
<1>1. n \in Nat /\ \A i \in 1..n : i \in 1..Len(wal)
  BY AuditLogIs
<1>2. n \in Stored(n)
  <2>1. wal[n].trim # wal[n].put
    BY AuditLogIs, AuditLogAssumption
  <2>2. n..n = {n} /\ (n + 1)..n = {}
    BY <1>1
  <2> QED BY <1>1, <2>1, <2>2 DEF Stored
<1>3. PICK M : M = {wal[i].put : i \in Stored(n)}
  OBVIOUS
<1>4. wal[n].put \in M /\ M \subseteq Nat /\ \A y \in M : y <= wal[n].put
  <2>1. ASSUME NEW i \in Stored(n)
        PROVE  wal[i].put \in Nat /\ wal[i].put <= wal[n].put
    <3>1. i \in 1..n
      BY DEF Stored
    <3>2. i = n \/ i < n
      BY <1>1, <3>1
    <3> QED BY <1>1, <3>1, <3>2, AuditLogIs
  <2> QED BY <1>2, <1>3, <2>1
<1>5. ASSUME NEW x \in M, \A y \in M : x >= y
      PROVE  x = wal[n].put
  <2>1. x \in Nat /\ wal[n].put \in Nat /\ x <= wal[n].put /\ x >= wal[n].put
    BY <1>4, <1>5
  <2> QED BY <2>1
<1>6. \E x \in M : \A y \in M : x >= y
  BY <1>4
<1>7. Max(M) = wal[n].put
  BY <1>5, <1>6 DEF Max
<1> QED BY <1>2, <1>3, <1>7 DEF seedAuditSequence

\* A restart takes the cursor back to the last batch that survived.
LEMMA ReopenKeepsLog ==
    ASSUME AuditInv, ReopenStore
    PROVE  AuditInv'
<1>1. PICK n \in synced..Len(wal) : /\ wal' = SubSeq(wal, 1, n)
                                    /\ cursor' = seedAuditSequence(Stored(n)) /\ synced' = n
  BY DEF ReopenStore
<1>2. n \in Nat /\ n <= Len(wal) /\ Len(wal) \in Nat
  BY AuditLogIs DEF AuditInv
<1>3. PICK w : w = wal'
  OBVIOUS
<1>4. w \in Seq(Batches) /\ Len(w) = n /\ \A i \in 1..n : w[i] = wal[i]
  <2>1. PICK m : m = 1
    OBVIOUS
  <2>2. m \in Int /\ n \in Int /\ \A i \in m..n : wal[i] \in Batches
    BY <1>2, <2>1, AuditLogIs
  <2>3. w = SubSeq(wal, m, n)
    BY <1>1, <1>3, <2>1
  <2>4. /\ w \in Seq(Batches) /\ Len(w) = (IF m <= n THEN n - m + 1 ELSE 0)
        /\ \A i \in 1..(n - m + 1) : w[i] = wal[m + i - 1]
    BY ONLY <2>2, <2>3, SubSeqProperties
  <2>5. (IF m <= n THEN n - m + 1 ELSE 0) = n /\ n - m + 1 = n /\ \A i \in 1..n : m + i - 1 = i
    BY <1>2, <2>1
  <2> QED BY <2>4, <2>5
<1>5. \A i \in 1..n : i \in 1..Len(wal)
  BY <1>2
<1>6. RisingLog(w)
  BY <1>4, <1>5, AuditLogIs DEF RisingLog
<1>7. cursor' \in Nat /\ \A i \in 1..n : w[i].put <= cursor'
  <2>1. CASE n = 0
    <3>1. Stored(n) = {} /\ 1..n = {}
      BY <2>1 DEF Stored
    <3> QED BY <1>1, <3>1 DEF seedAuditSequence
  <2>2. CASE n # 0
    <3>1. n \in 1..Len(wal) /\ n \in 1..n
      BY <1>2, <2>2
    <3>2. cursor' = wal[n].put
      BY <1>1, <3>1, NewestStored
    <3>3. ASSUME NEW i \in 1..n PROVE w[i].put <= wal[n].put
      <4>1. i = n \/ i < n
        BY <1>2
      <4> QED BY <1>4, <1>5, <3>1, <4>1, AuditLogIs
    <3> QED BY <3>1, <3>2, <3>3, AuditLogIs
  <2> QED BY <2>1, <2>2
<1> QED BY <1>1, <1>2, <1>3, <1>4, <1>6, <1>7 DEF AuditInv, ReopenStore

LEMMA AuditInductive ==
    ASSUME AuditInv, [AuditNext]_auditVars
    PROVE  AuditInv'
<1>1. CASE UNCHANGED auditVars
  BY <1>1 DEF auditVars, AuditInv
<1>2. CASE SyncWal
  BY <1>2, AuditLogIs DEF SyncWal, AuditInv
<1> QED BY <1>1, <1>2, AppendKeepsLog, ReopenKeepsLog DEF AuditNext

\* The batches with a number within a ring's length of the cursor.
RecentBatches == {i \in DOMAIN wal : wal[i].put > cursor - kAuditCapacity}

\* Nothing has deleted a recent batch, and every later one is recent.
LEMMA RecentStored ==
    ASSUME AuditInv, NEW i \in RecentBatches
    PROVE  i \in 1..Len(wal) /\ \A j \in i..Len(wal) : j \in RecentBatches /\ j \in Stored(Len(wal))
<1>1. i \in 1..Len(wal) /\ wal[i].put > cursor - kAuditCapacity
  BY AuditLogIs DEF RecentBatches
<1>2. ASSUME NEW j \in i..Len(wal)
      PROVE  j \in RecentBatches /\ j \in Stored(Len(wal))
  <2>1. j \in 1..Len(wal) /\ (j = i \/ i < j)
    BY <1>1, AuditLogIs
  <2>2. wal[j].put \in Nat /\ wal[i].put \in Nat /\ wal[i].put <= wal[j].put /\ cursor \in Nat /\ kAuditCapacity \in Nat
    BY <1>1, <2>1, AuditLogIs, AuditLogAssumption DEF AuditInv
  <2>3. wal[j].put > cursor - kAuditCapacity
    BY <1>1, <2>2
  <2>4. ASSUME NEW k \in j..Len(wal)
        PROVE  wal[k].trim # wal[j].put
    <3>1. k \in 1..Len(wal)
      BY <2>1, AuditLogIs
    <3>2. wal[k].trim = wal[k].put - kAuditCapacity /\ wal[k].put <= cursor /\ wal[k].put \in Nat
      BY <3>1, AuditLogIs
    <3> QED BY <2>2, <2>3, <3>2
  <2>5. ASSUME NEW k \in (j + 1)..Len(wal)
        PROVE  wal[k].put # wal[j].put
    <3>1. k \in 1..Len(wal) /\ j < k
      BY <2>1, AuditLogIs
    <3>2. wal[j].put < wal[k].put /\ wal[k].put \in Nat
      BY <2>1, <3>1, AuditLogIs
    <3> QED BY <2>2, <3>2
  <2> QED BY <2>1, <2>3, <2>4, <2>5, AuditLogIs DEF RecentBatches, Stored
<1> QED BY <1>1, <1>2

\* The last numbers are those of the recent batches.
LEMMA RecentAreLast ==
    ASSUME AuditInv, NEW r \in 1..Cardinality(RecentBatches)
    PROVE  Len(wal) - r + 1 \in RecentBatches
<1>1. PICK n \in Nat : n = Len(wal)
  BY AuditLogIs
<1>2. PICK R : R = RecentBatches
  OBVIOUS
<1>3. R \subseteq 1..n /\ IsFiniteSet(R) /\ Cardinality(R) \in Nat
  <2>1. R \subseteq 1..n
    BY <1>1, <1>2, AuditLogIs DEF RecentBatches
  <2>2. IsFiniteSet(1..n)
    BY <1>1, FS_Interval
  <2> QED BY <2>1, <2>2, FS_Subset, FS_CardinalityType
<1>4. r \in Nat \ {0} /\ r <= Cardinality(R)
  BY <1>2, <1>3
<1>5. SUFFICES ASSUME n - r + 1 \notin R PROVE FALSE
  BY <1>1, <1>2
<1>6. ASSUME NEW i \in R PROVE i \in (n - r + 2)..n
  <2>1. i \in 1..n /\ \A j \in i..n : j \in R
    BY <1>1, <1>2, <1>3, RecentStored
  <2>2. n - r + 1 \notin i..n
    BY <1>5, <2>1
  <2> QED BY <1>1, <1>4, <2>1, <2>2
<1>7. PICK a \in Int : a = n - r + 2
  BY <1>1, <1>4
<1>8. IsFiniteSet(a..n) /\ (Cardinality(a..n) = IF a > n THEN 0 ELSE n - a + 1)
  <2>1. a \in Int /\ n \in Int
    OBVIOUS
  <2> QED BY ONLY <2>1, FS_Interval
<1>9. R \subseteq a..n
  BY <1>6, <1>7
<1>10. Cardinality(R) <= Cardinality(a..n)
  BY ONLY <1>8, <1>9, FS_Subset
<1> QED BY <1>1, <1>3, <1>4, <1>7, <1>8, <1>10

\* The batches in the store with a key that is not below batch i's.
FromOn(i) == {j \in Stored(Len(wal)) : wal[j].put >= wal[i].put}

\* They are finitely many, and two batches in the store have different ones.
LEMMA RanksDiffer ==
    ASSUME AuditInv, NEW i \in Stored(Len(wal)), NEW k \in Stored(Len(wal)),
           Cardinality(FromOn(i)) = Cardinality(FromOn(k)), i < k
    PROVE  FALSE
<1>1. i \in 1..Len(wal) /\ k \in 1..Len(wal)
  BY DEF Stored
<1>2. wal[i].put \in Nat /\ wal[k].put \in Nat /\ wal[i].put < wal[k].put
  BY <1>1, AuditLogIs
<1>3. i \in FromOn(i) /\ i \notin FromOn(k)
  BY <1>2 DEF FromOn
<1>4. FromOn(k) \subseteq FromOn(i)
  <2>1. ASSUME NEW j \in FromOn(k) PROVE j \in FromOn(i)
    <3>1. j \in 1..Len(wal) /\ wal[j].put >= wal[k].put /\ j \in Stored(Len(wal))
      BY DEF FromOn, Stored
    <3>2. wal[j].put \in Nat
      BY <3>1, AuditLogIs
    <3> QED BY <1>2, <3>1, <3>2 DEF FromOn
  <2> QED BY <2>1
<1>5. IsFiniteSet(FromOn(i))
  <2>1. FromOn(i) \subseteq 1..Len(wal)
    BY DEF FromOn, Stored
  <2>2. IsFiniteSet(1..Len(wal))
    <3>1. PICK l, u : l = 1 /\ u = Len(wal)
      OBVIOUS
    <3>2. l \in Int /\ u \in Int
      BY <3>1, AuditLogIs
    <3>3. IsFiniteSet(l..u)
      BY ONLY <3>2, FS_Interval
    <3> QED BY <3>1, <3>3
  <2> QED BY <2>1, <2>2, FS_Subset
<1>6. PICK A, B : A = FromOn(i) /\ B = FromOn(k)
  OBVIOUS
<1>7. IsFiniteSet(A) /\ B \subseteq A /\ Cardinality(A) = Cardinality(B)
  BY <1>4, <1>5, <1>6
<1>8. A = B
  BY ONLY <1>7, FS_Subset
<1> QED BY <1>3, <1>6, <1>8

\* A recent batch has its place in the list by when it was written.
LEMMA RankOfRecent ==
    ASSUME AuditInv, NEW i \in RecentBatches
    PROVE  Cardinality(FromOn(i)) = Len(wal) - i + 1
<1>1. PICK n \in Nat : n = Len(wal)
  BY AuditLogIs
<1>2. i \in 1..n /\ i \in Nat /\ \A j \in i..n : j \in Stored(n)
  BY <1>1, RecentStored
<1>3. ASSUME NEW j \in i..n PROVE j \in FromOn(i)
  <2>1. j \in 1..n /\ (j = i \/ i < j)
    BY <1>2
  <2>2. wal[j].put \in Nat /\ wal[i].put \in Nat /\ (j = i \/ wal[i].put < wal[j].put)
    BY <1>1, <1>2, <2>1, AuditLogIs
  <2>3. wal[j].put >= wal[i].put
    BY <2>2
  <2> QED BY <1>1, <1>2, <2>3 DEF FromOn
<1>4. ASSUME NEW j \in FromOn(i) PROVE j \in i..n
  <2>1. j \in 1..n /\ wal[j].put >= wal[i].put
    BY <1>1 DEF FromOn, Stored
  <2>2. wal[j].put \in Nat /\ wal[i].put \in Nat /\ (j < i => wal[j].put < wal[i].put)
    BY <1>1, <1>2, <2>1, AuditLogIs
  <2> QED BY <1>2, <2>1, <2>2
<1>5. FromOn(i) = i..n
  BY <1>3, <1>4
<1>6. Cardinality(i..n) = IF i > n THEN 0 ELSE n - i + 1
  BY <1>2, FS_Interval
<1>7. Cardinality(i..n) = n - i + 1
  BY <1>2, <1>6
<1> QED BY <1>1, <1>5, <1>7

\* The list of the store's entries is that of the last batches written, as far
\* as these are recent.
LEMMA AuditInvLists ==
    ASSUME AuditInv
    PROVE  AuditListsRecent
<1>1. PICK R, S, n : R = RecentBatches /\ S = Stored(Len(wal)) /\ n = Len(wal)
  OBVIOUS
<1>2. n \in Nat
  BY <1>1, AuditLogIs
<1>3. SUFFICES ASSUME NEW limit \in 0..Cardinality(R)
               PROVE  listAudit(limit) = [r \in 1..limit |-> wal[n - r + 1].entry]
  BY <1>1 DEF AuditListsRecent, RecentBatches
<1>4. IsFiniteSet(S) /\ R \subseteq S
  <2>1. S \subseteq 1..n
    BY <1>1 DEF Stored
  <2>2. IsFiniteSet(1..n)
    BY <1>2, FS_Interval
  <2>3. ASSUME NEW i \in R PROVE i \in S
    <3>1. i \in 1..Len(wal) /\ \A j \in i..Len(wal) : j \in Stored(Len(wal))
      BY <1>1, RecentStored
    <3>2. i \in i..Len(wal)
      BY <1>1, <1>2, <3>1
    <3> QED BY <1>1, <3>1, <3>2
  <2> QED BY <2>1, <2>2, <2>3, FS_Subset
<1>5. IsFiniteSet(R) /\ Cardinality(R) <= Cardinality(S)
  BY ONLY <1>4, FS_Subset
<1>6. Cardinality(R) \in Nat /\ Cardinality(S) \in Nat
  BY <1>4, <1>5, FS_CardinalityType
<1>7. limit \in Nat /\ limit <= Cardinality(R) /\ limit <= Cardinality(S)
  BY <1>5, <1>6
<1>8. Min({limit, Cardinality(S)}) = limit
  BY <1>6, <1>7 DEF Min
<1>9. ASSUME NEW r \in 1..limit
      PROVE  (CHOOSE i \in S : Cardinality({j \in S : wal[j].put >= wal[i].put}) = r) = n - r + 1
  <2>1. PICK q : q = n - r + 1
    OBVIOUS
  <2>2. q \in R
    <3>1. r \in 1..Cardinality(RecentBatches)
      BY <1>1, <1>6, <1>7
    <3> QED BY <1>1, <2>1, <3>1, RecentAreLast
  <2>3. q \in S /\ q \in 1..n
    BY <1>1, <1>4, <2>2 DEF Stored
  <2>4. Cardinality(FromOn(q)) = r
    <3>1. Cardinality(FromOn(q)) = n - q + 1
      BY <1>1, <2>2, RankOfRecent
    <3>2. n - q + 1 = r
      BY <1>2, <1>7, <2>1
    <3> QED BY <3>1, <3>2
  <2>5. ASSUME NEW i \in S, Cardinality(FromOn(i)) = r
        PROVE  i = q
    <3>1. i \in 1..n
      BY <1>1 DEF Stored
    <3>2. ~(i < q)
      BY <1>1, <2>3, <2>4, <2>5, RanksDiffer
    <3>3. ~(q < i)
      BY <1>1, <2>3, <2>4, <2>5, RanksDiffer
    <3> QED BY <2>3, <3>1, <3>2, <3>3
  <2>6. \A i \in S : FromOn(i) = {j \in S : wal[j].put >= wal[i].put}
    BY <1>1 DEF FromOn
  <2>7. PICK c : c = CHOOSE i \in S : Cardinality({j \in S : wal[j].put >= wal[i].put}) = r
    OBVIOUS
  <2>8. c \in S /\ Cardinality({j \in S : wal[j].put >= wal[c].put}) = r
    BY <2>3, <2>4, <2>6, <2>7
  <2>9. c = q
    BY <2>5, <2>6, <2>8
  <2> QED BY <2>1, <2>7, <2>9
<1>10. listAudit(limit) = [r \in 1..limit |->
            wal[CHOOSE i \in S : Cardinality({j \in S : wal[j].put >= wal[i].put}) = r].entry]
  BY <1>1, <1>8 DEF listAudit
<1> QED BY <1>9, <1>10

\* However appends fail and restarts and power cuts take the cursor and the log
\* back, the console lists the last entries written, newest first, and leaves out
\* none that is within a ring's length of the cursor.
THEOREM AuditSafety == AuditSpec => []AuditListsRecent
<1>1. AuditInit => AuditInv
  BY DEF AuditInit, AuditInv, RisingLog
<1>2. AuditInv /\ [AuditNext]_auditVars => AuditInv'
  BY AuditInductive
<1>3. AuditInv => AuditListsRecent
  BY AuditInvLists
<1> QED BY <1>1, <1>2, <1>3, PTL DEF AuditSpec

=============================================================================
