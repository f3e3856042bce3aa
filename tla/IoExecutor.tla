----------------------------- MODULE IoExecutor -----------------------------
(***************************************************************************)
(* The bounded thread pool (core/io_executor.cpp), the order in which the  *)
(* process goes down (core/lifecycle.cpp, server/server.cpp), and what the *)
(* console's sign-in route does across it: the login throttle is asked on  *)
(* the event loop and told on an I/O thread, and every sign-in posts an    *)
(* entry for the audit log, whose ring is in AuditLog.                     *)
(*                                                                         *)
(* The condition variable is modelled: a worker that finds nothing to do   *)
(* sleeps until a notification picks it, and a notification is sent after  *)
(* the lock that guarded the push has been released. What a sign-in        *)
(* decides is left to chance; its sessions are in Console.                 *)
(***************************************************************************)
EXTENDS Naturals, Sequences, FiniteSets

CONSTANTS
    Workers,            \* threads of the pool
    Loops,              \* event loops that serve the console
    queueLimit,
    kMaxFailedLogins,
    MaxLogins           \* bound: sign-in attempts

ASSUME IoExecutorAssumption ==
    /\ queueLimit \in Nat \ {0} /\ kMaxFailedLogins \in Nat \ {0}
    /\ Loops \in Nat \ {0}
    /\ MaxLogins \in Nat
    /\ IsFiniteSet(Workers)

Logins == 1 .. MaxLogins

VARIABLES
    queue,      \* queue_, the next task first
    worker,     \* [Workers -> Awake, Asleep, Gone or the task it runs]
    notices,    \* notify_one calls of post() that are still to be made
    phase,      \* "up", then the hooks of the shutdown in turn, then "down"
    login,      \* [Logins -> "outside", "asked", "posted" or "over"]
    failures    \* LoginThrottle::failures_ in the current window

ioVars == <<queue, worker, notices, phase, login, failures>>
poolVars == <<queue, worker, notices>>

Task(kind, of) == [kind |-> kind, of |-> of]
Awake == Task("awake", 0)
Asleep == Task("asleep", 0)
Gone == Task("gone", 0)
stopping == phase \in {"joining", "flushing", "down"}

IoInit ==
    /\ queue = <<>> /\ notices = 0 /\ phase = "up"
    /\ worker = [w \in Workers |-> Awake]
    /\ login = [l \in Logins |-> "outside"]
    /\ failures = 0

-----------------------------------------------------------------------------
(* The pool.                                                                *)

\* Mutant of Accepts: a limit that is off by one.
AcceptsOneMore == ~stopping /\ Len(queue) <= queueLimit

Accepts == ~stopping /\ Len(queue) < queueLimit

\* Mutant of Pushed: nobody is told.
PushedQuietly(task) == queue' = Append(queue, task) /\ UNCHANGED notices

\* post() once it has decided to take the task.
Pushed(task) == queue' = Append(queue, task) /\ notices' = notices + 1

\* notify_one wakes some sleeper, or nobody when none sleeps.
Notify ==
    /\ notices > 0
    /\ notices' = notices - 1
    /\ LET sleepers == {w \in Workers : worker[w] = Asleep}
       IN  IF sleepers = {} THEN UNCHANGED worker
           ELSE \E w \in sleepers : worker' = [worker EXCEPT ![w] = Awake]
    /\ UNCHANGED <<queue, phase, login, failures>>

\* worker(): the wait with its predicate, and the pop.
Take(w) ==
    /\ worker[w] = Awake
    /\ IF queue # <<>>
       THEN worker' = [worker EXCEPT ![w] = Head(queue)] /\ queue' = Tail(queue)
       ELSE /\ worker' = [worker EXCEPT ![w] = IF stopping THEN Gone ELSE Asleep]
            /\ UNCHANGED queue
    /\ UNCHANGED <<notices, phase, login, failures>>

Running(w, kind) == worker[w].kind = kind
Done(w) == worker' = [worker EXCEPT ![w] = Awake]

\* Any other task: a request, or the maintenance tick, one at a time. One
\* that throws is swallowed.
PostWork ==
    /\ phase = "up" /\ Accepts
    /\ notices = 0 /\ \A w \in Workers : ~Running(w, "work")
    /\ Pushed(Task("work", 0))
    /\ UNCHANGED <<worker, phase, login, failures>>

RunWork(w) ==
    /\ Running(w, "work") \/ Running(w, "audit")
    /\ Done(w)
    /\ UNCHANGED <<queue, notices, phase, login, failures>>

-----------------------------------------------------------------------------
(* Signing in.                                                              *)

To(l, where) == login' = [login EXCEPT ![l] = where]

\* The event loop asks the throttle ... Attempts are numbered as they come.
AskThrottle(l) ==
    /\ phase = "up" /\ login[l] = "outside"
    /\ \A m \in 1 .. l - 1 : login[m] # "outside"
    /\ Cardinality({m \in Logins : login[m] = "asked"}) < Loops
    /\ To(l, IF failures >= kMaxFailedLogins THEN "over" ELSE "asked")
    /\ UNCHANGED <<poolVars, phase, failures>>

\* ... and then posts the verification, or answers 503.
PostLogin(l) ==
    /\ phase = "up" /\ login[l] = "asked"
    /\ IF Accepts THEN To(l, "posted") /\ Pushed(Task("login", l))
       ELSE To(l, "over") /\ UNCHANGED <<queue, notices>>
    /\ UNCHANGED <<worker, phase, failures>>

\* audit(): one more post, from the I/O thread; a full queue loses the entry.
PostAudit == IF Accepts THEN Pushed(Task("audit", 0)) ELSE UNCHANGED <<queue, notices>>

RunLogin(w) ==
    /\ Running(w, "login") /\ Done(w)
    /\ failures' \in {failures + 1, 0}
    /\ To(worker[w].of, "over")
    /\ PostAudit
    /\ UNCHANGED <<phase>>

\* roll(): a new window forgets the failures of the last.
WindowEnds ==
    /\ failures > 0
    /\ failures' = 0
    /\ UNCHANGED <<poolVars, phase, login>>

-----------------------------------------------------------------------------
(* Going down and coming back.                                              *)

\* SIGTERM: the event loop quits. What it had not posted is never answered.
Quit ==
    /\ phase = "up"
    /\ phase' = "quitting"
    /\ login' = [l \in Logins |-> IF login[l] = "asked" THEN "over" ELSE login[l]]
    /\ UNCHANGED <<poolVars, failures>>

\* Mutant of StopExecutor: only one sleeper is told.
StopTellsOne ==
    /\ phase = "quitting"
    /\ phase' = "joining"
    /\ notices' = notices + 1
    /\ UNCHANGED <<queue, worker, login, failures>>

\* The hooks run in reverse order of their registration: the event loop's and
\* the cache's, then stop(), which wakes everybody and joins, then the flush.
StopExecutor ==
    /\ phase = "quitting"
    /\ phase' = "joining"
    /\ worker' = [w \in Workers |-> IF worker[w] = Asleep THEN Awake ELSE worker[w]]
    /\ UNCHANGED <<queue, notices, login, failures>>

Join ==
    /\ phase = "joining"
    /\ \A w \in Workers : worker[w] = Gone
    /\ phase' = "flushing"
    /\ UNCHANGED <<poolVars, login, failures>>

Flush ==
    /\ phase = "flushing"
    /\ phase' = "down"
    /\ UNCHANGED <<poolVars, login, failures>>

\* The process is killed, or started again after it went down.
Restart ==
    /\ queue' = <<>> /\ notices' = 0 /\ phase' = "up"
    /\ worker' = [w \in Workers |-> Awake]
    /\ login' = [l \in Logins |-> IF login[l] \in {"asked", "posted"} THEN "over" ELSE login[l]]
    /\ failures' = 0

Worker(w) == Take(w) \/ RunWork(w) \/ RunLogin(w)
Shutdown == StopExecutor \/ Join \/ Flush

IoNext ==
    \/ Notify \/ PostWork \/ WindowEnds \/ Quit \/ Shutdown \/ Restart
    \/ \E w \in Workers : Worker(w)
    \/ \E l \in Logins : AskThrottle(l) \/ PostLogin(l)

IoSpec == IoInit /\ [][IoNext]_ioVars

-----------------------------------------------------------------------------
(* Properties.                                                              *)

\* The throttle is asked before the attempts ahead of it have failed, so it
\* lets through more than kMaxFailedLogins; the overshoot is what the pool
\* can hold, never what clients can send.
ThrottleOvershootBounded ==
    failures + Cardinality({l \in Logins : login[l] \in {"asked", "posted"}})
        <= kMaxFailedLogins - 1 + Loops + queueLimit + Cardinality(Workers)

\* Every sign-in that passed the throttle is answered, or lost with the
\* process: no wakeup goes missing between a push and a sleeping worker.
LoginsAnswered ==
    \A l \in Logins : login[l] \in {"asked", "posted"} ~> login[l] \notin {"asked", "posted"}

Drained ==
    /\ queue = <<>> /\ \A w \in Workers : worker[w] = Gone
    /\ \A l \in Logins : login[l] # "posted"

\* A shutdown that has begun ends, unless the process is killed first: nobody
\* sleeps through stop(), and "queued work is drained rather than discarded".
ShutdownCompletes == phase = "quitting" ~> phase = "up" \/ (phase = "down" /\ Drained)

=============================================================================
