-------------------------- MODULE ServiceReadiness --------------------------
(***************************************************************************)
(* When the service lets requests in: the check of the database that runs  *)
(* before HTTP starts and then in the background for ever, the gate in     *)
(* front of the API, and the catalog of business tables, loaded once by    *)
(* the warm-up after the first good check or else by the first query that  *)
(* needs it.                                                               *)
(*                                                                         *)
(* Everything runs on one event loop; an action is what happens between    *)
(* two awaits.  The check and the warm-up are bounded by check_timeout.    *)
(* A statement sent to a database that hangs is lost: nothing but a        *)
(* timeout or a cancellation ends its wait, even once the database is back.*)
(***************************************************************************)
EXTENDS Integers, Sequences, SequencesExt

CONSTANTS
  Queries,  \* API requests that use the business catalog
  WarmUp,   \* warm_business_catalog(), as a user of the catalog
  None

ASSUME ReadinessAssumption == WarmUp \notin Queries /\ None \notin Queries \cup {WarmUp}

Loaders == Queries \cup {WarmUp}

VARIABLES
  db,          \* "up" answers within the timeout, "down" refuses, "hung" is silent
  serving,     \* the lifespan has yielded: HTTP is served
  loop,        \* where DatabaseReadiness is
  ready,       \* what the gate and /health read
  initialized, \* init_db has succeeded
  prepared,    \* _prepare_once has run
  pc,          \* how far each user of the catalog is
  queue,       \* who waits for the load lock, first come first served
  holder,      \* who holds it, or None
  snapshot     \* who loaded the catalog, or None

loopVars == <<serving, loop, ready, initialized, prepared>>
catalog  == <<pc, queue, holder, snapshot>>
vars     == <<db, loopVars, catalog>>

Loading == {"loading", "stuck"}
Busy    == {"admitted", "waiting", "locked"} \cup Loading
Ended   == {"refused", "served", "failed"}

TypeOK ==
  /\ db \in {"up", "down", "hung"} /\ serving \in BOOLEAN
  /\ loop \in {"check", "checkStuck", "warm", "sleep", "stopped"}
  /\ ready \in BOOLEAN /\ initialized \in BOOLEAN /\ prepared \in BOOLEAN
  /\ pc \in [Loaders -> {"idle"} \cup Busy \cup Ended]
  /\ queue \in Seq(Loaders) /\ \A l \in Loaders : Contains(queue, l) <=> pc[l] = "waiting"
  /\ holder \in Loaders \cup {None}
  /\ snapshot \in Loaders \cup {None}

(* The lifespan awaits the first check before it yields. *)
Init ==
  /\ db \in {"up", "down", "hung"} /\ serving = FALSE
  /\ loop = IF db = "hung" THEN "checkStuck" ELSE "check"
  /\ ready = FALSE /\ initialized = FALSE /\ prepared = FALSE
  /\ pc = [l \in Loaders |-> "idle"]
  /\ queue = << >> /\ holder = None /\ snapshot = None

-----------------------------------------------------------------------------
(* get_or_load: look, take the lock, look again, load.                     *)

Become(l, stage) == pc' = [pc EXCEPT ![l] = stage]

GetOrLoad(l) ==
  /\ UNCHANGED snapshot
  /\ IF snapshot # None
       THEN Become(l, "served") /\ UNCHANGED <<queue, holder>>
       ELSE IF holder = None
              THEN Become(l, "locked") /\ holder' = l /\ UNCHANGED queue
              ELSE Become(l, "waiting") /\ queue' = Append(queue, l) /\ UNCHANGED holder

(* A statement reaches the database, or is lost. *)
Sent(reaches, lost) == IF db = "hung" THEN lost ELSE reaches

LoadsAgain(l) ==                   \* mutant: no second look under the lock
  /\ pc[l] = "locked"
  /\ Become(l, Sent("loading", "stuck"))
  /\ UNCHANGED <<db, loopVars, queue, holder, snapshot>>

(* Whoever leaves get_or_load, for whatever reason, gives the lock to the  *)
(* next in line if it held it, and leaves the line if it waited.           *)
LeaveLocked(l, stage) ==           \* as a mutant: releases what it does not hold
  /\ queue' = IF queue = << >> THEN queue ELSE Tail(queue)
  /\ holder' = IF queue = << >> THEN None ELSE Head(queue)
  /\ pc' = [m \in Loaders |-> IF m = l THEN stage
                              ELSE IF queue # << >> /\ m = Head(queue) THEN "locked" ELSE pc[m]]
LeaveLine(l, stage) ==
  /\ Become(l, stage)
  /\ queue' = RemoveFirst(queue, l)
  /\ UNCHANGED holder
Leave(l, stage) ==
  IF holder = l
    THEN LeaveLocked(l, stage)
    ELSE LeaveLine(l, stage)

LookAgain(l) ==
  /\ pc[l] = "locked"
  /\ IF snapshot # None
       THEN Leave(l, "served")
       ELSE Become(l, Sent("loading", "stuck")) /\ UNCHANGED <<queue, holder>>
  /\ UNCHANGED <<db, loopVars, snapshot>>

(* The catalog is complete or the load fails; a failure is not kept. *)
LoadEnds(l) ==
  /\ pc[l] = "loading"
  /\ \/ db = "up" /\ snapshot' = l /\ Leave(l, "served")
     \/ db = "down" /\ UNCHANGED snapshot /\ Leave(l, "failed")
  /\ UNCHANGED <<db, loopVars>>

-----------------------------------------------------------------------------
(* DatabaseReadiness.  Its check sends init_db until that has succeeded    *)
(* once, and only reads the tables from then on.                           *)

StartCheck ==
  /\ loop = "sleep"
  /\ loop' = Sent("check", "checkStuck")
  /\ UNCHANGED <<db, serving, ready, initialized, prepared, catalog>>

(* A good check opens the gate, then warms the catalog up, once. *)
CheckSucceeds ==
  /\ loop = "check" /\ db = "up"
  /\ ready' = TRUE /\ initialized' = TRUE
  /\ IF prepared
       THEN loop' = "sleep" /\ UNCHANGED <<serving, catalog>>
       ELSE loop' = "warm" /\ GetOrLoad(WarmUp) /\ UNCHANGED serving
  /\ UNCHANGED <<db, prepared>>

NoCheckTimeout ==                  \* mutant: a check has no timeout
  /\ loop = "check" /\ db = "down"
  /\ loop' = "sleep" /\ ready' = FALSE /\ serving' = TRUE
  /\ UNCHANGED <<db, initialized, prepared, catalog>>
CheckFails ==
  /\ \/ loop = "check" /\ db = "down"
     \/ loop = "checkStuck"          \* timeout
  /\ loop' = "sleep" /\ ready' = FALSE /\ serving' = TRUE
  /\ UNCHANGED <<db, initialized, prepared, catalog>>

NoWarmUpTimeout ==                 \* mutant: the warm-up has no timeout
  /\ loop = "warm" /\ pc[WarmUp] \in Ended
  /\ loop' = "sleep" /\ prepared' = TRUE /\ serving' = TRUE
  /\ UNCHANGED <<db, ready, initialized, catalog>>
WarmUpEnds ==
  /\ loop = "warm"
  /\ IF pc[WarmUp] \in Ended THEN UNCHANGED catalog
                             ELSE Leave(WarmUp, "failed") /\ UNCHANGED snapshot  \* timeout
  /\ loop' = "sleep" /\ prepared' = TRUE /\ serving' = TRUE
  /\ UNCHANGED <<db, ready, initialized>>

(* The server has finished its requests; the loop is cancelled. *)
Shutdown ==
  /\ serving /\ loop # "stopped" /\ \A q \in Queries : pc[q] \notin Busy
  /\ serving' = FALSE /\ loop' = "stopped"
  /\ IF pc[WarmUp] \in Busy THEN Leave(WarmUp, "failed") /\ UNCHANGED snapshot
                            ELSE UNCHANGED catalog
  /\ UNCHANGED <<db, ready, initialized, prepared>>

-----------------------------------------------------------------------------
(* A request passes the gate, and asks for the catalog some time later.    *)

Gate(q) ==
  /\ serving /\ pc[q] = "idle"
  /\ Become(q, IF ready THEN "admitted" ELSE "refused")
  /\ UNCHANGED <<db, loopVars, queue, holder, snapshot>>

AskCatalog(q) ==
  /\ pc[q] = "admitted"
  /\ GetOrLoad(q)
  /\ UNCHANGED <<db, loopVars>>

Cancel(q) ==                       \* the client goes away
  /\ pc[q] \in Busy
  /\ Leave(q, "failed")
  /\ UNCHANGED <<db, loopVars, snapshot>>

(* The database comes and goes; what it was asked before it hangs is lost. *)
DatabaseBecomes(state) ==
  /\ db # state /\ db' = state
  /\ loop' = IF state = "hung" /\ loop = "check" THEN "checkStuck" ELSE loop
  /\ pc' = [l \in Loaders |-> IF state = "hung" /\ pc[l] = "loading" THEN "stuck" ELSE pc[l]]
  /\ UNCHANGED <<serving, ready, initialized, prepared, queue, holder, snapshot>>

-----------------------------------------------------------------------------
Readiness == StartCheck \/ CheckSucceeds \/ CheckFails \/ WarmUpEnds
Load(l)   == LookAgain(l) \/ LoadEnds(l)
Next ==
  \/ Readiness \/ Shutdown
  \/ \E l \in Loaders : Load(l)
  \/ \E q \in Queries : Gate(q) \/ AskCatalog(q) \/ Cancel(q)
  \/ \E state \in {"up", "down", "hung"} : DatabaseBecomes(state)

(* Sleeps and timeouts end, the event loop resumes what can go on. *)
Fairness ==
  /\ WF_vars(Readiness)
  /\ \A l \in Loaders : WF_vars(Load(l))
  /\ \A q \in Queries : WF_vars(AskCatalog(q))
Spec     == Init /\ [][Next]_vars
FairSpec == Spec /\ Fairness

-----------------------------------------------------------------------------
(* A catalog once loaded is never replaced: the warm-up and queries that   *)
(* found none together share one load, and later ones see the same tables. *)
SnapshotIsFinal == [][snapshot # None => snapshot' = snapshot]_vars

(* The service notices by itself that the database is back for good, and   *)
(* that it has gone for good.                                              *)
RecoveryNoticed == <>[](db = "up") => <>[](ready \/ loop = "stopped")
OutageNoticed   == <>[](db # "up") => <>[](~ready \/ loop = "stopped")
StatusFollowsDatabase == RecoveryNoticed /\ OutageNoticed

(* As long as no query's own load is lost, every query that asks for the   *)
(* catalog gets an answer: a warm-up that hangs cannot block them.         *)
QueryAnswered ==
  [](\A q \in Queries : pc[q] # "stuck")
    => \A q \in Queries : pc[q] = "admitted" ~> pc[q] \in Ended

=============================================================================
