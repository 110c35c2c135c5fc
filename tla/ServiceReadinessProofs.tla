----------------------- MODULE ServiceReadinessProofs -----------------------
(***************************************************************************)
(* Proofs about ServiceReadiness for any set of queries: the second look   *)
(* under the lock makes the catalog's load happen once.  Who waits in line *)
(* and in which order does not matter, only that whoever is past the lock  *)
(* holds it.                                                               *)
(***************************************************************************)
EXTENDS ServiceReadiness, ServiceUpdate, SequenceTheorems, TLAPS

PastLock == {"locked"} \cup Loading

(* The load lock excludes: a request that a cancellation or a timeout has  *)
(* taken out of get_or_load is past the lock no more, and whoever got the  *)
(* lock uses it.                                                           *)
LockExcludes ==
  /\ \A l \in Loaders : pc[l] \in PastLock => holder = l
  /\ holder # None => pc[holder] \in PastLock

(* Nobody waits twice.                                                     *)
LineHasNoDoubles == \A i, j \in 1..Len(queue) : queue[i] = queue[j] => i = j

(* Nobody loads a catalog that is there.                                   *)
LoadsMissing == snapshot # None => \A l \in Loaders : pc[l] \notin Loading

(* The warm-up starts once, with the first good check.                     *)
WarmsOnce ==
  /\ loop \in {"check", "checkStuck", "sleep"} /\ ~prepared => pc[WarmUp] = "idle"
  /\ loop = "warm" => pc[WarmUp] # "idle"

(* The users of the catalog and the lock they share.                       *)
Line ==
  /\ pc \in [Loaders -> {"idle"} \cup Busy \cup Ended]
  /\ queue \in Seq(Loaders) /\ \A l \in Loaders : Contains(queue, l) <=> pc[l] = "waiting"
  /\ holder \in Loaders \cup {None}
  /\ LockExcludes /\ LineHasNoDoubles

IInv == TypeOK /\ LockExcludes /\ LineHasNoDoubles /\ LoadsMissing /\ WarmsOnce

-----------------------------------------------------------------------------
(* The line without its first member.                                      *)
LEMMA Served ==
  ASSUME NEW S, NEW line \in Seq(S), line # << >>,
         \A i, j \in 1..Len(line) : line[i] = line[j] => i = j
  PROVE  /\ Head(line) \in S /\ Contains(line, Head(line))
         /\ Tail(line) \in Seq(S)
         /\ \A i, j \in 1..Len(Tail(line)) : Tail(line)[i] = Tail(line)[j] => i = j
         /\ \A x : Contains(Tail(line), x) <=> Contains(line, x) /\ x # Head(line)
<1>1. /\ Head(line) = line[1] /\ 1 \in 1..Len(line) /\ Len(line) \in Nat
      /\ Tail(line) \in Seq(S) /\ Len(Tail(line)) = Len(line) - 1
      /\ \A i \in 1..Len(Tail(line)) : Tail(line)[i] = line[i + 1] /\ i + 1 \in 1..Len(line)
  OBVIOUS
<1>2. ASSUME NEW i \in 1..Len(line), i # 1
      PROVE  i - 1 \in 1..Len(Tail(line)) /\ Tail(line)[i - 1] = line[i]
  BY <1>1, <1>2
<1>3. \A x : Contains(Tail(line), x) => Contains(line, x) /\ x # Head(line)
  BY <1>1 DEF Contains
<1>4. \A x : Contains(line, x) /\ x # Head(line) => Contains(Tail(line), x)
  BY <1>1, <1>2 DEF Contains
<1>5. \A i, j \in 1..Len(Tail(line)) : Tail(line)[i] = Tail(line)[j] => i = j
  BY <1>1
<1>. QED
  BY <1>1, <1>3, <1>4, <1>5 DEF Contains

(* The line with one more at its end.                                      *)
LEMMA Joined ==
  ASSUME NEW S, NEW line \in Seq(S), NEW e \in S, ~Contains(line, e),
         \A i, j \in 1..Len(line) : line[i] = line[j] => i = j
  PROVE  /\ Append(line, e) \in Seq(S)
         /\ \A i, j \in 1..Len(Append(line, e)) : Append(line, e)[i] = Append(line, e)[j] => i = j
         /\ \A x : Contains(Append(line, e), x) <=> Contains(line, x) \/ x = e
<1>1. /\ Append(line, e) \in Seq(S) /\ Len(Append(line, e)) = Len(line) + 1 /\ Len(line) \in Nat
      /\ \A i \in 1..Len(line) : Append(line, e)[i] = line[i] /\ i \in 1..Len(line) + 1
      /\ Append(line, e)[Len(line) + 1] = e /\ Len(line) + 1 \in 1..Len(line) + 1
      /\ \A i \in 1..Len(line) + 1 : i \in 1..Len(line) \/ i = Len(line) + 1
  OBVIOUS
<1>2. \A i \in 1..Len(line) : line[i] # e
  BY DEF Contains
<1>. QED
  BY <1>1, <1>2 DEF Contains

(* The line without one of its members.                                    *)
LEMMA Removed ==
  ASSUME NEW S, NEW line \in Seq(S), NEW e,
         \A i, j \in 1..Len(line) : line[i] = line[j] => i = j
  PROVE  /\ RemoveFirst(line, e) \in Seq(S)
         /\ \A i, j \in 1..Len(RemoveFirst(line, e)) :
              RemoveFirst(line, e)[i] = RemoveFirst(line, e)[j] => i = j
         /\ \A x : Contains(RemoveFirst(line, e), x) <=> Contains(line, x) /\ x # e
<1>1. CASE \E i \in 1..Len(line) : line[i] = e
  <2>1. PICK k \in 1..Len(line) : line[k] = e
    BY <1>1
  <2>2. {i \in 1..Len(line) : line[i] = e} = {k}
    BY <2>1
  <2>3. Min({k}) = k
    BY <2>1 DEF Min
  <2>4. RemoveFirst(line, e) = SubSeq(line, 1, k - 1) \o SubSeq(line, k + 1, Len(line))
    BY <1>1, <2>2, <2>3 DEF RemoveFirst, RemoveAt, SelectInSeq
  <2> DEFINE rest == SubSeq(line, 1, k - 1) \o SubSeq(line, k + 1, Len(line))
  <2>5. /\ rest \in Seq(S) /\ Len(rest) = Len(line) - 1 /\ Len(line) \in Nat /\ k \in Nat
        /\ \A i \in 1..Len(line) - 1 : rest[i] = IF i < k THEN line[i] ELSE line[i + 1]
    <3> DEFINE head == SubSeq(line, 1, k - 1)
               after  == SubSeq(line, k + 1, Len(line))
    <3>1. Len(line) \in Nat /\ k \in Nat /\ 1 <= k /\ k <= Len(line)
      OBVIOUS
    <3>2. /\ head \in Seq(S) /\ Len(head) = k - 1
          /\ \A i \in 1..k - 1 : head[i] = line[i]
      BY <3>1
    <3>3. /\ after \in Seq(S) /\ Len(after) = Len(line) - k
          /\ \A i \in 1..Len(line) - k : after[i] = line[k + i]
      BY <3>1
    <3> HIDE DEF head, after
    <3>4. /\ head \o after \in Seq(S) /\ Len(head \o after) = Len(line) - 1
          /\ \A i \in 1..Len(line) - 1 :
               (head \o after)[i] = IF i < k THEN head[i] ELSE after[i - (k - 1)]
      <4>1. /\ head \o after \in Seq(S) /\ Len(head \o after) = Len(head) + Len(after)
            /\ \A i \in 1..Len(head) + Len(after) :
                 (head \o after)[i] = IF i <= Len(head) THEN head[i] ELSE after[i - Len(head)]
        <5>1. head \in Seq(S) /\ after \in Seq(S)
          BY <3>2, <3>3
        <5>. QED
          BY ONLY <5>1, ConcatProperties, Zenon
      <4>2. Len(head) + Len(after) = Len(line) - 1
        BY <3>1, <3>2, <3>3
      <4>3. \A i \in 1..Len(line) - 1 : i <= Len(head) <=> i < k
        BY <3>1, <3>2
      <4>. QED
        BY <3>2, <4>1, <4>2, <4>3
    <3>5. ASSUME NEW i \in 1..Len(line) - 1
          PROVE  (head \o after)[i] = IF i < k THEN line[i] ELSE line[i + 1]
      <4>1. CASE i < k
        BY <3>1, <3>2, <3>4, <4>1
      <4>2. CASE ~(i < k)
        <5>1. i - (k - 1) \in 1..Len(line) - k /\ k + (i - (k - 1)) = i + 1
          BY <3>1, <4>2
        <5>. QED
          BY <3>3, <3>4, <4>2, <5>1
      <4>. QED
        BY <4>1, <4>2
    <3>. QED
      BY <3>1, <3>4, <3>5 DEF head, after
  <2> HIDE DEF rest
  <2>k. Len(line) \in Nat /\ k \in 1..Len(line)
    OBVIOUS
  <2>6. ASSUME NEW i \in 1..Len(rest), NEW j \in 1..Len(rest), rest[i] = rest[j]
        PROVE  i = j
    <3>1. i \in 1..Len(line) - 1 /\ j \in 1..Len(line) - 1
      BY <2>5
    <3>2. PICK m \in 1..Len(line) : rest[i] = line[m] /\ m = IF i < k THEN i ELSE i + 1
      BY <2>k, <2>5, <3>1
    <3>3. PICK n \in 1..Len(line) : rest[j] = line[n] /\ n = IF j < k THEN j ELSE j + 1
      BY <2>k, <2>5, <3>1
    <3>4. m = n
      BY <2>6, <3>2, <3>3
    <3>. QED
      BY <2>k, <3>1, <3>2, <3>3, <3>4
  <2>7. ASSUME NEW i \in 1..Len(rest) PROVE rest[i] # e
    <3>1. i \in 1..Len(line) - 1
      BY <2>5
    <3>2. PICK m \in 1..Len(line) : rest[i] = line[m] /\ m # k
      BY <2>k, <2>5, <3>1
    <3>. QED
      BY <2>1, <3>2
  <2>8. \A x : Contains(rest, x) => Contains(line, x) /\ x # e
    BY <2>5, <2>7 DEF Contains
  <2>9. ASSUME NEW x, Contains(line, x), x # e PROVE Contains(rest, x)
    <3>1. PICK i \in 1..Len(line) : line[i] = x
      BY <2>9 DEF Contains
    <3>2. CASE i < k
      BY <2>1, <2>5, <3>1, <3>2 DEF Contains
    <3>3. CASE i > k
      <4>1. i - 1 \in 1..Len(rest) /\ rest[i - 1] = x
        BY <2>1, <2>5, <3>1, <3>3
      <4>. QED
        BY <4>1 DEF Contains
    <3>. QED
      BY <2>1, <2>9, <3>1, <3>2, <3>3
  <2>. QED
    BY <2>4, <2>5, <2>6, <2>8, <2>9 DEF rest
<1>2. CASE ~\E i \in 1..Len(line) : line[i] = e
  BY <1>2 DEF RemoveFirst, Contains
<1>. QED
  BY <1>1, <1>2

-----------------------------------------------------------------------------
(* Leaving get_or_load hands the lock on and starts no load.               *)
LEMMA LeaveKeeps ==
  ASSUME Line, NEW l \in Loaders, NEW result \in Ended, Leave(l, result)
  PROVE  /\ Line'
         /\ pc'[l] = result
         /\ \A m \in Loaders \ {l} : pc'[m] = pc[m] \/ (pc[m] = "waiting" /\ pc'[m] = "locked")
<1> USE DEF LockExcludes, PastLock, Loading, Ended, Busy
<1>0. /\ None \notin Loaders
      /\ pc \in [Loaders -> {"idle"} \cup Busy \cup Ended] /\ queue \in Seq(Loaders)
      /\ \A m \in Loaders : Contains(queue, m) <=> pc[m] = "waiting"
      /\ LineHasNoDoubles
  BY ReadinessAssumption DEF Line, Loaders
<1>1. CASE holder = l /\ queue = << >>
  <2>1. /\ queue' = queue /\ holder' = None
        /\ pc' = [m \in Loaders |-> IF m = l THEN result ELSE pc[m]]
    BY <1>1 DEF Leave, LeaveLocked
  <2>2. \A m \in Loaders : m # l => pc[m] \notin PastLock
    BY <1>1 DEF Line
  <2>3. pc[l] # "waiting"
    BY <1>0, <1>1 DEF Line
  <2>4. LineHasNoDoubles'
    BY <1>0, <2>1 DEF LineHasNoDoubles
  <2>5. /\ pc' \in [Loaders -> {"idle"} \cup Busy \cup Ended]
        /\ queue' \in Seq(Loaders) /\ holder' \in Loaders \cup {None}
    BY <1>0, <2>1
  <2>6. \A m \in Loaders : Contains(queue', m) <=> pc'[m] = "waiting"
    BY <1>0, <2>1, <2>3
  <2>7. LockExcludes'
    BY <1>0, <2>1, <2>2
  <2>8. Line'
    BY <2>4, <2>5, <2>6, <2>7 DEF Line
  <2>. QED
    BY <1>0, <2>1, <2>8
<1>2. CASE holder = l /\ queue # << >>
  <2> DEFINE next == Head(queue)
  <2>1. /\ queue' = Tail(queue) /\ holder' = next
        /\ pc' = [m \in Loaders |-> IF m = l THEN result ELSE IF m = next THEN "locked" ELSE pc[m]]
    BY <1>2 DEF Leave, LeaveLocked
  <2>2. /\ next \in Loaders /\ Contains(queue, next)
        /\ queue' \in Seq(Loaders) /\ LineHasNoDoubles'
        /\ \A m : Contains(queue', m) <=> Contains(queue, m) /\ m # next
    BY <1>0, <1>2, <2>1, Served DEF LineHasNoDoubles
  <2> HIDE DEF next
  <2>3. \A m \in Loaders : m # l => pc[m] \notin PastLock
    BY <1>2 DEF Line
  <2>4. pc[next] = "waiting" /\ pc[l] # "waiting"
    BY <1>0, <1>2, <2>2 DEF Line
  <2>5. /\ pc' \in [Loaders -> {"idle"} \cup Busy \cup Ended] /\ holder' \in Loaders \cup {None}
    BY <1>0, <2>1, <2>2
  <2>6. \A m \in Loaders : Contains(queue', m) <=> pc'[m] = "waiting"
    BY <1>0, <2>1, <2>2, <2>4
  <2>7. LockExcludes'
    BY <1>0, <2>1, <2>2, <2>3, <2>4
  <2>8. Line'
    BY <2>2, <2>5, <2>6, <2>7 DEF Line
  <2>. QED
    BY <1>0, <2>1, <2>4, <2>8
<1>3. CASE holder # l
  <2>1. pc' = [pc EXCEPT ![l] = result] /\ queue' = RemoveFirst(queue, l) /\ holder' = holder
    BY <1>3 DEF Leave, LeaveLine, Become
  <2>2. /\ queue' \in Seq(Loaders) /\ LineHasNoDoubles'
        /\ \A m : Contains(queue', m) <=> Contains(queue, m) /\ m # l
    BY <1>0, <2>1, Removed DEF LineHasNoDoubles
  <2>3. pc[l] \notin PastLock
    BY <1>3 DEF Line
  <2>5. /\ pc' \in [Loaders -> {"idle"} \cup Busy \cup Ended] /\ holder' \in Loaders \cup {None}
    BY <1>0, <2>1 DEF Line
  <2>6. \A m \in Loaders : Contains(queue', m) <=> pc'[m] = "waiting"
    BY <1>0, <2>1, <2>2
  <2>7. LockExcludes'
    BY <1>0, <1>3, <2>1, <2>3 DEF Line
  <2>8. Line'
    BY <2>2, <2>5, <2>6, <2>7 DEF Line
  <2>. QED
    BY <1>0, <2>1, <2>8
<1>. QED
  BY <1>1, <1>2, <1>3

(* Who leaves has asked for the catalog before, in the line or past it.    *)
LEMMA LeaverStarted ==
  ASSUME Line, NEW l \in Loaders, pc[l] # "idle", NEW result \in Ended, Leave(l, result)
  PROVE  \A m \in Loaders : pc'[m] = "idle" <=> pc[m] = "idle"
BY LeaveKeeps DEF Ended

(* Asking for the catalog takes the lock, waits for it or needs neither.   *)
LEMMA AskKeeps ==
  ASSUME Line, NEW l \in Loaders, pc[l] \in {"idle", "admitted"}, GetOrLoad(l)
  PROVE  /\ Line'
         /\ \A m \in Loaders \ {l} : pc'[m] = pc[m]
         /\ pc'[l] \in {"served", "locked", "waiting"}
<1> USE DEF LockExcludes, PastLock, Loading, Ended, Busy, GetOrLoad, Become
<1>0. /\ None \notin Loaders
      /\ pc \in [Loaders -> {"idle"} \cup Busy \cup Ended] /\ queue \in Seq(Loaders)
      /\ \A m \in Loaders : Contains(queue, m) <=> pc[m] = "waiting"
      /\ LineHasNoDoubles /\ ~Contains(queue, l) /\ holder # l
  BY ReadinessAssumption DEF Line, Loaders
<1>1. CASE snapshot # None
  <2>1. pc' = [pc EXCEPT ![l] = "served"] /\ UNCHANGED <<queue, holder>>
    BY <1>1
  <2>2. LineHasNoDoubles'
    BY <1>0, <2>1 DEF LineHasNoDoubles
  <2>. QED
    BY <1>0, <2>1, <2>2 DEF Line, Contains
<1>2. CASE snapshot = None /\ holder = None
  <2>1. pc' = [pc EXCEPT ![l] = "locked"] /\ holder' = l /\ UNCHANGED queue
    BY <1>2
  <2>2. \A m \in Loaders : pc[m] \notin PastLock
    BY <1>0, <1>2 DEF Line
  <2>3. LineHasNoDoubles'
    BY <1>0, <2>1 DEF LineHasNoDoubles
  <2>. QED
    BY <1>0, <2>1, <2>2, <2>3 DEF Line, Contains
<1>3. CASE snapshot = None /\ holder # None
  <2>1. pc' = [pc EXCEPT ![l] = "waiting"] /\ queue' = Append(queue, l) /\ UNCHANGED holder
    BY <1>3
  <2>2. /\ queue' \in Seq(Loaders) /\ LineHasNoDoubles'
        /\ \A m : Contains(queue', m) <=> Contains(queue, m) \/ m = l
    BY <1>0, <2>1, Joined DEF LineHasNoDoubles
  <2>. QED
    BY <1>0, <2>1, <2>2 DEF Line
<1>. QED
  BY <1>1, <1>2, <1>3

(* Nobody uses the catalog yet, and none is loaded.                        *)
LEMMA IInvInit == Init => IInv
<1> SUFFICES ASSUME Init PROVE IInv
  OBVIOUS
<1>1. pc = [l \in Loaders |-> "idle"] /\ queue = << >> /\ holder = None
  BY DEF Init
<1>2. LineHasNoDoubles /\ LockExcludes /\ LoadsMissing /\ WarmsOnce
  BY <1>1 DEF Init, LineHasNoDoubles, LockExcludes, LoadsMissing, WarmsOnce, PastLock, Loading, Loaders
<1>3. \A l \in Loaders : Contains(queue, l) <=> pc[l] = "waiting"
  BY <1>1 DEF Contains
<1>4. queue \in Seq(Loaders) /\ pc \in [Loaders -> {"idle"} \cup Busy \cup Ended]
  BY <1>1
<1>5. loop \in {"check", "checkStuck"} /\ snapshot = None /\ db \in {"up", "down", "hung"}
  BY DEF Init
<1>6. TypeOK
  BY <1>1, <1>3, <1>4, <1>5 DEF Init, TypeOK
<1>. QED
  BY <1>2, <1>6 DEF IInv

(* A step of the readiness loop alone.                                     *)
LEMMA LoopKeeps ==
  ASSUME IInv, UNCHANGED catalog, TypeOK', WarmsOnce'
  PROVE  IInv'
BY DEF catalog, IInv, LockExcludes, LineHasNoDoubles, LoadsMissing, PastLock

(* A step that leaves get_or_load.                                         *)
LEMMA LeaveStep ==
  ASSUME IInv, NEW l \in Loaders, pc[l] # "idle", NEW result \in Ended, Leave(l, result),
         UNCHANGED <<db, snapshot>>, serving' \in BOOLEAN,
         loop' \in {"check", "checkStuck", "warm", "sleep", "stopped"},
         ready' \in BOOLEAN, initialized' \in BOOLEAN, prepared' \in BOOLEAN, WarmsOnce'
  PROVE  IInv'
<1>1. Line
  BY DEF IInv, TypeOK, Line
<1>2. Line' /\ \A m \in Loaders : pc'[m] \in Loading => pc[m] \in Loading
  BY <1>1, LeaveKeeps DEF Loading, Ended
<1>3. LoadsMissing'
  BY <1>2 DEF IInv, LoadsMissing
<1>4. TypeOK'
  BY <1>2 DEF IInv, TypeOK, Line
<1>. QED
  BY <1>2, <1>3, <1>4 DEF IInv, Line

(* A step that asks for the catalog.                                       *)
LEMMA AskStep ==
  ASSUME IInv, NEW l \in Loaders, pc[l] \in {"idle", "admitted"}, GetOrLoad(l),
         UNCHANGED db, serving' \in BOOLEAN,
         loop' \in {"check", "checkStuck", "warm", "sleep", "stopped"},
         ready' \in BOOLEAN, initialized' \in BOOLEAN, prepared' \in BOOLEAN, WarmsOnce'
  PROVE  IInv'
<1>1. Line
  BY DEF IInv, TypeOK, Line
<1>2. Line' /\ \A m \in Loaders : pc'[m] \in Loading => pc[m] \in Loading
  BY <1>1, AskKeeps DEF Loading
<1>3. snapshot' = snapshot
  BY DEF GetOrLoad
<1>4. LoadsMissing'
  BY <1>2, <1>3 DEF IInv, LoadsMissing
<1>5. TypeOK'
  BY <1>2, <1>3 DEF IInv, TypeOK, Line
<1>. QED
  BY <1>2, <1>4, <1>5 DEF IInv, Line

(* A step of one user of the catalog that is past the lock, or outside,    *)
(* and stays there.                                                        *)
LEMMA StayStep ==
  ASSUME IInv, pc' \in [Loaders -> {"idle"} \cup Busy \cup Ended],
         \A m \in Loaders : \/ pc'[m] = pc[m]
                            \/ pc[m] \in PastLock /\ pc'[m] \in PastLock
                            \/ /\ pc[m] \notin PastLock \cup {"waiting"}
                               /\ pc'[m] \notin PastLock \cup {"waiting"},
         UNCHANGED <<queue, holder, snapshot>>,
         snapshot # None => \A m \in Loaders : pc'[m] \in Loading => pc[m] \in Loading,
         db' \in {"up", "down", "hung"}, serving' \in BOOLEAN,
         loop' \in {"check", "checkStuck", "warm", "sleep", "stopped"},
         ready' \in BOOLEAN, initialized' \in BOOLEAN, prepared' \in BOOLEAN, WarmsOnce'
  PROVE  IInv'
<1>1. \A m \in Loaders : /\ pc'[m] \in PastLock <=> pc[m] \in PastLock
                         /\ pc'[m] = "waiting" <=> pc[m] = "waiting"
  BY DEF PastLock, Loading
<1>2. LockExcludes'
  BY <1>1 DEF IInv, TypeOK, LockExcludes
<1>3. LineHasNoDoubles'
  BY DEF IInv, LineHasNoDoubles
<1>4. LoadsMissing'
  BY DEF IInv, LoadsMissing
<1>5. TypeOK'
  BY <1>1 DEF IInv, TypeOK
<1>. QED
  BY <1>2, <1>3, <1>4, <1>5 DEF IInv

(* Every step of the loop, the queries and the database keeps the          *)
(* invariant.                                                              *)
LEMMA IInvStep == IInv /\ [Next]_vars => IInv'
<1> SUFFICES ASSUME IInv, [Next]_vars PROVE IInv'
  OBVIOUS
<1>0. /\ WarmUp \in Loaders /\ Queries \subseteq Loaders /\ WarmUp \notin Queries
      /\ TypeOK /\ LoadsMissing /\ WarmsOnce
  BY ReadinessAssumption DEF Loaders, IInv
<1>a. ASSUME UNCHANGED <<db, loopVars>>, pc'[WarmUp] = "idle" <=> pc[WarmUp] = "idle"
      PROVE  /\ UNCHANGED db /\ serving' \in BOOLEAN
             /\ loop' \in {"check", "checkStuck", "warm", "sleep", "stopped"}
             /\ ready' \in BOOLEAN /\ initialized' \in BOOLEAN /\ prepared' \in BOOLEAN /\ WarmsOnce'
  BY <1>0, <1>a DEF loopVars, WarmsOnce, TypeOK
<1>1. CASE StartCheck
  <2>1. TypeOK' /\ WarmsOnce'
    BY <1>0, <1>1 DEF StartCheck, Sent, catalog, TypeOK, WarmsOnce
  <2>. QED
    BY <1>1, <2>1, LoopKeeps DEF StartCheck
<1>2. CASE CheckSucceeds
  <2>1. CASE prepared
    <3>1. TypeOK' /\ WarmsOnce' /\ UNCHANGED catalog
      BY <1>0, <1>2, <2>1 DEF CheckSucceeds, catalog, TypeOK, WarmsOnce
    <3>. QED
      BY <3>1, LoopKeeps
  <2>2. CASE ~prepared
    <3>1. pc[WarmUp] = "idle" /\ GetOrLoad(WarmUp) /\ loop' = "warm"
      BY <1>0, <1>2, <2>2 DEF CheckSucceeds, WarmsOnce
    <3>2. UNCHANGED <<db, serving, prepared>> /\ ready' = TRUE /\ initialized' = TRUE
      BY <1>2, <2>2 DEF CheckSucceeds
    <3>3. WarmsOnce'
      BY <1>0, <3>1, AskKeeps DEF WarmsOnce, IInv, TypeOK, Line
    <3>. QED
      BY <1>0, <3>1, <3>2, <3>3, AskStep DEF TypeOK
  <2>. QED
    BY <2>1, <2>2
<1>3. CASE CheckFails
  <2>1. TypeOK' /\ WarmsOnce' /\ UNCHANGED catalog
    BY <1>0, <1>3 DEF CheckFails, catalog, TypeOK, WarmsOnce
  <2>. QED
    BY <2>1, LoopKeeps
<1>4. CASE WarmUpEnds
  <2>1. /\ UNCHANGED <<db, ready, initialized>> /\ loop' = "sleep" /\ serving' = TRUE
        /\ prepared' = TRUE /\ WarmsOnce'
    BY <1>4 DEF WarmUpEnds, WarmsOnce
  <2>2. CASE pc[WarmUp] \in Ended
    <3>1. TypeOK' /\ UNCHANGED catalog
      BY <1>0, <1>4, <2>1, <2>2 DEF WarmUpEnds, catalog, TypeOK
    <3>. QED
      BY <2>1, <3>1, LoopKeeps
  <2>3. CASE pc[WarmUp] \notin Ended
    <3>1. Leave(WarmUp, "failed") /\ UNCHANGED snapshot
      BY <1>4, <2>3 DEF WarmUpEnds
    <3>2. pc[WarmUp] # "idle"
      BY <1>0, <1>4 DEF WarmUpEnds, WarmsOnce
    <3>. QED
      BY <1>0, <2>1, <3>1, <3>2, LeaveStep DEF TypeOK, Ended
  <2>. QED
    BY <2>2, <2>3
<1>5. CASE Shutdown
  <2>1. /\ UNCHANGED <<db, ready, initialized, prepared>> /\ loop' = "stopped" /\ serving' = FALSE
        /\ WarmsOnce'
    BY <1>5 DEF Shutdown, WarmsOnce
  <2>2. CASE pc[WarmUp] \in Busy
    <3>1. Leave(WarmUp, "failed") /\ UNCHANGED snapshot /\ pc[WarmUp] # "idle"
      BY <1>5, <2>2 DEF Shutdown, Busy, Loading
    <3>. QED
      BY <1>0, <2>1, <3>1, LeaveStep DEF TypeOK, Ended
  <2>3. CASE pc[WarmUp] \notin Busy
    <3>1. TypeOK' /\ UNCHANGED catalog
      BY <1>0, <1>5, <2>1, <2>3 DEF Shutdown, catalog, TypeOK
    <3>. QED
      BY <2>1, <3>1, LoopKeeps
  <2>. QED
    BY <2>2, <2>3
<1>6. ASSUME NEW l \in Loaders, LookAgain(l) PROVE IInv'
  <2>1. pc[l] = "locked" /\ UNCHANGED <<db, loopVars, snapshot>>
    BY <1>6 DEF LookAgain
  <2>2. CASE snapshot # None
    <3>1. Leave(l, "served")
      BY <1>6, <2>2 DEF LookAgain
    <3>2. pc'[WarmUp] = "idle" <=> pc[WarmUp] = "idle"
      BY <1>0, <2>1, <3>1, LeaverStarted DEF Line, IInv, TypeOK, Ended
    <3>. QED
      BY <1>a, <2>1, <3>1, <3>2, LeaveStep DEF Ended
  <2>3. CASE snapshot = None
    <3>1. /\ \E next \in Loading : pc' = [pc EXCEPT ![l] = next]
          /\ UNCHANGED <<queue, holder>>
      BY <1>6, <2>3 DEF LookAgain, Become, Sent, Loading
    <3>2. pc \in [Loaders -> {"idle"} \cup Busy \cup Ended]
      BY <1>0 DEF TypeOK
    <3>3. /\ pc' \in [Loaders -> {"idle"} \cup Busy \cup Ended]
          /\ \A m \in Loaders : pc'[m] = pc[m] \/ (pc[m] \in PastLock /\ pc'[m] \in PastLock)
          /\ pc'[WarmUp] = "idle" <=> pc[WarmUp] = "idle"
      BY <1>0, <2>1, <3>1, <3>2 DEF PastLock, Busy, Loading
    <3>. QED
      BY <1>0, <1>a, <2>1, <2>3, <3>1, <3>3, StayStep DEF TypeOK
  <2>. QED
    BY <2>2, <2>3
<1>7. ASSUME NEW l \in Loaders, LoadEnds(l) PROVE IInv'
  <2>1. pc[l] = "loading" /\ UNCHANGED <<db, loopVars>> /\ Line
    BY <1>7 DEF LoadEnds, IInv, TypeOK, Line
  <2>2. CASE snapshot' = l /\ Leave(l, "served")
    <3>1. \A m \in Loaders : pc[m] \in Loading => m = l
      BY <2>1 DEF IInv, LockExcludes, PastLock, Loading
    <3>2. /\ Line' /\ pc'[l] = "served"
          /\ \A m \in Loaders \ {l} : pc'[m] = pc[m] \/ (pc[m] = "waiting" /\ pc'[m] = "locked")
      BY <2>1, <2>2, LeaveKeeps DEF Ended
    <3>3. LoadsMissing'
      BY <3>1, <3>2 DEF LoadsMissing, Loading
    <3>4. WarmsOnce'
      BY <1>0, <1>a, <2>1, <2>2, LeaverStarted DEF Ended
    <3>5. TypeOK'
      BY <1>0, <2>1, <2>2, <3>2 DEF TypeOK, Line, loopVars
    <3>. QED
      BY <3>2, <3>3, <3>4, <3>5 DEF IInv, Line
  <2>3. CASE UNCHANGED snapshot /\ Leave(l, "failed")
    <3>1. pc'[WarmUp] = "idle" <=> pc[WarmUp] = "idle"
      BY <1>0, <2>1, <2>3, LeaverStarted DEF Ended
    <3>. QED
      BY <1>a, <2>1, <2>3, <3>1, LeaveStep DEF Ended
  <2>. QED
    BY <1>7, <2>2, <2>3 DEF LoadEnds
<1>8. ASSUME NEW q \in Queries, Gate(q) PROVE IInv'
  <2>1. /\ pc[q] = "idle" /\ UNCHANGED <<db, loopVars, queue, holder, snapshot>>
        /\ pc' = [pc EXCEPT ![q] = IF ready THEN "admitted" ELSE "refused"]
    BY <1>8 DEF Gate, Become
  <2>2. pc \in [Loaders -> {"idle"} \cup Busy \cup Ended]
    BY <1>0 DEF TypeOK
  <2>3. /\ pc' \in [Loaders -> {"idle"} \cup Busy \cup Ended]
        /\ \A m \in Loaders : \/ pc'[m] = pc[m]
                              \/ pc[m] = "idle" /\ pc'[m] \in {"admitted", "refused"}
        /\ pc'[WarmUp] = pc[WarmUp]
    <3> DEFINE next == IF ready THEN "admitted" ELSE "refused"
    <3>1. next \in {"admitted", "refused"} /\ pc' = [pc EXCEPT ![q] = next]
      BY <2>1
    <3> HIDE DEF next
    <3>. QED
      BY <1>0, <2>1, <2>2, <3>1 DEF Busy, Ended
  <2>4. \A m \in Loaders : \/ pc'[m] = pc[m]
                           \/ /\ pc[m] \notin PastLock \cup {"waiting"}
                              /\ pc'[m] \notin PastLock \cup {"waiting"}
    BY <2>3 DEF PastLock, Loading
  <2>5. \A m \in Loaders : pc'[m] \in Loading => pc[m] \in Loading
    BY <2>3 DEF Loading
  <2>. QED
    BY <1>0, <1>a, <2>1, <2>3, <2>4, <2>5, StayStep DEF TypeOK
<1>9. ASSUME NEW q \in Queries, AskCatalog(q) PROVE IInv'
  <2>1. pc[q] = "admitted" /\ GetOrLoad(q) /\ UNCHANGED <<db, loopVars>>
    BY <1>9 DEF AskCatalog
  <2>2. pc'[WarmUp] = pc[WarmUp]
    BY <1>0, <2>1, AskKeeps DEF IInv, TypeOK, Line
  <2>. QED
    BY <1>0, <1>a, <2>1, <2>2, AskStep
<1>10. ASSUME NEW q \in Queries, Cancel(q) PROVE IInv'
  <2>1. pc[q] # "idle" /\ Leave(q, "failed") /\ UNCHANGED <<db, loopVars, snapshot>>
    BY <1>10 DEF Cancel, Busy, Loading
  <2>2. pc'[WarmUp] = "idle" <=> pc[WarmUp] = "idle"
    BY <1>0, <2>1, LeaverStarted DEF IInv, TypeOK, Line, Ended
  <2>. QED
    BY <1>0, <1>a, <2>1, <2>2, LeaveStep DEF Ended
<1>11. ASSUME NEW state \in {"up", "down", "hung"}, DatabaseBecomes(state) PROVE IInv'
  <2>1. /\ db' = state /\ UNCHANGED <<serving, ready, initialized, prepared, queue, holder, snapshot>>
        /\ loop' = loop \/ (loop = "check" /\ loop' = "checkStuck")
        /\ pc' = [l \in Loaders |-> IF state = "hung" /\ pc[l] = "loading" THEN "stuck" ELSE pc[l]]
    BY <1>11 DEF DatabaseBecomes
  <2>2. /\ pc' \in [Loaders -> {"idle"} \cup Busy \cup Ended]
        /\ \A m \in Loaders : pc'[m] = pc[m] \/ (pc[m] \in Loading /\ pc'[m] \in Loading)
        /\ pc'[WarmUp] = "idle" <=> pc[WarmUp] = "idle"
    BY <1>0, <2>1 DEF TypeOK, Busy, Loading
  <2>3. WarmsOnce'
    BY <1>0, <2>1, <2>2 DEF WarmsOnce
  <2>. QED
    BY <1>0, <2>1, <2>2, <2>3, StayStep DEF TypeOK, PastLock
<1>12. CASE UNCHANGED vars
  <2>1. TypeOK' /\ WarmsOnce' /\ UNCHANGED catalog
    BY <1>0, <1>12 DEF vars, loopVars, catalog, TypeOK, WarmsOnce
  <2>. QED
    BY <2>1, LoopKeeps
<1>. QED
  BY <1>1, <1>2, <1>3, <1>4, <1>5, <1>6, <1>7, <1>8, <1>9, <1>10, <1>11, <1>12 DEF Next, Readiness, Load

-----------------------------------------------------------------------------
(* At most one user of the catalog is past the load lock, and it holds it, *)
(* however requests are cancelled, time out or lose their statements.      *)
THEOREM Excludes == Spec => []IInv
BY IInvInit, IInvStep, PTL DEF Spec

(* The line for the load lock is as long as it should be: whoever is in it *)
(* waits and whoever waits is in it, so nobody is forgotten.               *)
THEOREM TypeCorrect == Spec => []TypeOK
<1>1. IInv => TypeOK
  BY DEF IInv
<1>. QED
  BY <1>1, Excludes, PTL

(* A catalog once loaded is never replaced, for any number of queries.     *)
THEOREM LoadedOnce == Spec => SnapshotIsFinal
<1>1. IInv /\ [Next]_vars => [snapshot # None => snapshot' = snapshot]_vars
  <2> SUFFICES ASSUME IInv, [Next]_vars, snapshot # None PROVE snapshot' = snapshot
    OBVIOUS
  <2>1. \A l \in Loaders : ~LoadEnds(l)
    BY DEF LoadEnds, IInv, LoadsMissing, Loading
  <2>2. \A l : GetOrLoad(l) => snapshot' = snapshot
    BY DEF GetOrLoad
  <2>. QED
    BY <2>1, <2>2 DEF Next, Readiness, Load, StartCheck, CheckSucceeds, CheckFails, WarmUpEnds, Shutdown,
      LookAgain, Gate, AskCatalog, Cancel, DatabaseBecomes, vars, catalog
<1>. QED
  BY <1>1, Excludes, PTL DEF Spec, SnapshotIsFinal


-----------------------------------------------------------------------------
(***************************************************************************)
(* The update of the service: ServiceUpdate, for any number of items,      *)
(* releases, runs, reboots and restarts.  The invariants of Deploy are not *)
(* inductive: where the script is says what lies in which directory, and   *)
(* this is what the strengthening records.                                 *)
(***************************************************************************)

Replacing == Update!Swapping \cup {"started"}

(* A run that is going on has a number and a release, and its result file  *)
(* is empty; a run that replaces files has verified them.                  *)
RunKnown ==
  /\ step # "off" => run \in Update!Runs /\ release \in Releases /\ said = "nothing"
  /\ step \in {"verified"} \cup Replacing => Fails[release] = {}

(* Where the loop is, and what it has moved so far.                        *)
LoopKnown ==
  /\ step \in Update!Preparing => item = 1 /\ tree = before
  /\ step \in {"out", "in"} => item \in Update!Items
  /\ step \in {"swapped", "started"} => item = N + 1
  /\ step \in {"staged", "verified"} => \A j \in Update!Items : stage[j] = release
  /\ step \in Replacing => \A j \in Update!Items : IF j < item THEN tree[j] = release ELSE stage[j] = release
  /\ step = "in" => tree[item] = Absent

(* The backup of a run holds nothing yet of what the loop has not reached. *)
BackupFresh ==
  /\ \A r \in Update!Runs, i \in Update!Items : r > run => saved[r][i] = Absent
  /\ step \in Update!Preparing => \A i \in Update!Items : saved[run][i] = Absent
  /\ step = "out" => \A i \in Update!Items : i >= item => saved[run][i] = Absent
  /\ step = "in" => \A i \in Update!Items : i > item => saved[run][i] = Absent

Whole(t) == \E v \in Update!Versions : \A i \in Present : t[i] = v

(* While files move no process runs, unless the daemon has restarted; and  *)
(* what docker keeps up is whole, unless the host or the daemon has.       *)
ServiceKnown ==
  /\ restarts = 0 /\ step \in Update!Swapping => ~wanted /\ code = Absent
  /\ restarts = 0 /\ step = "started" /\ code # Absent => code = tree
  /\ reboots + restarts = 0 /\ wanted => Whole(tree)
  /\ reboots + restarts = 0 /\ code # Absent => Whole(code)

UpdateKnown == Update!TypeOK /\ RunKnown /\ LoopKnown
UpdateInv  == UpdateKnown /\ BackupFresh /\ Update!BackupsRestore /\ ServiceKnown /\ Update!ResultIsTrue

-----------------------------------------------------------------------------
(* What the steps of the script and of docker keep, part by part.          *)

(* The project before the first run.                                       *)
LEMMA UpdateInitKnown == Update!Init => UpdateKnown
BY UpdateAssumption DEF Update!DeployAssumption, Update!Init, UpdateKnown, Update!TypeOK, RunKnown, LoopKnown,
  Update!Trees, Update!Versions, Update!Empty, Update!OldTree,
  Update!Items, Update!Runs, Update!Preparing, Update!Swapping, Replacing

(* Every step keeps where the script and its files are.                    *)
LEMMA UpdateKnownStep == UpdateKnown /\ [Update!Next]_Update!vars => UpdateKnown'
<1> SUFFICES ASSUME UpdateKnown, [Update!Next]_Update!vars
             PROVE  UpdateKnown'
  OBVIOUS
<1> USE UpdateAssumption DEF Update!DeployAssumption, UpdateKnown, Update!TypeOK, RunKnown, LoopKnown,
  Update!Preparing, Update!Swapping, Replacing,
  Update!files, Update!script, Update!service, Update!bounds, Update!Items, Update!Runs
<1>1. ASSUME NEW r \in Releases, Update!Begin(r) PROVE UpdateKnown'
  BY <1>1 DEF Update!Begin, Update!Empty, Update!Trees
<1>2. CASE Update!Refuse
  BY <1>2 DEF Update!Refuse
<1>3. CASE Update!Unpack
  BY <1>3 DEF Update!Unpack, Update!Trees, Update!Versions
<1>4. CASE Update!Verify
  BY <1>4 DEF Update!Verify, Update!Passes
<1>5. CASE Update!StopService
  <2>1. Update!TypeOK'
    BY <1>5 DEF Update!StopService
  <2>2. RunKnown'
    BY <1>5 DEF Update!StopService
  <2>3. LoopKnown'
    BY <1>5 DEF Update!StopService
  <2> QED
    BY <2>1, <2>2, <2>3
<1>6. CASE Update!MoveOut
  BY <1>6 DEF Update!MoveOut, Update!Trees
<1>7. CASE Update!MoveIn
  BY <1>7 DEF Update!MoveIn, Update!Trees
<1>8. CASE Update!StartService
  BY <1>8 DEF Update!StartService
<1>9. CASE Update!PollHealth
  BY <1>9 DEF Update!PollHealth, Update!Polls
<1>10. CASE Update!CommandFails
  BY <1>10 DEF Update!CommandFails
<1>11. CASE Update!Killed
  BY <1>11 DEF Update!Killed
<1>12. CASE Update!ProcessStarts
  BY <1>12 DEF Update!ProcessStarts
<1>13. CASE Update!HostReboots
  BY <1>13 DEF Update!HostReboots
<1>14. CASE Update!DaemonRestarts
  BY <1>14 DEF Update!DaemonRestarts
<1>15. CASE UNCHANGED Update!vars
  BY <1>15 DEF Update!vars
<1>. QED
  BY <1>1, <1>2, <1>3, <1>4, <1>5, <1>6, <1>7, <1>8, <1>9, <1>10, <1>11, <1>12, <1>13, <1>14, <1>15
  DEF Update!Next, Update!Script

(* No backup is written twice.                                             *)
LEMMA BackupFreshStep == UpdateKnown /\ BackupFresh /\ [Update!Next]_Update!vars => BackupFresh'
<1> SUFFICES ASSUME UpdateKnown /\ BackupFresh, [Update!Next]_Update!vars
             PROVE  BackupFresh'
  OBVIOUS
<1> USE UpdateAssumption DEF Update!DeployAssumption, UpdateKnown, Update!TypeOK, RunKnown, LoopKnown,
  Update!Preparing, Update!Swapping, Replacing,
  Update!files, Update!script, Update!service, Update!bounds, Update!Items, Update!Runs,
    BackupFresh
<1>1. ASSUME NEW r \in Releases, Update!Begin(r) PROVE BackupFresh'
  BY <1>1 DEF Update!Begin, Update!Trees
<1>2. CASE Update!Refuse
  BY <1>2 DEF Update!Refuse
<1>3. CASE Update!Unpack
  BY <1>3 DEF Update!Unpack
<1>4. CASE Update!Verify
  BY <1>4 DEF Update!Verify
<1>5. CASE Update!StopService
  BY <1>5 DEF Update!StopService
<1>6. CASE Update!MoveOut
  BY <1>6 DEF Update!MoveOut, Update!Trees
<1>7. CASE Update!MoveIn
  BY <1>7 DEF Update!MoveIn, Update!Trees
<1>8. CASE Update!StartService
  BY <1>8 DEF Update!StartService
<1>9. CASE Update!PollHealth
  BY <1>9 DEF Update!PollHealth
<1>10. CASE Update!CommandFails
  BY <1>10 DEF Update!CommandFails
<1>11. CASE Update!Killed
  BY <1>11 DEF Update!Killed
<1>12. CASE Update!ProcessStarts
  BY <1>12 DEF Update!ProcessStarts
<1>13. CASE Update!HostReboots
  BY <1>13 DEF Update!HostReboots
<1>14. CASE Update!DaemonRestarts
  BY <1>14 DEF Update!DaemonRestarts
<1>15. CASE UNCHANGED Update!vars
  BY <1>15 DEF Update!vars
<1>. QED
  BY <1>1, <1>2, <1>3, <1>4, <1>5, <1>6, <1>7, <1>8, <1>9, <1>10, <1>11, <1>12, <1>13, <1>14, <1>15
  DEF Update!Next, Update!Script

(* Only the two moves touch the project or a backup.                        *)
LEMMA OnlyMovesTouchFiles ==
  [Update!Next]_Update!vars => Update!MoveOut \/ Update!MoveIn \/ UNCHANGED <<tree, saved>>
BY DEF Update!Next, Update!Script, Update!vars, Update!files, Update!service, Update!bounds,
  Update!script, Update!Begin, Update!Refuse, Update!Unpack, Update!Verify,
  Update!StopService,
  Update!StartService, Update!PollHealth, Update!CommandFails, Update!Killed,
    Update!ProcessStarts, Update!HostReboots, Update!DaemonRestarts

(* An old item leaves the project only into the backup of its run.         *)
LEMMA BackupsStep ==
  UpdateKnown /\ BackupFresh /\ Update!BackupsRestore /\ [Update!Next]_Update!vars => Update!BackupsRestore'
<1> SUFFICES ASSUME UpdateKnown, BackupFresh, Update!BackupsRestore, [Update!Next]_Update!vars
             PROVE  Update!BackupsRestore'
  OBVIOUS
<1> DEFINE First(i, r) == saved[r][i] # Absent /\ ~Update!SavedBefore(i, r) => saved[r][i] =
  Old
           Kept(i)     == (\A r \in Update!Runs : saved[r][i] = Absent) => tree[i] = Old
<1>0. /\ step # "off" => run \in Update!Runs
      /\ step \in {"out", "in"} => item \in Update!Items
      /\ tree \in [Update!Items -> Update!Versions \cup {Absent}]
      /\ saved \in [Update!Runs -> [Update!Items -> Update!Versions \cup {Absent}]]
  BY DEF UpdateKnown, Update!TypeOK, RunKnown, LoopKnown, Update!Trees
<1>1. CASE Update!MoveOut
  <2>1. /\ run \in Update!Runs /\ item \in Update!Items
        /\ \A r \in Update!Runs : r >= run => saved[r][item] = Absent
        /\ saved[run][item] = Absent
    BY <1>0, <1>1 DEF Update!MoveOut, BackupFresh, Update!Items, Update!Runs
  <2>2. /\ \A r \in Update!Runs, i \in Update!Items : saved'[r][i] = IF r = run /\ i = item THEN tree[i] ELSE saved[r][i]
        /\ \A i \in Update!Items : i # item => tree'[i] = tree[i]
    <3>1. CASE tree[item] = Absent
      BY <1>0, <1>1, <2>1, <3>1 DEF Update!MoveOut
    <3>2. CASE tree[item] # Absent
      BY <1>0, <1>1, <2>1, <3>2 DEF Update!MoveOut
    <3> QED
      BY <3>1, <3>2
  <2> SUFFICES ASSUME NEW i \in Present PROVE (\A r \in Update!Runs : First(i, r)') /\ Kept(i)'
    BY DEF Update!BackupsRestore
  <2>3. i \in Update!Items /\ (\A r \in Update!Runs : First(i, r)) /\ Kept(i)
    BY UpdateAssumption DEF Update!DeployAssumption, Update!BackupsRestore
  <2>4. CASE i # item
    <3>1. \A r \in Update!Runs : saved'[r][i] = saved[r][i]
      BY <2>2, <2>3, <2>4
    <3> QED
      BY <2>2, <2>3, <2>4, <3>1 DEF Update!SavedBefore
  <2>5. CASE i = item
    <3>1. \A r \in Update!Runs : r < run => saved'[r][i] = saved[r][i]
      BY <2>1, <2>2, <2>3 DEF Update!Runs
    <3>2. \A r \in Update!Runs : r > run => saved'[r][i] = Absent
      BY <2>1, <2>2, <2>3, <2>5 DEF Update!Runs
    <3>3. saved'[run][i] = tree[i]
      BY <2>1, <2>2, <2>3, <2>5
    <3>4. \A r \in Update!Runs : First(i, r)'
      <4> SUFFICES ASSUME NEW r \in Update!Runs, saved'[r][i] # Absent, ~Update!SavedBefore(i, r)' PROVE saved'[r][i] = Old
        OBVIOUS
      <4>1. \A q \in Update!Runs : q < r => saved'[q][i] = Absent
        BY DEF Update!SavedBefore
      <4>2. CASE r = run
        BY <2>1, <2>3, <2>5, <3>1, <3>3, <4>1, <4>2 DEF Update!Runs
      <4>3. CASE r < run
        BY <2>1, <2>3, <3>1, <4>1, <4>3 DEF Update!Runs, Update!SavedBefore
      <4> QED
        BY <2>1, <3>2, <4>2, <4>3 DEF Update!Runs
    <3>5. Kept(i)'
      BY <2>1, <2>3, <2>5, <3>1, <3>2, <3>3, UpdateAssumption DEF Update!DeployAssumption, Update!Runs
    <3> QED
      BY <3>4, <3>5
  <2> QED
    BY <2>4, <2>5
<1>2. CASE Update!MoveIn
  <2>1. item \in Update!Items /\ tree[item] = Absent
    BY <1>0, <1>2 DEF Update!MoveIn, UpdateKnown, LoopKnown
  <2>2. \A i \in Update!Items : i # item => tree'[i] = tree[i]
    BY <1>0, <1>2, <2>1 DEF Update!MoveIn
  <2> SUFFICES ASSUME NEW i \in Present PROVE (\A r \in Update!Runs : First(i, r)') /\ Kept(i)'
    BY DEF Update!BackupsRestore
  <2>3. i \in Update!Items /\ (\A r \in Update!Runs : First(i, r)) /\ Kept(i) /\ saved' = saved
    BY <1>2, UpdateAssumption DEF Update!DeployAssumption, Update!BackupsRestore, Update!MoveIn
  <2>4. \A r \in Update!Runs : First(i, r)'
    BY <2>3 DEF Update!SavedBefore
  <2>5. Kept(i)'
    BY <2>1, <2>2, <2>3, UpdateAssumption DEF Update!DeployAssumption
  <2> QED
    BY <2>4, <2>5
<1>3. CASE UNCHANGED <<tree, saved>>
  BY <1>3 DEF Update!BackupsRestore, Update!SavedBefore
<1> QED
  BY <1>1, <1>2, <1>3, OnlyMovesTouchFiles

(* The service is down while files move, unless the daemon restarts.       *)
LEMMA ServiceStep == UpdateKnown /\ ServiceKnown /\ [Update!Next]_Update!vars => ServiceKnown'
<1> SUFFICES ASSUME UpdateKnown /\ ServiceKnown, [Update!Next]_Update!vars
             PROVE  ServiceKnown'
  OBVIOUS
<1> USE UpdateAssumption DEF Update!DeployAssumption, UpdateKnown, Update!TypeOK, RunKnown, LoopKnown,
  Update!Preparing, Update!Swapping, Replacing,
  Update!files, Update!script, Update!service, Update!bounds, Update!Items, Update!Runs,
    ServiceKnown, Whole, Update!Versions
<1>1. ASSUME NEW r \in Releases, Update!Begin(r) PROVE ServiceKnown'
  BY <1>1 DEF Update!Begin
<1>2. CASE Update!Refuse
  BY <1>2 DEF Update!Refuse
<1>3. CASE Update!Unpack
  BY <1>3 DEF Update!Unpack
<1>4. CASE Update!Verify
  BY <1>4 DEF Update!Verify
<1>5. CASE Update!StopService
  BY <1>5 DEF Update!StopService
<1>6. CASE Update!MoveOut
  BY <1>6 DEF Update!MoveOut
<1>7. CASE Update!MoveIn
  BY <1>7 DEF Update!MoveIn
<1>8. CASE Update!StartService
  BY <1>8 DEF Update!StartService
<1>9. CASE Update!PollHealth
  BY <1>9 DEF Update!PollHealth
<1>10. CASE Update!CommandFails
  BY <1>10 DEF Update!CommandFails
<1>11. CASE Update!Killed
  BY <1>11 DEF Update!Killed
<1>12. CASE Update!ProcessStarts
  BY <1>12 DEF Update!ProcessStarts
<1>13. CASE Update!HostReboots
  BY <1>13 DEF Update!HostReboots
<1>14. CASE Update!DaemonRestarts
  BY <1>14 DEF Update!DaemonRestarts
<1>15. CASE UNCHANGED Update!vars
  BY <1>15 DEF Update!vars
<1>. QED
  BY <1>1, <1>2, <1>3, <1>4, <1>5, <1>6, <1>7, <1>8, <1>9, <1>10, <1>11, <1>12, <1>13, <1>14, <1>15
  DEF Update!Next, Update!Script

(* The result file is written when what it says is so.                     *)
LEMMA ResultStep == UpdateKnown /\ ServiceKnown /\ Update!ResultIsTrue /\ [Update!Next]_Update!vars => Update!ResultIsTrue'
<1> SUFFICES ASSUME UpdateKnown /\ ServiceKnown /\ Update!ResultIsTrue, [Update!Next]_Update!vars
             PROVE  Update!ResultIsTrue'
  OBVIOUS
<1> USE UpdateAssumption DEF Update!DeployAssumption, UpdateKnown, Update!TypeOK, RunKnown, LoopKnown,
  Update!Preparing, Update!Swapping, Replacing,
  Update!files, Update!script, Update!service, Update!bounds, Update!Items, Update!Runs,
    ServiceKnown, Update!ResultIsTrue, Update!Installed
<1>1. ASSUME NEW r \in Releases, Update!Begin(r) PROVE Update!ResultIsTrue'
  BY <1>1 DEF Update!Begin
<1>2. CASE Update!Refuse
  BY <1>2 DEF Update!Refuse
<1>3. CASE Update!Unpack
  BY <1>3 DEF Update!Unpack
<1>4. CASE Update!Verify
  BY <1>4 DEF Update!Verify, Update!Passes
<1>5. CASE Update!StopService
  BY <1>5 DEF Update!StopService
<1>6. CASE Update!MoveOut
  BY <1>6 DEF Update!MoveOut
<1>7. CASE Update!MoveIn
  BY <1>7 DEF Update!MoveIn
<1>8. CASE Update!StartService
  BY <1>8 DEF Update!StartService
<1>9. CASE Update!PollHealth
  BY <1>9 DEF Update!PollHealth, Update!Polls, Update!Trees
<1>10. CASE Update!CommandFails
  BY <1>10 DEF Update!CommandFails
<1>11. CASE Update!Killed
  BY <1>11 DEF Update!Killed
<1>12. CASE Update!ProcessStarts
  BY <1>12 DEF Update!ProcessStarts
<1>13. CASE Update!HostReboots
  BY <1>13 DEF Update!HostReboots
<1>14. CASE Update!DaemonRestarts
  BY <1>14 DEF Update!DaemonRestarts
<1>15. CASE UNCHANGED Update!vars
  BY <1>15 DEF Update!vars
<1>. QED
  BY <1>1, <1>2, <1>3, <1>4, <1>5, <1>6, <1>7, <1>8, <1>9, <1>10, <1>11, <1>12, <1>13, <1>14, <1>15
  DEF Update!Next, Update!Script

-----------------------------------------------------------------------------
(* The inductive invariant of the update: where each item of the old and   *)
(* of the new source lies at every line of the script.                     *)
THEOREM UpdateInductive == UpdateSpec => []UpdateInv
<1>1. Update!Init => UpdateInv
  <2> SUFFICES ASSUME Update!Init PROVE UpdateInv
    OBVIOUS
  <2>1. UpdateKnown
    BY UpdateInitKnown
  <2>2. BackupFresh /\ Update!BackupsRestore
    BY UpdateAssumption DEF Update!DeployAssumption, Update!Init, BackupFresh, Update!BackupsRestore,
      Update!SavedBefore, Update!Empty, Update!OldTree, Update!Preparing, Update!Items,
      Update!Runs
  <2>3. ServiceKnown /\ Update!ResultIsTrue
    BY UpdateAssumption DEF Update!DeployAssumption, Update!Init, ServiceKnown, Update!ResultIsTrue, Whole,
      Update!Versions, Update!OldTree, Update!Preparing, Update!Swapping, Update!Items
  <2> QED
    BY <2>1, <2>2, <2>3 DEF UpdateInv
<1>2. UpdateInv /\ [Update!Next]_Update!vars => UpdateInv'
  BY UpdateKnownStep, BackupFreshStep, BackupsStep, ServiceStep, ResultStep DEF UpdateInv
<1> QED
  BY <1>1, <1>2, PTL DEF UpdateSpec, Update!Spec

(* The directories, the run and the service keep their shape.              *)
THEOREM UpdateTypes == UpdateSpec => []UpdateTypeOK
<1>1. UpdateInv => UpdateTypeOK
  BY DEF UpdateInv, UpdateKnown, UpdateTypeOK
<1> QED
  BY <1>1, UpdateInductive, PTL

(* However many runs there are and wherever they fail, the backups and the *)
(* project together hold every item of the old source.                     *)
THEOREM NothingIsLost == UpdateSpec => []UpdateBackupsRestore
<1>1. UpdateInv => UpdateBackupsRestore
  BY DEF UpdateInv, UpdateBackupsRestore, UpdateResultIsTrue
<1> QED
  BY <1>1, UpdateInductive, PTL

(* What the result file says of a run is what the run has done.            *)
THEOREM ResultsAreTrue == UpdateSpec => []UpdateResultIsTrue
<1>1. UpdateInv => UpdateResultIsTrue
  BY DEF UpdateInv, UpdateBackupsRestore, UpdateResultIsTrue
<1> QED
  BY <1>1, UpdateInductive, PTL

(* Without a restart of the host or the daemon, every process of the       *)
(* service runs one version of the items the project had.                  *)
THEOREM OneVersionIsServed == UpdateSpec => []UpdateHalfIsNotServed
<1>1. UpdateInv => UpdateHalfIsNotServed
  BY DEF UpdateInv, ServiceKnown, Whole, UpdateHalfIsNotServed, Update!HalfIsNotServed
<1> QED
  BY <1>1, UpdateInductive, PTL

=============================================================================
