------------------------- MODULE NetworkReportProofs -------------------------
(***************************************************************************)
(* Proofs about NetworkReport for any contents of the tables, any days and *)
(* any arguments.  The argument: a table only grows, day by day, so a      *)
(* table that has the day a report asks for has the baseline as well; and  *)
(* the newer of the two tables still has the day that get_latest_date saw. *)
(***************************************************************************)
EXTENDS NetworkReport, FiniteSetTheorems, TLAPS

Baseline(n) == UNION {{d} \X Scoped(n, d) : d \in span.start - Lookback..span.last - 1}

OncePerDay(rows) == \A x, y \in rows : x[1] = y[1] => x = y

Dated == {"lte", "nr", "done"}
Read(n) == pc \in (IF n = "lte" THEN {"nr", "done"} ELSE {"done"})

(* The dates of a report are those that were chosen.                       *)
SpanKnown ==
  /\ call.tool = "report" /\ (pc \in Dated \/ (pc = "nothing" /\ latest >= FirstDay)) => span = Dates
  /\ pc \in Dated => span.first + Lookback = span.start /\ span.last \in Int /\ span.start \in Int

(* What the query of a network has found.                                  *)
Found(n) ==
  got[n].target # NoRow =>
    /\ got[n].target[1] = span.last
    /\ Scoped(n, span.last) = {got[n].target[2]}
    /\ got[n].base = Baseline(n)
    /\ OncePerDay(got[n].base)
ReadKnown == call.tool = "report" => \A n \in Nets : Read(n) => Found(n)

(* One of the tables has the latest date, and finds what is there.         *)
AskedNewest == call.start = None /\ call.end = None
Finds(n) == (Read(n) \/ pc = "nothing") /\ AskedNewest /\ got[n].target = NoRow => Scoped(n, span.last) = {}
NewestKnown ==
  call.tool = "report" /\ pc # "asked" /\ latest >= FirstDay =>
    /\ \E n \in Nets : loaded[n] >= latest /\ Finds(n)
    /\ pc = "nothing" => \A n \in Nets : got[n].target = NoRow

Shaped ==
  /\ TypeOK /\ DOMAIN got = Nets
  /\ pc \in {"asked", "dated"} => \A n \in Nets : got[n] = Nothing
  /\ pc = "asked" => latest = FirstDay - 1
  /\ \A n \in Nets : IsFiniteSet(got[n].base)
IInv   == Shaped /\ SpanKnown /\ ReadKnown /\ NewestKnown

-----------------------------------------------------------------------------
(* Rows that are as many as their days have a day each.                    *)
LEMMA DaysDiffer ==
  ASSUME NEW rows, IsFiniteSet(rows), Cardinality(rows) = Cardinality({dr[1] : dr \in rows})
  PROVE  OncePerDay(rows)
<1> DEFINE days == {dr[1] : dr \in rows}
           f == [dr \in rows |-> dr[1]]
<1>1. f \in Surjection(rows, days)
  BY DEF Surjection
<1>2. f \in Injection(rows, days)
  BY <1>1, FS_SurjSameCardinalityImpliesInj
<1>. QED
  BY <1>2 DEF Injection, IsInjective, OncePerDay

(* A statement returns finitely many rows.                                 *)
LEMMA HeldIsFinite ==
  ASSUME TypeOK, NEW n \in Nets
  PROVE  IsFiniteSet(Held(n))
<1> DEFINE days == FirstDay..loaded[n]
           parts == {{d} \X tables[n][d] : d \in days}
           f == [d \in days |-> {d} \X tables[n][d]]
<1>1. IsFiniteSet(days)
  BY FS_Interval, ReportAssumption DEF TypeOK
<1>2. f \in Surjection(days, parts)
  BY DEF Surjection
<1>3. IsFiniteSet(parts)
  BY <1>1, <1>2, FS_Surjection
<1>4. ASSUME NEW d \in days PROVE IsFiniteSet({d} \X tables[n][d])
  <2>1. IsFiniteSet({d})
    BY FS_Singleton
  <2>2. IsFiniteSet(tables[n][d])
    BY ReportAssumption DEF TypeOK
  <2>. QED
    BY <2>1, <2>2, FS_Product
<1>5. IsFiniteSet(UNION parts)
  BY <1>3, <1>4, FS_UNION
<1>6. Held(n) \in SUBSET (UNION parts)
  BY DEF Held
<1>. QED
  BY <1>5, <1>6, FS_Subset

(* The rows of a table that are in scope, day by day.                      *)
LEMMA RowsOfScope ==
  ASSUME TypeOK, NEW n \in Nets, span.last \in Int, span.first \in Int
  PROVE  \A x : x \in {dr \in Held(n) : InScope(dr)} <=>
           \E d \in FirstDay..loaded[n] : \E r \in Scoped(n, d) :
              x = <<d, r>> /\ d \in span.first..span.last
<1>1. FirstDay..loaded[n] \subseteq FirstDay..Yesterday
  BY ReportAssumption DEF TypeOK
<1>. QED
  BY <1>1 DEF Held, InScope, Scoped

(* The dates of a report lie no later than the latest one; who gives none  *)
(* is answered for it.                                                     *)
LEMMA DatesOfReport ==
  ASSUME TypeOK
  PROVE  /\ Dates.start \in Int /\ Dates.last \in Int /\ Dates.last <= latest
         /\ Dates.first + Lookback = Dates.start /\ Dates.first = Dates.start - Lookback
         /\ AskedNewest => Dates.last = latest /\ Dates.start = latest
BY ReportAssumption DEF TypeOK, Dates, Earlier, AskedNewest

(* A table that has the day of a report has its baseline, too; and one     *)
(* without a row for it that reaches as far has none in scope.             *)
LEMMA RowsOfReport ==
  ASSUME TypeOK, SpanKnown, NEW n \in Nets, pc = n, call.tool = "report", NEW rows,
         rows = {dr \in Held(n) : InScope(dr)}, OncePerDay(rows)
  PROVE  /\ \A x \in TargetOf(rows) :
              /\ x # NoRow /\ x[1] = span.last
              /\ Scoped(n, span.last) = {x[2]}
              /\ rows \ TargetOf(rows) = Baseline(n)
         /\ TargetOf(rows) = {} /\ loaded[n] >= span.last /\ span.first <= span.last =>
              Scoped(n, span.last) = {}
<1>1. /\ pc \in Dated /\ span.first = span.start - Lookback /\ Lookback \in Int
      /\ span.first \in Int /\ span.last \in Int /\ span.start \in Int
  BY DatesOfReport, ReportAssumption DEF SpanKnown, Dated, Nets
<1>2. \A x : x \in rows <=> \E d \in FirstDay..loaded[n] : \E r \in Scoped(n, d) :
              x = <<d, r>> /\ d \in span.first..span.last
  BY <1>1, RowsOfScope
<1>3. FirstDay..loaded[n] \subseteq FirstDay..Yesterday /\ FirstDay \in Int /\ loaded[n] \in Int
  BY ReportAssumption DEF TypeOK
<1>4. \A d, r : r \in Scoped(n, d) => d \in FirstDay..Yesterday
  BY DEF Scoped
<1>5. ASSUME NEW x \in TargetOf(rows)
      PROVE  /\ x # NoRow /\ x[1] = span.last
             /\ Scoped(n, span.last) = {x[2]}
             /\ rows \ TargetOf(rows) = Baseline(n)
  <2>1. x \in rows /\ x[1] = span.last
    BY DEF TargetOf
  <2>2. PICK r \in Scoped(n, span.last) : x = <<span.last, r>> /\ span.last \in FirstDay..loaded[n]
                                          /\ span.last \in span.first..span.last
    BY <1>2, <2>1
  <2>3. ASSUME NEW q \in Scoped(n, span.last) PROVE q = r
    <3>1. <<span.last, q>> \in rows
      BY <1>2, <2>2
    <3>2. <<span.last, q>> = x
      BY <2>1, <3>1 DEF OncePerDay
    <3>. QED
      BY <2>2, <3>2
  <2>4. ASSUME NEW y \in rows \ TargetOf(rows) PROVE y \in Baseline(n)
    <3>1. PICK d \in FirstDay..loaded[n] : \E q \in Scoped(n, d) : y = <<d, q>> /\ d \in span.first..span.last
      BY <1>2
    <3>2. d # span.last
      BY <3>1 DEF TargetOf
    <3>3. d \in span.start - Lookback..span.last - 1
      BY <1>1, <3>1, <3>2
    <3>. QED
      BY <3>1, <3>3 DEF Baseline
  <2>5. ASSUME NEW y \in Baseline(n) PROVE y \in rows \ TargetOf(rows)
    <3>1. PICK d \in span.start - Lookback..span.last - 1 : \E q \in Scoped(n, d) : y = <<d, q>>
      BY DEF Baseline
    <3>2. d \in FirstDay..loaded[n] /\ d \in span.first..span.last /\ d # span.last
      BY <1>1, <1>3, <1>4, <2>2, <3>1
    <3>. QED
      BY <1>2, <3>1, <3>2 DEF TargetOf
  <2>6. x # NoRow
    BY <2>2 DEF NoRow
  <2>. QED
    BY <2>1, <2>2, <2>3, <2>4, <2>5, <2>6
<1>6. ASSUME TargetOf(rows) = {}, loaded[n] >= span.last, span.first <= span.last,
             NEW r \in Scoped(n, span.last)
      PROVE  FALSE
  <2>1. span.last \in FirstDay..loaded[n] /\ span.last \in span.first..span.last
    BY <1>1, <1>3, <1>4, <1>6
  <2>2. <<span.last, r>> \in rows
    BY <1>2, <2>1
  <2>. QED
    BY <1>6, <2>2 DEF TargetOf
<1>. QED
  BY <1>5, <1>6

(* The latest date is that of one of the tables.                           *)
LEMMA NewestTable ==
  ASSUME TypeOK
  PROVE  \E n \in Nets : Max({loaded[m] : m \in Nets}) = loaded[n]
<1> DEFINE days == {loaded[m] : m \in Nets}
<1>1. loaded["lte"] \in Int /\ loaded["nr"] \in Int /\ days = {loaded["lte"], loaded["nr"]}
  BY ReportAssumption DEF TypeOK, Nets
<1>2. \E x \in days : \A y \in days : x >= y
  BY <1>1
<1>. QED
  BY <1>2 DEF Max

-----------------------------------------------------------------------------
(* What the steps of a call and of the imports keep, part by part.         *)

(* A call that has not begun has its shape.                                *)
LEMMA InitShaped == Init => Shaped
<1>1. Init => DOMAIN got = Nets /\ \A n \in Nets : got[n] = Nothing /\ IsFiniteSet(got[n].base)
  BY FS_EmptySet DEF Init, Nothing
<1>2. Init => TypeOK
  BY ReportAssumption DEF Init, TypeOK, Nothing, Nets
<1>. QED
  BY <1>1, <1>2 DEF Shaped, Init

(* Every step of the call and every import keeps the shape.                *)
LEMMA ShapedStep == Shaped /\ [Next]_vars => Shaped'
<1> SUFFICES ASSUME Shaped, [Next]_vars PROVE Shaped'
  OBVIOUS
<1> USE ReportAssumption DEF Shaped, TypeOK
<1>1. ASSUME NEW n \in Nets, Import(n) PROVE Shaped'
  BY <1>1 DEF Import
<1>2. ASSUME NEW n \in Nets, ReadReport(n) PROVE Shaped'
  <2> DEFINE rows == {dr \in Held(n) : InScope(dr)}
             target == IF TargetOf(rows) = {} THEN NoRow ELSE CHOOSE dr \in TargetOf(rows) : TRUE
  <2>1. CASE Cardinality(rows) # Cardinality({dr[1] : dr \in rows})
    BY <1>2, <2>1 DEF ReadReport
  <2>2. CASE Cardinality(rows) = Cardinality({dr[1] : dr \in rows})
    <3>0. /\ got' = [got EXCEPT ![n] = [target |-> target, base |-> rows \ TargetOf(rows)]]
          /\ Advance(n, \E m \in Nets : got'[m].target # NoRow)
      BY <1>2, <2>2 DEF ReadReport
    <3>1. \A dr \in rows : dr[1] \in span.first..span.last /\ dr[2] \in tables[n][dr[1]]
      BY DEF Held
    <3>2. \A m \in Nets : \A dr \in got'[m].base : dr[1] \in span.first..span.last /\ dr[2] \in tables[m][dr[1]]
      BY <3>0, <3>1
    <3>3. pc' \in {"nr", "done", "nothing"} /\ pc \in {"lte", "nr"}
      BY <1>2, <3>0 DEF Advance, ReadReport, Nets
    <3>4. IsFiniteSet(rows \ TargetOf(rows))
      BY HeldIsFinite, FS_Subset
    <3>5. \A m \in Nets : IsFiniteSet(got'[m].base)
      BY <3>0, <3>4
    <3>. QED
      BY <1>2, <3>0, <3>2, <3>3, <3>5 DEF ReadReport
  <2>. QED
    BY <2>1, <2>2
<1>3. ASSUME NEW n \in Nets, ReadAnomaly(n) PROVE Shaped'
  <2>1. PICK target : got' = [got EXCEPT ![n] = [target |-> target, base |-> Held(n) \ TargetOf(Held(n))]]
    BY <1>3 DEF ReadAnomaly
  <2>2. \A dr \in Held(n) : dr[1] \in span.first..span.last /\ dr[2] \in tables[n][dr[1]]
    BY DEF Held
  <2>3. \A m \in Nets : \A dr \in got'[m].base : dr[1] \in span.first..span.last /\ dr[2] \in tables[m][dr[1]]
    BY <2>1, <2>2
  <2>4. pc' \in {"nr", "done", "nothing"} /\ pc \in {"lte", "nr"}
    BY <1>3 DEF Advance, ReadAnomaly, Nets
  <2>5. IsFiniteSet(Held(n) \ TargetOf(Held(n)))
    BY HeldIsFinite, FS_Subset
  <2>6. \A m \in Nets : IsFiniteSet(got'[m].base)
    BY <2>1, <2>5
  <2>. QED
    BY <1>3, <2>1, <2>3, <2>4, <2>6 DEF ReadAnomaly
<1>4. CASE ReadLatest
  <2>1. Max({loaded[n] : n \in Nets}) \in FirstDay - 1..Yesterday
    BY NewestTable
  <2>. QED
    BY <1>4, <2>1 DEF ReadLatest
<1>5. CASE ChooseDates
  BY <1>5, DatesOfReport DEF ChooseDates, Nothing
<1>6. CASE Begin
  BY <1>6 DEF Begin, Nothing
<1>7. CASE Fail
  BY <1>7 DEF Fail
<1>8. CASE UNCHANGED vars
  BY <1>8 DEF vars
<1>. QED
  BY <1>1, <1>2, <1>3, <1>4, <1>5, <1>6, <1>7, <1>8 DEF Next

(* And the dates that were chosen.                                         *)
LEMMA SpanKnownStep == Shaped /\ SpanKnown /\ [Next]_vars => SpanKnown'
<1> SUFFICES ASSUME Shaped, SpanKnown, [Next]_vars PROVE SpanKnown'
  OBVIOUS
<1> USE ReportAssumption DEF Shaped, TypeOK, SpanKnown, Dated, Dates
<1>1. ASSUME NEW n \in Nets, Import(n) PROVE SpanKnown'
  BY <1>1 DEF Import
<1>2. ASSUME NEW n \in Nets, ReadReport(n) PROVE SpanKnown'
  BY <1>2 DEF ReadReport, Advance, Nets
<1>3. ASSUME NEW n \in Nets, ReadAnomaly(n) PROVE SpanKnown'
  BY <1>3 DEF ReadAnomaly, Advance, Nets
<1>4. CASE ReadLatest
  <2>1. latest' \in Int
    BY <1>4, NewestTable DEF ReadLatest
  <2>. QED
    BY <1>4, <2>1 DEF ReadLatest
<1>5. CASE ChooseDates
  BY <1>5, DatesOfReport DEF ChooseDates
<1>6. CASE Begin
  BY <1>6 DEF Begin
<1>7. CASE Fail
  BY <1>7 DEF Fail
<1>8. CASE UNCHANGED vars
  BY <1>8 DEF vars
<1>. QED
  BY <1>1, <1>2, <1>3, <1>4, <1>5, <1>6, <1>7, <1>8 DEF Next

(* What a query has found does not depend on what is imported later.       *)
LEMMA ScopedKept ==
  ASSUME tables' = tables, call' = call
  PROVE  \A n, d : Scoped(n, d)' = Scoped(n, d)
BY DEF Scoped, City, Rest

(* What was found stays what the tables say when none of them changes.     *)
LEMMA FoundKept ==
  ASSUME UNCHANGED <<tables, call, span>>, NEW n, got'[n] = got[n], Found(n)
  PROVE  Found(n)'
<1>1. \A d : (Scoped(n, d))' = Scoped(n, d)
  BY ScopedKept
<1>2. Baseline(n)' = Baseline(n)
  BY <1>1 DEF Baseline
<1>. QED
  BY <1>1, <1>2 DEF Found, OncePerDay

(* Every step keeps what the queries have found true of the tables.        *)
LEMMA ReadKnownStep == Shaped /\ SpanKnown /\ ReadKnown /\ [Next]_vars => ReadKnown'
<1> SUFFICES ASSUME Shaped, SpanKnown, ReadKnown, [Next]_vars, call'.tool = "report",
                    NEW m \in Nets, Read(m)'
             PROVE  Found(m)'
  BY DEF ReadKnown
<1> USE DEF Shaped, Read, ReadKnown
<1>1. ASSUME NEW n \in Nets, Import(n) PROVE Found(m)'
  BY <1>1, FoundKept DEF Import
<1>2. ASSUME NEW n \in Nets, ReadReport(n) PROVE Found(m)'
  <2> DEFINE rows == {dr \in Held(n) : InScope(dr)}
             target == IF TargetOf(rows) = {} THEN NoRow ELSE CHOOSE dr \in TargetOf(rows) : TRUE
  <2>1. pc' # "failed"
    BY DEF Nets
  <2>2. /\ got' = [got EXCEPT ![n] = [target |-> target, base |-> rows \ TargetOf(rows)]]
        /\ Cardinality(rows) = Cardinality({dr[1] : dr \in rows})
    BY <1>2, <2>1 DEF ReadReport
  <2>3. CASE m # n
    <3>1. Read(m)
      BY <1>2, <2>1, <2>3 DEF ReadReport, Advance, Nets
    <3>. QED
      BY <1>2, <2>2, <2>3, <3>1, FoundKept DEF ReadReport
  <2>4. CASE m = n
    <3>1. OncePerDay(rows)
      <4>1. IsFiniteSet(rows)
        BY HeldIsFinite, FS_Subset
      <4>. QED
        BY <2>2, <4>1, DaysDiffer
    <3>2. \A x \in TargetOf(rows) :
            /\ x # NoRow /\ x[1] = span.last
            /\ Scoped(n, span.last) = {x[2]}
            /\ rows \ TargetOf(rows) = Baseline(n)
      BY <1>2, <3>1, RowsOfReport DEF ReadReport
    <3>3. got'[n].target = target /\ got'[n].base = rows \ TargetOf(rows)
      BY <2>2
    <3>4. ASSUME target # NoRow PROVE target \in TargetOf(rows)
      BY <3>4
    <3>5. OncePerDay(rows \ TargetOf(rows))
      BY <3>1 DEF OncePerDay
    <3>6. UNCHANGED <<tables, call, span>> /\ \A d : (Scoped(n, d))' = Scoped(n, d)
      BY <1>2, ScopedKept DEF ReadReport
    <3>7. Baseline(n)' = Baseline(n)
      BY <3>6 DEF Baseline
    <3>. QED
      BY <2>4, <3>2, <3>3, <3>4, <3>5, <3>6, <3>7 DEF Found, OncePerDay
  <2>. QED
    BY <2>3, <2>4
<1>3. ASSUME NEW n \in Nets, ReadAnomaly(n) PROVE Found(m)'
  BY <1>3 DEF ReadAnomaly
<1>4. CASE ReadLatest
  BY <1>4 DEF ReadLatest
<1>5. CASE ChooseDates
  BY <1>5 DEF ChooseDates
<1>6. CASE Begin
  BY <1>6 DEF Begin
<1>7. CASE Fail
  BY <1>7 DEF Fail
<1>8. CASE UNCHANGED vars
  BY <1>8, FoundKept DEF vars
<1>. QED
  BY <1>1, <1>2, <1>3, <1>4, <1>5, <1>6, <1>7, <1>8 DEF Next

(* The table that has the latest date keeps it.                            *)
LEMMA NewestKnownStep == Shaped /\ SpanKnown /\ NewestKnown /\ [Next]_vars => NewestKnown'
<1> SUFFICES ASSUME Shaped, SpanKnown, NewestKnown, [Next]_vars,
                    call'.tool = "report", pc' # "asked", latest' >= FirstDay
             PROVE  /\ \E n \in Nets : loaded'[n] >= latest' /\ Finds(n)'
                    /\ pc' = "nothing" => \A n \in Nets : got'[n].target = NoRow
  BY DEF NewestKnown
<1> USE ReportAssumption DEF Shaped, TypeOK
<1>a. ASSUME UNCHANGED <<tables, call, span, latest, got, pc>>, \A n \in Nets : loaded'[n] >= loaded[n],
             loaded' \in [Nets -> FirstDay - 1..Yesterday]
      PROVE  /\ \E n \in Nets : loaded'[n] >= latest' /\ Finds(n)'
             /\ pc' = "nothing" => \A n \in Nets : got'[n].target = NoRow
  <2>1. PICK n \in Nets : loaded[n] >= latest /\ Finds(n)
    BY <1>a DEF NewestKnown
  <2>2. (Scoped(n, span.last))' = Scoped(n, span.last)
    BY <1>a, ScopedKept
  <2>3. Finds(n)'
    BY <1>a, <2>1, <2>2 DEF Finds, Read, AskedNewest
  <2>. QED
    BY <1>a, <2>1, <2>3 DEF NewestKnown
<1>1. ASSUME NEW n \in Nets, Import(n) PROVE \A m \in Nets : loaded'[m] >= loaded[m]
  BY <1>1 DEF Import
<1>2. ASSUME NEW n \in Nets, ReadReport(n)
      PROVE  /\ \E m \in Nets : loaded'[m] >= latest' /\ Finds(m)'
             /\ pc' = "nothing" => \A m \in Nets : got'[m].target = NoRow
  <2> DEFINE rows == {dr \in Held(n) : InScope(dr)}
             target == IF TargetOf(rows) = {} THEN NoRow ELSE CHOOSE dr \in TargetOf(rows) : TRUE
  <2>0. /\ pc \in {"lte", "nr"} /\ pc = n /\ call.tool = "report" /\ UNCHANGED <<loaded, tables, call, latest, span>>
        /\ \A d : (Scoped(n, d))' = Scoped(n, d)
    BY <1>2, ScopedKept DEF ReadReport, Nets
  <2>1. PICK m \in Nets : loaded[m] >= latest /\ Finds(m)
    BY <2>0 DEF NewestKnown
  <2>2. CASE pc' = "failed"
    BY <2>0, <2>1, <2>2 DEF Finds, Read
  <2>3. CASE /\ got' = [got EXCEPT ![n] = [target |-> target, base |-> rows \ TargetOf(rows)]]
             /\ Cardinality(rows) = Cardinality({dr[1] : dr \in rows})
             /\ Advance(n, \E k \in Nets : got'[k].target # NoRow)
    <3>1. CASE m # n
      <4>1. (Scoped(m, span.last))' = Scoped(m, span.last)
        BY <2>0, ScopedKept
      <4>2. got'[m] = got[m]
        BY <2>3, <3>1
      <4>3. n = "lte" => pc' = "nr"
        BY <2>3 DEF Advance
      <4>4. Finds(m)'
        BY <2>0, <2>1, <3>1, <4>1, <4>2, <4>3 DEF Finds, Read, Nets, AskedNewest
      <4>. QED
        BY <2>0, <2>1, <2>3, <4>4 DEF Advance
    <3>2. CASE m = n
      <4>1. ASSUME AskedNewest PROVE loaded[n] >= span.last /\ span.first <= span.last
        BY <2>0, <2>1, <3>2, <4>1, DatesOfReport DEF SpanKnown, Dated
      <4>2. OncePerDay(rows)
        <5>1. IsFiniteSet(rows)
          BY HeldIsFinite, FS_Subset
        <5>. QED
          BY <2>3, <5>1, DaysDiffer
      <4>3. /\ \A x \in TargetOf(rows) : x # NoRow
            /\ TargetOf(rows) = {} /\ loaded[n] >= span.last /\ span.first <= span.last => Scoped(n, span.last) = {}
        BY <2>0, <4>2, RowsOfReport
      <4>4. got'[n].target = NoRow => TargetOf(rows) = {}
        BY <2>3, <4>3
      <4>5. Finds(n)'
        BY <2>0, <4>1, <4>3, <4>4 DEF Finds, AskedNewest
      <4>. QED
        BY <2>0, <2>1, <2>3, <3>2, <4>5 DEF Advance
    <3>. QED
      BY <3>1, <3>2
  <2>. QED
    BY <1>2, <2>2, <2>3 DEF ReadReport
<1>3. ASSUME NEW n \in Nets PROVE ~ReadAnomaly(n)
  BY DEF ReadAnomaly
<1>4. CASE ReadLatest
  <2>1. PICK n \in Nets : latest' = loaded[n]
    BY <1>4, NewestTable DEF ReadLatest
  <2>2. pc' = "dated" /\ UNCHANGED <<loaded, got>>
    BY <1>4, <2>1 DEF ReadLatest
  <2>3. Finds(n)'
    BY <2>2 DEF Finds, Read
  <2>. QED
    BY <2>1, <2>2, <2>3
<1>5. CASE ChooseDates
  <2>1. pc' = "lte" /\ pc = "dated" /\ UNCHANGED <<loaded, latest, call>>
    BY <1>5 DEF ChooseDates
  <2>2. PICK n \in Nets : loaded[n] >= latest
    BY <2>1 DEF NewestKnown
  <2>3. Finds(n)'
    BY <2>1 DEF Finds, Read
  <2>. QED
    BY <2>1, <2>2, <2>3
<1>6. CASE Begin
  BY <1>6 DEF Begin
<1>7. CASE Fail
  <2>1. pc' = "failed" /\ pc \in {"asked", "dated", "lte", "nr"} /\ UNCHANGED <<loaded, latest, call>>
    BY <1>7 DEF Fail
  <2>2. \E n \in Nets : loaded[n] >= latest
    BY <2>1 DEF NewestKnown
  <2>. QED
    BY <2>1, <2>2 DEF Finds, Read
<1>8. CASE UNCHANGED vars
  BY <1>8, <1>a DEF vars
<1>. QED
  BY <1>a, <1>1, <1>2, <1>3, <1>4, <1>5, <1>6, <1>7, <1>8 DEF Next, Import

-----------------------------------------------------------------------------
(* What a call of query_report or query_anomaly knows at each of its       *)
(* waits, for any tables and any arguments.                                *)
THEOREM Inductive == Spec => []IInv
<1>1. Init => IInv
  <2>1. Init => Shaped
    BY InitShaped
  <2>2. Init => SpanKnown /\ ReadKnown /\ NewestKnown
    BY DEF Init, SpanKnown, Dated, ReadKnown, Read, NewestKnown
  <2>. QED
    BY <2>1, <2>2 DEF IInv
<1>2. IInv /\ [Next]_vars => IInv'
  BY ShapedStep, SpanKnownStep, ReadKnownStep, NewestKnownStep DEF IInv
<1>. QED
  BY <1>1, <1>2, PTL DEF Spec

(* Dates, rows and answers keep their shape for any contents.              *)
THEOREM TypeCorrect == Spec => []TypeOK
<1>1. IInv => TypeOK
  BY DEF IInv, Shaped
<1>. QED
  BY <1>1, Inductive, PTL

(* Everything a report prints under its one date is of that date and of    *)
(* its scope, with the whole baseline, for any tables that are imported    *)
(* meanwhile; and "nothing found" is true of a table for the newest day.   *)
THEOREM OfItsDay == Spec => []ReportIsOfItsDay
<1>1. IInv => ReportIsOfItsDay
  <2> SUFFICES ASSUME IInv, call.tool = "report" PROVE
        /\ pc = "done" =>
             \A n \in Sections :
               /\ Processed(n).date = ReportDate /\ ReportDate = span.last
               /\ Scoped(n, span.last) = {got[n].target[2]}
               /\ got[n].base = Baseline(n)
               /\ span.start = span.last => Cardinality(got[n].base) <= Lookback
        /\ pc = "nothing" /\ latest >= FirstDay /\ AskedNewest => \E n \in Nets : Scoped(n, span.last) = {}
    BY DEF ReportIsOfItsDay, Baseline, AskedNewest
  <2>1. ASSUME pc = "done", NEW n \in Sections
        PROVE  /\ Processed(n).date = ReportDate /\ ReportDate = span.last
               /\ Scoped(n, span.last) = {got[n].target[2]}
               /\ got[n].base = Baseline(n)
               /\ span.start = span.last => Cardinality(got[n].base) <= Lookback
    <3>1. \A m \in Nets : Found(m)
      BY <2>1 DEF IInv, ReadKnown, Read
    <3>2. \A m \in Sections : m \in Nets /\ got[m].target # NoRow /\ Processed(m).date = span.last
      BY <3>1 DEF Sections, Processed, Found
    <3>3. ReportDate = span.last
      BY <2>1, <3>2 DEF ReportDate, Sections, Nets
    <3>4. got[n].base = Baseline(n) /\ OncePerDay(got[n].base) /\ Scoped(n, span.last) = {got[n].target[2]}
      BY <3>1, <3>2 DEF Found
    <3>5. ASSUME span.start = span.last PROVE Cardinality(got[n].base) <= Lookback
      <4> DEFINE days == span.start - Lookback..span.last - 1
                 f == [dr \in got[n].base |-> dr[1]]
      <4>1. span.start \in Int /\ span.last \in Int /\ Lookback \in Nat \ {0}
        BY <2>1, ReportAssumption DEF IInv, SpanKnown, Dated
      <4>2. f \in [got[n].base -> days]
        BY <3>4 DEF Baseline
      <4>3. f \in Injection(got[n].base, days)
        BY <3>4, <4>2 DEF Injection, IsInjective, OncePerDay
      <4>4. IsFiniteSet(days) /\ Cardinality(days) = Lookback
        BY <3>5, <4>1, FS_Interval
      <4>. QED
        BY <4>3, <4>4, FS_Injection
    <3>. QED
      BY <3>2, <3>3, <3>4, <3>5
  <2>2. ASSUME pc = "nothing", latest >= FirstDay, AskedNewest
        PROVE  \E n \in Nets : Scoped(n, span.last) = {}
    BY <2>2 DEF IInv, NewestKnown, Finds
  <2>. QED
    BY <2>1, <2>2
<1>. QED
  BY <1>1, Inductive, PTL

-----------------------------------------------------------------------------
(* A finite set of numbers has a maximum: of its upper segments there is a *)
(* smallest one, and the number that begins it is the maximum.             *)
LEMMA MaxOfFinite ==
  ASSUME NEW S, IsFiniteSet(S), S \subseteq Int, S # {}
  PROVE  Max(S) \in S /\ \A y \in S : Max(S) >= y
<1> DEFINE above(x) == {y \in S : y >= x}
           segments == {above(x) : x \in S}
<1>1. IsWellFoundedOn(StrictSubsetOrdering(S), SUBSET S)
  BY FS_StrictSubsetOrderingWellFounded, FS_FiniteSubsetsOfFinite
<1>2. segments \subseteq SUBSET S /\ segments # {}
  OBVIOUS
<1>3. PICK least \in segments : \A other \in segments : ~ (<<other, least>> \in StrictSubsetOrdering(S))
  BY <1>1, <1>2, WFMin
<1>4. PICK x \in S : least = above(x)
  OBVIOUS
<1>5. ASSUME NEW y \in S, y > x PROVE FALSE
  <2>1. above(y) \in segments
    OBVIOUS
  <2>2. x \in Int /\ y \in Int /\ \A z \in S : z \in Int /\ (z >= y => z >= x)
    BY <1>5
  <2>3. above(y) \subseteq above(x)
    BY <2>2
  <2>4. x \in above(x) /\ x \notin above(y)
    BY <1>5, <2>2
  <2>5. <<above(y), above(x)>> \in StrictSubsetOrdering(S)
    BY <2>3, <2>4 DEF StrictSubsetOrdering
  <2>. QED
    BY <1>3, <1>4, <2>1, <2>5
<1>6. \A y \in S : x >= y
  BY <1>5
<1>. QED
  BY <1>6 DEF Max

(* Rounding keeps the order and moves a power by no more than 50 kWh.      *)
LEMMA Rounding ==
  /\ \A v \in Nat : ToWanDu(v) \in Nat /\ v - 50 < 100 * ToWanDu(v) /\ 100 * ToWanDu(v) <= v + 50
  /\ \A v, w \in Nat : v <= w => ToWanDu(v) <= ToWanDu(w)
BY DEF ToWanDu

(* The peak of the rounded figures is the rounded peak.                    *)
LEMMA PeakOfConverted ==
  ASSUME NEW S, IsFiniteSet(S), S \subseteq Nat, NEW m \in Metrics
  PROVE  Peak(S) \in Nat /\ Peak({Convert(m, v) : v \in S}) = Convert(m, Peak(S))
<1> DEFINE T == {Convert(m, v) : v \in S}
<1>1. CASE S = {}
  BY <1>1 DEF Peak, Convert, ToWanDu
<1>2. CASE S # {}
  <2>1. Max(S) \in S /\ \A y \in S : Max(S) >= y
    <3>1. S \subseteq Int
      OBVIOUS
    <3>. QED
      BY <1>2, <3>1, MaxOfFinite
  <2>2. \A v, w \in Nat : v <= w => Convert(m, v) \in Nat /\ Convert(m, w) \in Nat /\ Convert(m, v) <= Convert(m, w)
    BY Rounding DEF Convert
  <2>3. Convert(m, Max(S)) \in T /\ \A z \in T : z \in Nat /\ Convert(m, Max(S)) >= z
    BY <2>1, <2>2
  <2>4. Max(T) = Convert(m, Max(S))
    <3> HIDE DEF T
    <3>1. ASSUME NEW z \in T, \A y \in T : z >= y PROVE z = Convert(m, Max(S))
      <4>1. z >= Convert(m, Max(S)) /\ Convert(m, Max(S)) >= z /\ z \in Nat /\ Convert(m, Max(S)) \in Nat
        BY <2>3, <3>1
      <4>. QED
        BY <4>1
    <3>2. Max(T) \in T /\ \A y \in T : Max(T) >= y
      BY <2>3 DEF Max
    <3>. QED
      BY <3>1, <3>2
  <2>. QED
    BY <1>2, <2>1, <2>4 DEF Peak
<1>. QED
  BY <1>1, <1>2

(* What is worse deviates, beyond the rounding.                            *)
LEMMA WorseDeviates ==
  ASSUME NEW m \in Metrics, NEW t \in Nat, NEW p \in Nat, p # 0, Worse(m, t, p),
         m \in CoreMetrics, m = "power" => ~Rounded(t, p)
  PROVE  Convert(m, p) # 0 /\ Deviates(Convert(m, t), Convert(m, p))
<1>1. CASE m = "power"
  <2>1. /\ ToWanDu(t) \in Nat /\ t - 50 < 100 * ToWanDu(t)
        /\ ToWanDu(p) \in Nat /\ p - 50 < 100 * ToWanDu(p) /\ 100 * ToWanDu(p) <= p + 50
    BY Rounding
  <2>2. p >= 50 /\ 10 * (t - 200) > 11 * p
    BY <1>1 DEF Rounded
  <2>3. ToWanDu(p) # 0
    <3>1. p + 50 >= 100
      BY <2>2
    <3>. QED
      BY <3>1 DEF ToWanDu
  <2>4. 10 * (ToWanDu(t) - ToWanDu(p)) >= ToWanDu(p)
    BY <2>1, <2>2
  <2>. QED
    BY <1>1, <2>3, <2>4 DEF Convert, Deviates, InWanDu
<1>2. CASE m # "power"
  <2>1. m \notin InWanDu
    BY <1>2 DEF InWanDu, CoreMetrics
  <2>. QED
    BY <2>1 DEF Convert, Deviates, Worse
<1>. QED
  BY <1>1, <1>2

(* What query_anomaly would call worse in the rows of a report is among    *)
(* the report's deviations, for any figures of what the report looks at.   *)
THEOREM WorseIsListed == Spec => []WorseIsReported
<1>1. IInv => WorseIsReported
  <2> SUFFICES ASSUME IInv, call.tool = "report", pc = "done", NEW n \in Nets, NEW m \in Degraded(got[n]),
                      m \notin NotListed(n), ~ (m = "power" /\ Rounded(got[n].target[2][m], Peak(Values(got[n], m))))
               PROVE  m \in Processed(n).anomalies
    BY DEF WorseIsReported
  <2> DEFINE values == Values(got[n], m)
             t == got[n].target[2][m]
  <2>1. /\ m \in CoreMetrics /\ m \in Metrics /\ got[n].target # NoRow /\ t # None
        /\ Peak(values) # 0 /\ Worse(m, t, Peak(values))
    BY DEF Degraded, CoreMetrics, Metrics
  <2>2. Found(n)
    BY DEF IInv, ReadKnown, Read
  <2>3. \A d : \A r \in Scoped(n, d) : r[m] \in Nat \cup {None}
    BY <2>1, ReportAssumption DEF Scoped, IInv, Shaped, TypeOK
  <2>4. t \in Nat
    BY <2>1, <2>2, <2>3 DEF Found
  <2>5. values \subseteq Nat
    BY <2>1, <2>2, <2>3 DEF Found, Baseline, Values
  <2>6. IsFiniteSet(values)
    <3> DEFINE rows == {dr \in got[n].base : dr[2][m] # None}
               f == [dr \in rows |-> dr[2][m]]
    <3>1. IsFiniteSet(rows)
      BY FS_Subset DEF IInv, Shaped
    <3>2. f \in Surjection(rows, values)
      BY DEF Surjection, Values
    <3>. QED
      BY <3>1, <3>2, FS_Surjection
  <2>7. Peak(values) \in Nat /\ Peak({Convert(m, v) : v \in values}) = Convert(m, Peak(values))
    BY <2>1, <2>5, <2>6, PeakOfConverted
  <2>8. Convert(m, Peak(values)) # 0 /\ Deviates(Convert(m, t), Convert(m, Peak(values)))
    BY <2>1, <2>4, <2>7, WorseDeviates
  <2>9. m \in ReportMetrics[n]
    BY <2>1 DEF CoreMetrics, NotListed, ReportMetrics, Nets
  <2>. QED
    BY <2>1, <2>7, <2>8, <2>9 DEF Processed, Reported
<1>. QED
  BY <1>1, Inductive, PTL

=============================================================================
