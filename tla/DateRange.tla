----------------------------- MODULE DateRange -----------------------------
(***************************************************************************)
(* The date filters of a business query: conversion to the column's type,  *)
(* the default range, and the check that bounds the days a query reads.    *)
(*                                                                         *)
(* Time is counted in half days, so that day d is {2*d, 2*d + 1}: an even  *)
(* number is midnight.  A value is [at |-> time, dateOnly |-> BOOLEAN]: a  *)
(* date without a time of day is midnight and says so.  Filters are        *)
(* [op, values], values a sequence: two for between, any number for in,    *)
(* one otherwise.                                                          *)
(***************************************************************************)
EXTENDS Integers, Sequences, FiniteSets, FiniteSetsExt, SequencesExt

CONSTANTS
  MaxDays,      \* self_service_max_days
  DefaultDays,  \* self_service_default_days
  Today

ASSUME DaysAssumption ==
  /\ MaxDays \in Nat \ {0} /\ DefaultDays \in 1..MaxDays /\ Today \in Nat /\ DefaultDays <= Today + 1

Instants  == [at : Nat, dateOnly : BOOLEAN]
Operators == {"between", "in", "eq", "ne", "gt", "gte", "lt", "lte", "is_null", "is_not_null"}

IsDateFilter(f) ==
  /\ f \in [op : Operators, values : Seq(Instants)]
  /\ f.op # "in" => Len(f.values) = IF f.op = "between" THEN 2 ELSE 1

Day(t) == t \div 2

Before == {"lt", "lte"}
After  == {"gt", "gte"}

\* What the column can hold: on a date column a time of day is dropped.
Converted(v, timestamp) == IF timestamp THEN v ELSE [v EXCEPT !.at = 2 * Day(v.at)]

DateFilter(op, values) == [op |-> op, values |-> values]

(***************************************************************************)
(* A between whose end is a bare date covers that whole day.               *)
(***************************************************************************)
ConvertedFilter(f, timestamp) ==
  LET c == [f EXCEPT !.values = [i \in DOMAIN @ |-> Converted(@[i], timestamp)]] IN
  IF timestamp /\ f.op = "between" /\ f.values[2].dateOnly
    THEN <<DateFilter("gte", <<c.values[1]>>),
           DateFilter("lt", <<[c.values[2] EXCEPT !.at = @ + 2]>>)>>
    ELSE <<c>>

DefaultRange(timestamp) ==
  LET start == [at |-> 2 * (Today - (DefaultDays - 1)), dateOnly |-> TRUE]
      end   == [at |-> 2 * Today, dateOnly |-> TRUE]
  IN IF timestamp THEN <<DateFilter("gte", <<start>>),
                         DateFilter("lt", <<[end EXCEPT !.at = @ + 2]>>)>>
                  ELSE <<DateFilter("between", <<start, end>>)>>

(***************************************************************************)
(* The filters of the base table's date column as they are executed.       *)
(***************************************************************************)
DateFilters(filters, timestamp) ==
  IF filters = <<>> THEN DefaultRange(timestamp)
  ELSE FlattenSeq([i \in DOMAIN filters |-> ConvertedFilter(filters[i], timestamp)])

Times(f) == {f.values[i].at : i \in DOMAIN f.values}

\* min() of an empty list: an exception that is no BusinessQueryValidationError.
Raises(filters) == \E i \in DOMAIN filters : filters[i].op = "in" /\ filters[i].values = <<>>

Lower(f) == CASE f.op \in {"between", "eq"} \cup After -> {f.values[1].at}
              [] f.op = "in" -> {Min(Times(f))}
              [] OTHER -> {}

Upper(f) == CASE f.op = "between" -> {f.values[2].at}
              [] f.op \in {"eq"} \cup Before -> {f.values[1].at}
              [] f.op = "in" -> {Max(Times(f))}
              [] OTHER -> {}

Lowers(filters) == UNION {Lower(filters[i]) : i \in DOMAIN filters}
Uppers(filters) == UNION {Upper(filters[i]) : i \in DOMAIN filters}

(***************************************************************************)
(* The operator of the first of the filters with the smallest upper bound. *)
(***************************************************************************)
EndOperator(filters) ==
  filters[Min({i \in DOMAIN filters : Upper(filters[i]) = {Min(Uppers(filters))}})].op

\* Mutant: the last day is taken to be excluded, whatever the operator.
EndNotCounted(filters) ==
  /\ Lowers(filters) # {} /\ Uppers(filters) # {}
  /\ Min(Uppers(filters)) >= Max(Lowers(filters))
  /\ Day(Min(Uppers(filters))) - Day(Max(Lowers(filters))) <= MaxDays

RangeAllowed(filters) ==
  /\ Lowers(filters) # {} /\ Uppers(filters) # {}
  /\ LET start == Max(Lowers(filters))
         end   == Min(Uppers(filters))
         span  == Day(end) - Day(start)
     IN /\ end >= start
        /\ span <= IF EndOperator(filters) = "lt" THEN MaxDays ELSE MaxDays - 1

DatesAccepted(filters, timestamp) == RangeAllowed(DateFilters(filters, timestamp))

(***************************************************************************)
(* What the database makes of the filters: the days of which they let a    *)
(* row through.  A column of type date holds midnights only.               *)
(***************************************************************************)
Holds(f, t) ==
  CASE f.op = "between" -> f.values[1].at <= t /\ t <= f.values[2].at
    [] f.op = "eq"  -> t = f.values[1].at
    [] f.op = "ne"  -> t # f.values[1].at
    [] f.op = "in"  -> t \in Times(f)
    [] f.op = "gt"  -> t > f.values[1].at
    [] f.op = "gte" -> t >= f.values[1].at
    [] f.op = "lt"  -> t < f.values[1].at
    [] f.op = "lte" -> t <= f.values[1].at
    [] f.op = "is_null" -> FALSE
    [] f.op = "is_not_null" -> TRUE

DaysRead(filters, timestamp, days) ==
  LET times == {t \in 0..2 * days + 1 : timestamp \/ t = 2 * Day(t)}
  IN {Day(t) : t \in {u \in times : \A i \in DOMAIN filters : Holds(filters[i], u)}}
=============================================================================
