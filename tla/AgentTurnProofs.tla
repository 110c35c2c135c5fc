-------------------------- MODULE AgentTurnProofs --------------------------
(***************************************************************************)
(* Proofs about AgentTurn for any texts, proposals and bounds: a task is   *)
(* made of the user's own words, and every answer of results of its own    *)
(* turn, within one budget.                                                *)
(*                                                                         *)
(* A conversation without a snapshot replays its texts, however many they  *)
(* are: what the replay leads to is shown by induction on their number.    *)
(* The library's induction theorem takes a predicate, which the provers    *)
(* cannot instantiate; LeastElement and UpTo below speak of a set instead. *)
(***************************************************************************)
EXTENDS AgentTurn, TLAPS, WellFoundedInduction, FiniteSetTheorems, SequenceTheorems

(* The fields of the arguments of a tool. *)
Keys == {"province", "dist", "county", "cell", "vendor", "level", "target"}

(* Arguments are records of these fields, each of its own type, and any   *)
(* such record is arguments of a tool.                                     *)
LEMMA ArgumentsDomain ==
  ASSUME NEW args \in Arguments
  PROVE  /\ DOMAIN args = Keys /\ args = [key \in Keys |-> args[key]]
         /\ args.province \in {Home, None}          /\ args.dist \in Cities \cup {All, None}
         /\ args.county \in Counties \cup {All, None} /\ args.cell \in Cells \cup {None}
         /\ args.vendor \in Vendors \cup {All, None}  /\ args.level \in Levels \cup {None}
         /\ args.target \in {"all", "one", None}
BY DEF Arguments, Keys

(* A record with the keys of a call and a value of its kind at each is a   *)
(* call's arguments.                                                       *)
LEMMA ArgumentsMember ==
  ASSUME NEW args, DOMAIN args = Keys, args = [key \in Keys |-> args[key]],
         args["province"] \in {Home, None},          args["dist"] \in Cities \cup {All, None},
         args["county"] \in Counties \cup {All, None}, args["cell"] \in Cells \cup {None},
         args["vendor"] \in Vendors \cup {All, None},  args["level"] \in Levels \cup {None},
         args["target"] \in {"all", "one", None}
  PROVE  args \in Arguments
BY DEF Arguments, Keys

(* dict.update overwrites the fields the patch has.                        *)
LEMMA UpdatedType ==
  ASSUME NEW args \in Arguments, NEW patch \in Arguments
  PROVE  /\ Updated(args, patch) \in Arguments
         /\ \A key \in Keys : Updated(args, patch)[key] = IF patch[key] = None THEN args[key] ELSE patch[key]
<1> DEFINE u == Updated(args, patch)
<1>1. DOMAIN u = Keys /\ u = [key \in Keys |-> u[key]]
  BY ArgumentsDomain DEF Updated
<1>2. \A key \in Keys : u[key] = IF patch[key] = None THEN args[key] ELSE patch[key]
  BY ArgumentsDomain DEF Updated
<1> HIDE DEF u
<1>3. u \in Arguments
  <2> USE ArgumentsDomain
  <2>1. u["province"] \in {Home, None} BY <1>2 DEF Keys
  <2>2. u["dist"] \in Cities \cup {All, None} BY <1>2 DEF Keys
  <2>3. u["county"] \in Counties \cup {All, None} BY <1>2 DEF Keys
  <2>4. u["cell"] \in Cells \cup {None} BY <1>2 DEF Keys
  <2>5. u["vendor"] \in Vendors \cup {All, None} BY <1>2 DEF Keys
  <2>6. u["level"] \in Levels \cup {None} BY <1>2 DEF Keys
  <2>7. u["target"] \in {"all", "one", None} BY <1>2 DEF Keys
  <2> QED BY <1>1, <2>1, <2>2, <2>3, <2>4, <2>5, <2>6, <2>7, ArgumentsMember
<1> QED BY <1>2, <1>3 DEF u

(* The patch of a text are its words, but for a province implied.          *)
LEMMA PatchType ==
  ASSUME NEW said \in Text
  PROVE  /\ Patch(said) \in Arguments /\ said.words \in Arguments
         /\ \A key \in Keys \ {"province"} : Patch(said)[key] = said.words[key]
<1>1. said.words \in Arguments
  BY DEF Text
<1> QED BY <1>1, ArgumentsDomain DEF Patch, Arguments, Keys

-----------------------------------------------------------------------------
(* A task whose places and vendor are said in the texts S, and which asks  *)
(* no area function for a cell; what is carried is such a task or none.    *)
Owned(args, S) == \A key \in {"dist", "county", "vendor"} : Plain(args[key]) \in SaidIn(S, key)
IsTask(t, S) ==
  /\ t \in Task /\ Owned(t.args, S)
  /\ t.tool = "batch" => t.args.cell = None
Carried(t, S) == t = None \/ IsTask(t, S)

(* More texts say more. *)
LEMMA CarriedGrows ==
  ASSUME NEW S, NEW R, S \subseteq R, NEW t, Carried(t, S)
  PROVE  Carried(t, R)
BY DEF Carried, IsTask, Owned, SaidIn

(* A wildcard and an absent field are the same to the scope.               *)
LEMMA PlainNone == Plain(None) = None
BY DEF Plain

(* The fields of no arguments, and of the defaults of a new task.          *)
LEMMA NoArgumentsType == NoArguments \in Arguments /\ \A key \in Keys : NoArguments[key] = None
BY DEF NoArguments, Arguments, Keys

(* The defaults of a tool are arguments, and name no place, cell or        *)
(* vendor.                                                                 *)
LEMMA DefaultsType ==
  ASSUME NEW tool
  PROVE  /\ Defaults(tool) \in Arguments
         /\ \A key \in {"province", "dist", "county", "cell", "vendor"} : Defaults(tool)[key] = None
<1> DEFINE level == IF tool \in Analysis THEN Conservative ELSE None
           target == IF tool = "batch" THEN "all" ELSE None
<1>1. level \in Levels \cup {None} /\ target \in {"all", "one", None}
  BY ContextAssumption
<1>2. ASSUME NEW args \in Arguments, NEW x \in Levels \cup {None}, NEW y \in {"all", "one", None}
      PROVE  /\ [args EXCEPT !.level = x, !.target = y] \in Arguments
             /\ \A key \in {"province", "dist", "county", "cell", "vendor"} :
                  [args EXCEPT !.level = x, !.target = y][key] = args[key]
  BY DEF Arguments
<1>3. Defaults(tool) = [NoArguments EXCEPT !.level = level, !.target = target]
  BY Zenon DEF Defaults, level, target
<1> HIDE DEF level, target
<1> DEFINE args == [NoArguments EXCEPT !.level = level, !.target = target]
<1>4. /\ args \in Arguments
      /\ \A key \in {"province", "dist", "county", "cell", "vendor"} : args[key] = NoArguments[key]
  BY <1>1, <1>2, NoArgumentsType, Zenon
<1> HIDE DEF args
<1> QED BY <1>3, <1>4, NoArgumentsType DEF Keys, args

(* What is said stays said when a patch that is said is merged into it.    *)
LEMMA UpdatedOwned ==
  ASSUME NEW S, NEW args \in Arguments, Owned(args, S), NEW patch \in Arguments, Owned(patch, S)
  PROVE  Owned(Updated(args, patch), S)
BY UpdatedType DEF Owned, Keys

(* A text says its own patch. *)
LEMMA PatchOwned ==
  ASSUME NEW S, NEW said \in Text \cap S
  PROVE  Owned(Patch(said), S)
BY PatchType DEF Owned, SaidIn, Keys

(* A new task takes its conditions from its text alone; an area analysis   *)
(* is routed to only if no cell is named.                                  *)
LEMMA NewTaskIsTask ==
  ASSUME NEW S, NEW said \in Text \cap S, Route(said) # "none"
  PROVE  IsTask(NewTask(said), S)
<1>1. Route(said) \in {"single", "batch", "report"} /\ (Route(said) = "batch" => said.words.cell = None)
  <2>1. EnergyRoute(said) \in {"none", "single", "batch"}
    BY DEF EnergyRoute
  <2>2. EnergyRoute(said) = "batch" => said.words.cell = None
    BY DEF EnergyRoute
  <2> QED BY <2>1, <2>2 DEF Route
<1> DEFINE args == Updated(Defaults(Route(said)), Patch(said))
<1>2. args \in Arguments
  BY UpdatedType, DefaultsType, PatchType
<1>3. Owned(args, S)
  <2>1. Owned(Defaults(Route(said)), S)
    BY DefaultsType, PlainNone DEF Owned, SaidIn
  <2> QED BY <2>1, PatchOwned, UpdatedOwned, DefaultsType, PatchType
<1>4. Route(said) = "batch" => args.cell = None
  <2>1. Patch(said).cell = said.words.cell
    BY PatchType DEF Keys
  <2> QED BY <1>1, <2>1, UpdatedType, DefaultsType, PatchType DEF Keys
<1> HIDE DEF args
<1>5. NewTask(said) = [tool |-> Route(said), args |-> args]
  BY DEF NewTask, args
<1> QED BY <1>1, <1>2, <1>3, <1>4, <1>5 DEF IsTask, Task, Scoped, Analysis

(* Forgetting the old area leaves the rest of what was said.               *)
LEMMA ForgottenType ==
  ASSUME NEW S, NEW previous, IsTask(previous, S), NEW said \in Text
  PROVE  /\ Forgotten(previous, said) \in Arguments /\ Owned(Forgotten(previous, said), S)
         /\ previous.tool = "batch" => Forgotten(previous, said).cell = None
<1>1. previous.args \in Arguments
  BY DEF IsTask, Task
<1> DEFINE cleared == [previous.args EXCEPT !.dist = None, !.county = None, !.cell = None]
<1>2. cleared \in Arguments /\ Owned(cleared, S) /\ cleared.cell = None
  <2>1. cleared \in Arguments
    BY <1>1 DEF Arguments
  <2>2. cleared.dist = None /\ cleared.county = None /\ cleared.cell = None /\ cleared.vendor = previous.args.vendor
    BY <1>1 DEF Arguments
  <2> HIDE DEF cleared
  <2>3. Owned(cleared, S)
    BY <2>2, PlainNone DEF IsTask, Owned, SaidIn
  <2> QED BY <2>1, <2>2, <2>3
<1>3. Forgotten(previous, said) \in {cleared, previous.args}
  BY DEF Forgotten
<1> QED BY <1>1, <1>2, <1>3 DEF IsTask

(* Patching merges the text into the task; a cell turns an analysis into   *)
(* one of that cell.                                                       *)
LEMMA PatchedIsTask ==
  ASSUME NEW S, NEW previous, IsTask(previous, S), NEW said \in Text \cap S
  PROVE  IsTask(Patched(previous, said), S)
<1> DEFINE args == Updated(Forgotten(previous, said), Patch(said))
           one  == [args EXCEPT !.province = None, !.dist = None, !.county = None, !.vendor = None]
<1>1. args \in Arguments /\ Owned(args, S)
  BY ForgottenType, UpdatedType, PatchType, PatchOwned, UpdatedOwned
<1>2. previous.tool = "batch" /\ said.words.cell = None => args.cell = None
  <2>1. Patch(said).cell = said.words.cell
    BY PatchType DEF Keys
  <2> QED BY <2>1, ForgottenType, UpdatedType, PatchType DEF Keys
<1> HIDE DEF args
<1>3. one \in Arguments
  BY <1>1 DEF Arguments
<1>4. one.dist = None /\ one.county = None /\ one.vendor = None
  BY <1>1 DEF Arguments
<1> HIDE DEF one
<1>5. Owned(one, S)
  BY <1>4, PlainNone DEF Owned, SaidIn
<1>6. previous.tool \in Scoped \cup Analysis
  BY DEF IsTask, Task
<1>7. CASE said.words.cell # None /\ previous.tool \in Analysis
  <2>1. Patched(previous, said) = [tool |-> "single", args |-> one]
    BY <1>7 DEF Patched, args, one
  <2> QED BY <2>1, <1>3, <1>5 DEF IsTask, Task, Analysis
<1>8. CASE ~(said.words.cell # None /\ previous.tool \in Analysis)
  <2>1. Patched(previous, said) = [tool |-> previous.tool, args |-> args]
    BY <1>8 DEF Patched, args
  <2> QED BY <2>1, <1>1, <1>2, <1>6, <1>8 DEF IsTask, Task, Analysis
<1> QED BY <1>7, <1>8

(* A follow-up is patched: no other branch of _reduce_task applies.        *)
LEMMA FollowUpIsPatched ==
  ASSUME NEW previous, NEW said, IsFollowUp(previous, said)
  PROVE  Reduced(previous, said) = Patched(previous, said) /\ previous # None
<1>1. ~said.ambiguous /\ Route(said) = "none" /\ previous # None
  BY DEF IsFollowUp
<1>2. ~RefersBack(previous, said)
  BY DEF RefersBack
<1> QED BY <1>1, <1>2 DEF Reduced

(* One step of _reduce_task, whatever the text. *)
LEMMA ReducedIsCarried ==
  ASSUME NEW S, NEW previous, Carried(previous, S), NEW said \in Text \cap S
  PROVE  Carried(Reduced(previous, said), S)
<1>1. CASE ~said.ambiguous /\ Route(said) # "none"
  <2>1. Reduced(previous, said) = NewTask(said)
    <3>1. ~IsFollowUp(previous, said) /\ ~RefersBack(previous, said)
      BY <1>1 DEF IsFollowUp, RefersBack
    <3> QED BY <1>1, <3>1 DEF Reduced
  <2> QED BY <2>1, <1>1, NewTaskIsTask DEF Carried
<1>2. CASE IsFollowUp(previous, said)
  <2>1. Reduced(previous, said) = Patched(previous, said) /\ previous # None
    BY <1>2, FollowUpIsPatched
  <2> QED BY <2>1, PatchedIsTask DEF Carried
<1>3. CASE ~(~said.ambiguous /\ Route(said) # "none") /\ ~IsFollowUp(previous, said)
  <2>1. Reduced(previous, said) \in {None, previous}
    BY <1>3 DEF Reduced, RefersBack
  <2> QED BY <2>1 DEF Carried
<1> QED BY <1>1, <1>2, <1>3

-----------------------------------------------------------------------------
(* Any set of numbers has a least one: the intervals from 0 to its         *)
(* elements have a minimal one under inclusion, which is well-founded on   *)
(* finite sets.                                                            *)
LEMMA LeastElement ==
  ASSUME NEW T \in SUBSET Nat, T # {}
  PROVE  \E m \in T : \A k \in T : m <= k
<1> DEFINE below == {0 .. n : n \in T}
           order == StrictSubsetOrdering(Nat)
<1>1. below \subseteq FiniteSubsetsOf(Nat)
  <2>1. ASSUME NEW n \in T PROVE 0 .. n \in FiniteSubsetsOf(Nat)
    <3>1. IsFiniteSet(0 .. n)
      BY FS_Interval
    <3> QED BY <3>1 DEF FiniteSubsetsOf
  <2> QED BY <2>1
<1>2. IsWellFoundedOn(order, FiniteSubsetsOf(Nat))
  BY FS_StrictSubsetOrderingWellFounded
<1>3. below # {}
  OBVIOUS
<1>4. PICK least \in below : \A other \in below : <<other, least>> \notin order
  <2> HIDE DEF below, order
  <2> QED BY <1>1, <1>2, <1>3, WFMin
<1>5. PICK m \in T : least = 0 .. m
  OBVIOUS
<1>6. ASSUME NEW k \in T, k < m PROVE FALSE
  <2>1. 0 .. k \subseteq 0 .. m /\ m \in 0 .. m /\ m \notin 0 .. k
    BY <1>6
  <2>2. <<0 .. k, 0 .. m>> \in order
    BY <2>1 DEF StrictSubsetOrdering
  <2> QED BY <2>2, <1>4, <1>5
<1> QED BY <1>6

(* Induction up to n, over a set instead of a predicate. *)
LEMMA UpTo ==
  ASSUME NEW n \in Nat, NEW S, 0 \in S, \A k \in 0 .. n - 1 : k \in S => k + 1 \in S
  PROVE  0 .. n \subseteq S
<1> DEFINE T == (0 .. n) \ S
<1> SUFFICES ASSUME T # {} PROVE FALSE
  OBVIOUS
<1>1. PICK m \in T : \A k \in T : m <= k
  <2>1. T \in SUBSET Nat
    OBVIOUS
  <2> HIDE DEF T
  <2> QED BY <2>1, LeastElement
<1>2. m - 1 \in 0 .. n - 1 /\ m - 1 \in S
  BY <1>1
<1> QED BY <1>1, <1>2

(* However many texts a conversation has, replaying them leads to a task   *)
(* made of their words.  The recursive function exists: approximations up  *)
(* to each number of texts do.                                             *)
LEMMA ReplayedIsCarried ==
  ASSUME NEW texts \in Seq(Text)
  PROVE  Carried(Replayed(texts), ToSet(texts))
<1> DEFINE N == Len(texts)
           Follows(f, n) == f = [k \in 0 .. n |-> IF k = 0 THEN None ELSE Reduced(f[k - 1], texts[k])]
<1>1. N \in Nat
  OBVIOUS
<1>2. \E f : Follows(f, N)
  <2> DEFINE S == {n \in 0 .. N : \E f : Follows(f, n)}
  <2>1. 0 \in S
    <3> DEFINE g == [k \in 0 .. 0 |-> None]
    <3>1. \A k \in 0 .. 0 : k = 0
      OBVIOUS
    <3>2. Follows(g, 0)
      BY <3>1
    <3>3. \E f : Follows(f, 0)
      <4> HIDE DEF g, Follows
      <4> QED BY <3>2
    <3> HIDE DEF Follows
    <3> QED BY <3>3, <1>1
  <2>2. ASSUME NEW n \in 0 .. N - 1, n \in S PROVE n + 1 \in S
    <3>1. PICK f : Follows(f, n)
      BY <2>2
    <3> DEFINE g == [k \in 0 .. n + 1 |-> IF k = n + 1 THEN Reduced(f[n], texts[n + 1]) ELSE f[k]]
    <3>2. ASSUME NEW k \in 0 .. n + 1
          PROVE  g[k] = IF k = 0 THEN None ELSE Reduced(g[k - 1], texts[k])
      <4>1. CASE k = n + 1
        BY <4>1
      <4>2. CASE k \in 0 .. n
        <5>1. g[k] = f[k] /\ (k # 0 => g[k - 1] = f[k - 1])
          BY <4>2
        <5>2. f[k] = IF k = 0 THEN None ELSE Reduced(f[k - 1], texts[k])
          BY <3>1, <4>2
        <5> QED BY <5>1, <5>2
      <4> QED BY <4>1, <4>2
    <3>3. Follows(g, n + 1)
      BY <3>2
    <3>4. \E h : Follows(h, n + 1)
      <4> HIDE DEF g, Follows
      <4> QED BY <3>3
    <3> HIDE DEF Follows
    <3> QED BY <3>4, <1>1
  <2> HIDE DEF S
  <2>3. 0 .. N \subseteq S
    BY <1>1, <2>1, <2>2, UpTo
  <2> QED BY <1>1, <2>3 DEF S
<1> DEFINE current == CHOOSE f : Follows(f, N)
<1>3. Follows(current, N)
  BY <1>2
<1>4. Replayed(texts) = current[N]
  BY DEF Replayed
<1> HIDE DEF current
<1>5. 0 .. N \subseteq {n \in 0 .. N : Carried(current[n], ToSet(texts))}
  <2> DEFINE S == {n \in 0 .. N : Carried(current[n], ToSet(texts))}
  <2>1. 0 \in S
    BY <1>1, <1>3 DEF Carried
  <2>2. ASSUME NEW n \in 0 .. N - 1, n \in S PROVE n + 1 \in S
    <3>1. texts[n + 1] \in Text \cap ToSet(texts)
      BY <1>1 DEF ToSet
    <3>2. current[n + 1] = Reduced(current[n], texts[n + 1])
      BY <1>1, <1>3
    <3> QED BY <1>1, <2>2, <3>1, <3>2, ReducedIsCarried
  <2> HIDE DEF S
  <2> QED BY <1>1, <2>1, <2>2, UpTo DEF S
<1> QED BY <1>1, <1>4, <1>5

-----------------------------------------------------------------------------
(* What a call needs of the arguments it is given: no cell for an area     *)
(* function, and only words of the user where no scope is imposed.         *)
Given(tool, args, S) ==
  /\ args \in Arguments
  /\ tool = "batch" => args.cell = None
  /\ ScopeFree(tool, args) => Owned(args, S)

(* Plain drops wildcards. *)
LEMMA PlainTwice ==
  ASSUME NEW value, NEW rest \in {All, None}
  PROVE  /\ Plain(Plain(value)) = Plain(value)
         /\ Plain(OrElse(Plain(value), rest)) = Plain(value)
         /\ Plain(value) \in {None, value}
BY ContextAssumption DEF Plain, OrElse

(* normalize_analysis_arguments: the task's conditions over the model's.   *)
LEMMA AnalysisArgumentsGiven ==
  ASSUME NEW S, NEW tool, NEW args, Given(tool, args, S), NEW current, Carried(current, S), NEW said \in Text
  PROVE  Given(tool, AnalysisArguments(tool, args, said, current), S)
<1> DEFINE merged == IF current # None /\ current.tool = tool THEN Updated(args, current.args) ELSE args
           level  == IF said.words.level = None THEN merged.level ELSE said.words.level
           args2  == [merged EXCEPT !.level = level]
<1>1. CASE tool \notin Analysis
  BY <1>1 DEF AnalysisArguments
<1>2. CASE tool \in Analysis
  <2>1. AnalysisArguments(tool, args, said, current) = args2
    BY <1>2 DEF AnalysisArguments
  <2>2. ScopeFree(tool, args) => tool = "single"
    BY <1>2 DEF ScopeFree, Scoped, Analysis
  <2>3. Given(tool, merged, S)
    <3>1. CASE current # None /\ current.tool = tool
      <4>1. IsTask(current, S) /\ current.args \in Arguments
        BY <3>1 DEF Carried, IsTask, Task
      <4>2. merged \in Arguments /\ merged = Updated(args, current.args)
        BY <3>1, <4>1, UpdatedType DEF Given
      <4>3. tool = "batch" => merged.cell = None
        BY <3>1, <4>1, UpdatedType DEF Given, IsTask, Keys
      <4>4. ScopeFree(tool, merged) => Owned(merged, S)
        <5>1. ScopeFree(tool, merged) => ScopeFree(tool, args)
          BY <1>2 DEF ScopeFree, Scoped, Analysis
        <5>2. Owned(args, S) => Owned(Updated(args, current.args), S)
          BY <4>1, UpdatedOwned DEF IsTask, Given
        <5> QED BY <4>2, <5>1, <5>2 DEF Given
      <4> QED BY <4>2, <4>3, <4>4 DEF Given
    <3>2. CASE ~(current # None /\ current.tool = tool)
      BY <3>2 DEF merged
    <3> QED BY <3>1, <3>2
  <2> HIDE DEF merged
  <2>4. level \in Levels \cup {None}
    BY <2>3, PatchType, ArgumentsDomain DEF Given
  <2> HIDE DEF level
  <2>5. args2 \in Arguments /\ \A key \in Keys \ {"level"} : args2[key] = merged[key]
    BY <2>3, <2>4 DEF Given, Arguments, Keys
  <2> HIDE DEF args2
  <2>6. ScopeFree(tool, args2) => ScopeFree(tool, merged)
    BY <1>2 DEF ScopeFree, Scoped, Analysis
  <2>7. Owned(merged, S) => Owned(args2, S)
    BY <2>5 DEF Owned, Keys
  <2> QED BY <2>1, <2>3, <2>5, <2>6, <2>7 DEF Given, Keys
<1> QED BY <1>1, <1>2

(* The scope comes from the task or from the text itself.                  *)
LEMMA SpokenType ==
  ASSUME NEW S, NEW current, Carried(current, S), NEW said \in Text \cap S
  PROVE  Spoken(said, current) \in Arguments /\ Owned(Spoken(said, current), S)
<1>1. said.words \in Arguments /\ Owned(said.words, S)
  BY PatchType DEF Owned, SaidIn
<1> QED BY <1>1 DEF Spoken, Carried, IsTask, Task

(* normalize_tool_scope puts the user's words in the model's place.        *)
LEMMA ScopeType ==
  ASSUME NEW S, NEW args \in Arguments, NEW current, Carried(current, S), NEW said \in Text \cap S
  PROVE  LET scope == Scope(args, said, current) IN
         scope \in Arguments /\ scope.cell = args.cell /\ Owned(scope, S)
<1> DEFINE spoken == Spoken(said, current)
           province == spoken.province
           city == Plain(spoken.dist)  county == Plain(spoken.county)
           vendor == VendorOf(args, said, current)
           half  == [args EXCEPT !.province = province, !.dist = city]
           scope == [half EXCEPT !.county = county, !.vendor = vendor]
<1>1. Scope(args, said, current) = scope
  BY DEF Scope
<1>2. spoken \in Arguments /\ Owned(spoken, S)
  BY SpokenType
<1> HIDE DEF spoken
<1>3. province \in {Home, None} /\ city \in Cities \cup {All, None} /\ county \in Counties \cup {All, None}
  BY <1>2, ArgumentsDomain DEF Plain
<1>4. Plain(city) \in SaidIn(S, "dist") /\ Plain(county) \in SaidIn(S, "county")
  BY <1>2, PlainTwice DEF Owned
<1>5. vendor \in Vendors \cup {All, None} /\ Plain(vendor) \in SaidIn(S, "vendor")
  <2>1. vendor \in {Plain(spoken.vendor), said.words.vendor}
    BY DEF VendorOf, spoken
  <2>2. Plain(Plain(spoken.vendor)) \in SaidIn(S, "vendor")
    BY <1>2, PlainTwice DEF Owned
  <2>3. Plain(said.words.vendor) \in SaidIn(S, "vendor")
    BY DEF SaidIn
  <2>4. {Plain(spoken.vendor), said.words.vendor} \subseteq Vendors \cup {All, None}
    BY <1>2, PatchType, ArgumentsDomain DEF Plain
  <2> HIDE DEF vendor
  <2> QED BY <2>1, <2>2, <2>3, <2>4
<1> HIDE DEF province, city, county, vendor
<1>6. half \in Arguments /\ half.cell = args.cell /\ half.dist = city
  BY <1>3 DEF Arguments
<1> HIDE DEF half
<1>7. /\ scope \in Arguments /\ scope.cell = half.cell
      /\ scope.dist = half.dist /\ scope.county = county /\ scope.vendor = vendor
  <2> DEFINE third == [half EXCEPT !.county = county]
  <2>1. /\ third \in Arguments /\ third.cell = half.cell
        /\ third.dist = half.dist /\ third.county = county
    BY <1>3, <1>6 DEF Arguments
  <2>2. scope = [third EXCEPT !.vendor = vendor]
    OBVIOUS
  <2> HIDE DEF third, scope
  <2> QED BY <1>5, <2>1, <2>2 DEF Arguments
<1> HIDE DEF scope
<1> QED BY <1>1, <1>4, <1>5, <1>6, <1>7 DEF Owned

(* A wildcard for what nobody named adds nothing to what was said.         *)
LEMMA OrElseOwned ==
  ASSUME NEW S, NEW key, NEW value, Plain(value) \in SaidIn(S, key), NEW rest \in {All, None}
  PROVE  Plain(OrElse(value, rest)) \in SaidIn(S, key)
BY DEF Plain, OrElse, SaidIn

(* Whatever the tool, it runs in a scope the user said. *)
LEMMA NormalisedGiven ==
  ASSUME NEW S, NEW tool, NEW args, Given(tool, args, S), NEW current, Carried(current, S),
         NEW said \in Text \cap S
  PROVE  LET n == Normalised(tool, args, said, current) IN
         /\ n \in Arguments /\ (tool = "batch" => n.cell = None)
         /\ tool \in Scoped \cup Analysis => Owned(n, S)
<1> DEFINE scope == Scope(args, said, current)
           rest  == IF tool \in {"report", "anomaly"} THEN All ELSE None
           city  == OrElse(scope.dist, rest)  vendor == OrElse(scope.vendor, rest)
           named == [scope EXCEPT !.dist = city, !.vendor = vendor]
           province == OrElse(scope.province, Home)  county == OrElse(scope.county, rest)
           whole == [named EXCEPT !.province = province, !.county = county]
           part  == [named EXCEPT !.province = None, !.county = None]
<1>1. scope \in Arguments /\ scope.cell = args.cell /\ Owned(scope, S)
  BY ScopeType DEF Given
<1> HIDE DEF scope
<1>2. rest \in {All, None}
  OBVIOUS
<1> HIDE DEF rest
<1>3. /\ city \in Cities \cup {All, None} /\ vendor \in Vendors \cup {All, None}
      /\ province \in {Home, None} /\ county \in Counties \cup {All, None}
  BY <1>1, <1>2, ArgumentsDomain DEF OrElse
<1>4. /\ Plain(city) \in SaidIn(S, "dist") /\ Plain(vendor) \in SaidIn(S, "vendor")
      /\ Plain(county) \in SaidIn(S, "county") /\ Plain(None) \in SaidIn(S, "county")
  BY <1>1, <1>2, OrElseOwned, PlainNone DEF Owned, SaidIn
<1> HIDE DEF city, vendor, province, county
<1>5. /\ named \in Arguments /\ named.cell = scope.cell /\ named.dist = city /\ named.vendor = vendor
  BY <1>1, <1>3 DEF Arguments
<1> HIDE DEF named
<1>6. /\ whole \in Arguments /\ whole.cell = scope.cell /\ Owned(whole, S)
  <2>1. /\ whole \in Arguments /\ whole.cell = named.cell /\ whole.dist = named.dist
        /\ whole.vendor = named.vendor /\ whole.county = county
    BY <1>3, <1>5 DEF Arguments
  <2> HIDE DEF whole
  <2> QED BY <1>4, <1>5, <2>1 DEF Owned
<1>7. /\ part \in Arguments /\ part.cell = scope.cell /\ Owned(part, S)
  <2>1. /\ part \in Arguments /\ part.cell = named.cell /\ part.dist = named.dist
        /\ part.vendor = named.vendor /\ part.county = None
    BY <1>3, <1>5 DEF Arguments
  <2> HIDE DEF part
  <2> QED BY <1>4, <1>5, <2>1 DEF Owned
<1>8. CASE ScopeFree(tool, args)
  <2>1. Normalised(tool, args, said, current) = args
    <3>1. tool \notin {"batch", "report"}
      BY <1>8 DEF ScopeFree, Scoped
    <3> QED BY <1>8, <3>1 DEF Normalised
  <2> QED BY <1>8, <2>1 DEF Given
<1>9. CASE ~ScopeFree(tool, args) /\ tool \in {"batch", "report"}
  <2>1. Normalised(tool, args, said, current) = whole
    BY <1>9 DEF Normalised, whole, named, city, vendor, province, county, rest, scope
  <2> HIDE DEF whole
  <2> QED BY <1>1, <1>6, <2>1 DEF Given
<1>10. CASE ~ScopeFree(tool, args) /\ tool \notin {"batch", "report"}
  <2>1. Normalised(tool, args, said, current) = part
    BY <1>10 DEF Normalised, part, named, city, vendor, rest, scope
  <2> HIDE DEF part
  <2> QED BY <1>1, <1>7, <1>10, <2>1
<1> QED BY <1>8, <1>9, <1>10

(* EnergyFunctionTool.call: both normalisations, one after the other.      *)
LEMMA EffectiveGiven ==
  ASSUME NEW S, NEW tool, NEW args, Given(tool, args, S), NEW current, Carried(current, S),
         NEW said \in Text \cap S
  PROVE  LET e == Effective(tool, args, said, current) IN
         /\ e \in Arguments /\ (tool = "batch" => e.cell = None)
         /\ tool \in Scoped \cup Analysis => Owned(e, S)
BY AnalysisArgumentsGiven, NormalisedGiven DEF Effective

-----------------------------------------------------------------------------
(* The texts a task of this turn may be made of, and the calls that ended. *)
TurnTexts == ToSet(saved.texts) \cup {text}
Done      == {i \in DOMAIN calls : calls[i].state = "done"}

(* The loop: a turn has a text, nothing is left over between turns, an     *)
(* answer ends it, the steps are not used up before, and a follow-up is    *)
(* bound to a task.                                                        *)
LoopIsSound ==
  /\ phase # "idle" => text \in Texts
  /\ phase = "idle" => completed = << >> /\ calls = << >>
  /\ phase # "ended" => answer = "none" /\ steps < MaxSteps
  /\ followUp => IsTask(asked, TurnTexts)

(* What is waited for is taken from the budget, and only once. *)
BudgetIsSpent == waited + remaining = Budget

(* The context is the saved one, the user's message and one entry for each *)
(* result of this turn: so results before that message are of other turns. *)
ContextIsOfTheTurn ==
  phase # "idle" =>
    /\ Len(context) = Len(saved.context) + 1 + Len(completed)
    /\ context[Len(saved.context) + 1] = UserSays
    /\ \A i \in Len(saved.context) + 2 .. Len(context) : context[i] # UserSays

(* A call that has ended has left a result.                                *)
DoneHaveResults == Cardinality(Done) <= Len(completed)

(* A call runs with conditions that would make a task.                     *)
CallsFit ==
  \A i \in DOMAIN calls :
    HasTask(calls[i].tool) => IsTask([tool |-> calls[i].tool, args |-> calls[i].args], TurnTexts)

(* Tasks are made of the texts: the saved one of the saved texts, so that  *)
(* a turn that leaves no text leaves no task.                              *)
TasksAreCarried ==
  /\ Carried(saved.task, ToSet(saved.texts))
  /\ Carried(asked, TurnTexts) /\ Carried(task, TurnTexts)
  /\ CallsFit

(* The inductive invariant. *)
IInv ==
  /\ TypeOK /\ LoopIsSound /\ BudgetIsSpent /\ ContextIsOfTheTurn /\ DoneHaveResults
  /\ TasksAreCarried /\ AnswerHasEvidence

-----------------------------------------------------------------------------
(* _current_turn_context starts at the last message of the user.           *)
LEMMA ThisTurnStarts ==
  ASSUME NEW s \in Seq(Entry), NEW k \in 1 .. Len(s), s[k] = UserSays,
         \A i \in k + 1 .. Len(s) : s[i] # UserSays
  PROVE  ThisTurn(s) = SubSeq(s, k + 1, Len(s))
<1> DEFINE I == {i \in 1 .. Len(s) : s[i] = UserSays}
<1>1. k \in I /\ \A i \in I : k >= i
  OBVIOUS
<1>2. Max(I) = k
  <2>1. \A x \in I : (\A y \in I : x >= y) => x = k
    BY <1>1
  <2> HIDE DEF I
  <2> QED BY <1>1, <2>1 DEF Max
<1>3. SelectLastInSeq(s, LAMBDA e : e = UserSays) = k
  <2>1. I # {}
    BY <1>1
  <2> QED BY <1>2, <2>1 DEF SelectLastInSeq
<1> QED BY <1>3 DEF ThisTurn

(* A sequence is empty if and only if its length is 0. *)
LEMMA NonEmpty ==
  ASSUME NEW S, NEW s \in Seq(S)
  PROVE  s # << >> <=> Len(s) > 0
OBVIOUS

(* So the middleware sees a result exactly if this turn has one.           *)
LEMMA ResultsOfTheTurn ==
  ASSUME TypeOK, ContextIsOfTheTurn, phase # "idle"
  PROVE  HasResult <=> completed # << >>
<1> DEFINE k == Len(saved.context) + 1
<1>1. /\ saved.context \in Seq(Entry) /\ context \in Seq(Entry) /\ completed \in Seq(Result)
      /\ Len(context) = k + Len(completed)
  BY DEF TypeOK, ContextIsOfTheTurn
<1>2. k \in 1 .. Len(context) /\ k + 1 \in 1 .. Len(context) + 1
  BY <1>1
<1>3. context[k] = UserSays /\ \A i \in k + 1 .. Len(context) : context[i] # UserSays
  BY <1>1 DEF ContextIsOfTheTurn
<1> HIDE DEF k
<1>4. ThisTurn(context) = SubSeq(context, k + 1, Len(context))
  BY <1>1, <1>2, <1>3, ThisTurnStarts
<1>5. Len(SubSeq(context, k + 1, Len(context))) = Len(completed)
  BY <1>1, <1>2
<1>6. HasResult <=> SubSeq(context, k + 1, Len(context)) # << >>
  BY <1>4 DEF HasResult
<1>7. SubSeq(context, k + 1, Len(context)) \in Seq(Entry)
  BY <1>1, <1>2
<1> DEFINE sub == SubSeq(context, k + 1, Len(context))
<1> HIDE DEF sub
<1>8. (sub # << >> <=> Len(sub) > 0) /\ (completed # << >> <=> Len(completed) > 0)
  BY <1>1, <1>7, NonEmpty DEF sub
<1> QED BY <1>5, <1>6, <1>8 DEF sub

-----------------------------------------------------------------------------
(* Steps that change neither calls nor context nor tasks.                  *)
LEMMA SameTurn ==
  ASSUME IInv, phase # "idle", phase' # "idle",
         UNCHANGED <<saved, text, asked, followUp, task, context, calls, completed>>
  PROVE  TasksAreCarried' /\ ContextIsOfTheTurn' /\ DoneHaveResults'
<1>1. TurnTexts' = TurnTexts /\ Done' = Done
  BY DEF TurnTexts, Done
<1>2. TasksAreCarried'
  BY <1>1 DEF IInv, TasksAreCarried, CallsFit
<1>3. ContextIsOfTheTurn'
  BY DEF IInv, ContextIsOfTheTurn
<1> QED BY <1>1, <1>2, <1>3 DEF IInv, DoneHaveResults

(* Waiting takes from the budget what it adds to the time waited.          *)
LEMMA Waits ==
  ASSUME TypeOK, BudgetIsSpent, \/ \E d \in 0 .. remaining : Spend(d)
                                \/ UNCHANGED <<remaining, waited>>
  PROVE  BudgetIsSpent' /\ remaining' \in 0 .. Budget /\ waited' \in Nat
<1>1. Budget \in Nat /\ remaining \in 0 .. Budget /\ waited \in Nat /\ waited + remaining = Budget
  BY TurnAssumption DEF TypeOK, BudgetIsSpent
<1>2. CASE \E d \in 0 .. remaining : Spend(d)
  <2>1. PICK d \in 0 .. remaining : remaining' = remaining - d /\ waited' = waited + d
    BY <1>2 DEF Spend
  <2> QED BY <1>1, <2>1 DEF BudgetIsSpent
<1>3. CASE UNCHANGED <<remaining, waited>>
  BY <1>1, <1>3 DEF BudgetIsSpent
<1> QED BY <1>2, <1>3

(* A new conversation has no task, and nothing to wait for.                *)
LEMMA InitHolds ==
  ASSUME Init
  PROVE  IInv
<1> USE DEF Init
<1>1. /\ saved \in [task : {None}, restored : {FALSE}, texts : {<< >>} \cup Histories, context : {<< >>}]
      /\ saved.task = None /\ saved.context = << >>
  OBVIOUS
<1>2. TypeOK
  <2>1. {<< >>} \cup Histories \subseteq Seq(Texts) /\ << >> \in Seq(Entry)
    BY TurnAssumption, EmptySeq
  <2>2. saved \in [task : Task \cup {None}, restored : BOOLEAN, texts : Seq(Texts), context : Seq(Entry)]
    BY ONLY <1>1, <2>1
  <2>3. turns \in 0 .. MaxTurns /\ remaining \in 0 .. Budget /\ waited \in Nat /\ steps \in 0 .. MaxSteps
    BY TurnAssumption
  <2>4. calls \in Seq(Call) /\ Len(calls) <= MaxCalls /\ context \in Seq(Entry) /\ completed \in Seq(Result)
    BY TurnAssumption
  <2> QED BY <2>2, <2>3, <2>4 DEF TypeOK
<1>3. LoopIsSound
  BY TurnAssumption DEF LoopIsSound
<1>4. BudgetIsSpent /\ ContextIsOfTheTurn /\ AnswerHasEvidence
  BY TurnAssumption DEF BudgetIsSpent, ContextIsOfTheTurn, AnswerHasEvidence, EvidenceBeforeAnswer, DirectAnswerIsWhole
<1>5. DoneHaveResults
  <2>1. Done = {}
    BY DEF Done
  <2> QED BY <2>1, FS_EmptySet DEF DoneHaveResults
<1>6. TasksAreCarried
  BY <1>1 DEF TasksAreCarried, CallsFit, Carried
<1> QED BY <1>2, <1>3, <1>4, <1>5, <1>6 DEF IInv

(* A turn starts from the saved task, or from the replay of the texts.     *)
LEMMA BeginHolds ==
  ASSUME IInv, NEW t \in Texts, Begin(t)
  PROVE  IInv'
<1> USE DEF Begin
<1>1. TypeOK /\ LoopIsSound /\ TasksAreCarried
  BY DEF IInv
<1>2. /\ saved.texts \in Seq(Texts) /\ saved.texts \in Seq(Text) /\ saved.context \in Seq(Entry)
      /\ t \in Text \cap TurnTexts'
  BY <1>1, TurnAssumption DEF TypeOK, TurnTexts
<1>3. Carried(Prior, TurnTexts')
  <2>1. ToSet(saved.texts) \subseteq TurnTexts'
    BY DEF TurnTexts
  <2>2. Carried(Prior, ToSet(saved.texts))
    BY <1>1, <1>2, ReplayedIsCarried DEF Prior, TasksAreCarried
  <2> QED BY <2>1, <2>2, CarriedGrows
<1>4. Carried(asked', TurnTexts') /\ Carried(task', TurnTexts')
  BY <1>2, <1>3, ReducedIsCarried
<1>5. followUp' => IsTask(asked', TurnTexts')
  <2> SUFFICES ASSUME IsFollowUp(Prior, t) PROVE IsTask(Reduced(Prior, t), TurnTexts')
    OBVIOUS
  <2>1. Reduced(Prior, t) = Patched(Prior, t) /\ Prior # None
    BY FollowUpIsPatched
  <2> QED BY <2>1, <1>2, <1>3, PatchedIsTask DEF Carried
<1>6. TypeOK'
  <2>1. asked' \in Task \cup {None} /\ task' \in Task \cup {None}
    BY <1>4 DEF Carried, IsTask
  <2>2. context' \in Seq(Entry)
    BY <1>2 DEF Entry
  <2>3. turns' \in 0 .. MaxTurns
    BY <1>1, TurnAssumption DEF TypeOK
  <2>4. followUp' \in BOOLEAN
    BY DEF IsFollowUp
  <2> QED BY <1>1, <2>1, <2>2, <2>3, <2>4 DEF TypeOK
<1>7. LoopIsSound'
  BY <1>1, <1>5 DEF LoopIsSound
<1>8. completed = << >> /\ calls = << >>
  BY <1>1 DEF LoopIsSound
<1>9. ContextIsOfTheTurn'
  BY <1>2, <1>8 DEF ContextIsOfTheTurn
<1>10. DoneHaveResults' /\ BudgetIsSpent'
  BY DEF IInv, DoneHaveResults, Done, BudgetIsSpent
<1>11. TasksAreCarried'
  BY <1>1, <1>4, <1>8 DEF TasksAreCarried, CallsFit
<1>12. AnswerHasEvidence'
  BY <1>1 DEF LoopIsSound, AnswerHasEvidence, EvidenceBeforeAnswer, DirectAnswerIsWhole
<1> QED BY <1>6, <1>7, <1>9, <1>10, <1>11, <1>12 DEF IInv

(* Summaries, questions to the model and the one retry.                    *)
LEMMA WaitHolds ==
  ASSUME IInv, CompressContext \/ BadArguments \/ AskModel
  PROVE  IInv'
<1>1. TypeOK /\ LoopIsSound /\ BudgetIsSpent /\ AnswerHasEvidence
  BY DEF IInv
<1>2. /\ phase \in {"compress", "model", "reason"} /\ phase' \in {"reason", "model"}
      /\ UNCHANGED <<saved, turns, text, asked, followUp, task, context, calls, completed, answer, steps>>
  BY DEF CompressContext, BadArguments, AskModel, Untouched
<1>3. planned' \in BOOLEAN /\ retried' \in BOOLEAN
  BY <1>1 DEF CompressContext, BadArguments, AskModel, TypeOK
<1>4. BudgetIsSpent' /\ remaining' \in 0 .. Budget /\ waited' \in Nat
  <2>1. (\E d \in 0 .. remaining : Spend(d)) \/ UNCHANGED <<remaining, waited>>
    BY DEF CompressContext, BadArguments, AskModel
  <2> QED BY <1>1, <2>1, Waits
<1>5. TasksAreCarried' /\ ContextIsOfTheTurn' /\ DoneHaveResults'
  BY <1>2, SameTurn
<1>6. TypeOK'
  BY <1>1, <1>2, <1>3, <1>4 DEF TypeOK
<1>7. LoopIsSound'
  BY <1>1, <1>2 DEF LoopIsSound, TurnTexts
<1>8. AnswerHasEvidence'
  BY <1>1, <1>2 DEF LoopIsSound, AnswerHasEvidence, EvidenceBeforeAnswer, DirectAnswerIsWhole
<1> QED BY <1>4, <1>5, <1>6, <1>7, <1>8 DEF IInv

(* The reply fails, or the model answers: with a result, or about one.     *)
LEMMA EndHolds ==
  ASSUME IInv, ModelFails \/ ModelAnswers
  PROVE  IInv'
<1>1. TypeOK /\ LoopIsSound /\ BudgetIsSpent /\ ContextIsOfTheTurn
  BY DEF IInv
<1>2. /\ phase \in {"compress", "model"} /\ phase' = "ended" /\ answer' \in {"none", "model"}
      /\ UNCHANGED <<saved, turns, text, asked, followUp, task, context, planned, steps, retried, calls, completed>>
  BY DEF ModelFails, ModelAnswers, Timed, Ends, Untouched
<1>3. BudgetIsSpent' /\ remaining' \in 0 .. Budget /\ waited' \in Nat
  BY <1>1, Waits DEF ModelFails, ModelAnswers
<1>4. TasksAreCarried' /\ ContextIsOfTheTurn' /\ DoneHaveResults'
  BY <1>2, SameTurn
<1>5. TypeOK'
  BY <1>1, <1>2, <1>3 DEF TypeOK
<1>6. LoopIsSound'
  BY <1>1, <1>2 DEF LoopIsSound, TurnTexts
<1>7. AnswerHasEvidence'
  <2>1. answer' = "model" => HasResult \/ text.kind = "explain"
    BY DEF ModelFails, ModelAnswers, Ends, MayAnswer, LastFailed
  <2>2. HasResult <=> completed # << >>
    BY <1>1, <1>2, ResultsOfTheTurn
  <2> QED BY <1>2, <2>1, <2>2 DEF AnswerHasEvidence, EvidenceBeforeAnswer, DirectAnswerIsWhole
<1> QED BY <1>3, <1>4, <1>5, <1>6, <1>7 DEF IInv

(* The schemas: an area function takes no cell, the others take no area.   *)
LEMMA AcceptedFields ==
  ASSUME NEW tool, NEW args \in Arguments, Accepted(tool, args)
  PROVE  /\ tool = "batch" => args.cell = None
         /\ tool \in {"single", "business", "guidance"} =>
              args.dist = None /\ args.county = None /\ args.vendor = None
<1>1. \A key \in Keys : key \notin Parameters(tool) => args[key] = None
  BY ArgumentsDomain DEF Accepted
<1>2. tool = "batch" => "cell" \notin Parameters(tool)
  BY DEF Parameters, Area
<1>3. tool \in {"single", "business", "guidance"} => Parameters(tool) \cap {"dist", "county", "vendor"} = {}
  BY DEF Parameters
<1> QED BY <1>1, <1>2, <1>3 DEF Keys

(* What the model proposes within the schema is given in this sense.       *)
LEMMA ProposalIsGiven ==
  ASSUME NEW S, NEW tool \in Tools, NEW args \in Proposals, Accepted(tool, args)
  PROVE  Given(tool, args, S)
<1>1. args \in Arguments
  BY TurnAssumption
<1>2. CASE tool \in Scoped \ {"param"}
  BY <1>1, <1>2, AcceptedFields DEF Given, ScopeFree
<1>3. CASE tool = "param"
  <2>1. args.cell # None => Owned(args, S)
    <3> SUFFICES ASSUME args.cell # None, NEW key \in {"dist", "county", "vendor"}
                 PROVE  Plain(args[key]) \in SaidIn(S, key)
      BY DEF Owned
    <3>1. Plain(args[key]) \in BesideCell(key)
      BY DEF BesideCell
    <3> QED BY <3>1 DEF SaidIn
  <2> QED BY <1>1, <1>3, <2>1 DEF Given, ScopeFree, Scoped
<1>4. CASE tool \in {"single", "business", "guidance"}
  <2>1. Owned(args, S)
    BY <1>1, <1>4, AcceptedFields, PlainNone DEF Owned, SaidIn
  <2> QED BY <1>1, <1>4, <2>1 DEF Given
<1> QED BY <1>2, <1>3, <1>4 DEF Tools, Analysis, Scoped

(* A call that starts runs with conditions that would make a task.         *)
LEMMA RunningIsCall ==
  ASSUME TasksAreCarried, text \in Texts, NEW tool \in Tools, NEW args, Given(tool, args, TurnTexts)
  PROVE  /\ Running(tool, args) \in Call
         /\ Running(tool, args).state = "running" /\ Running(tool, args).tool = tool
         /\ HasTask(tool) => IsTask([tool |-> tool, args |-> Running(tool, args).args], TurnTexts)
<1> DEFINE e == Effective(tool, args, text, asked)
           clear == Clear(tool, args)
<1>1. text \in Text \cap TurnTexts
  BY TurnAssumption DEF TurnTexts
<1>2. /\ e \in Arguments /\ (tool = "batch" => e.cell = None)
      /\ tool \in Scoped \cup Analysis => Owned(e, TurnTexts)
  BY <1>1, EffectiveGiven DEF TasksAreCarried
<1>3. clear \in BOOLEAN
  BY DEF Clear
<1>4. Running(tool, args) = [tool |-> tool, args |-> e, clear |-> clear, state |-> "running"]
  BY DEF Running
<1> HIDE DEF e, clear
<1>5. Running(tool, args) \in Call
  BY <1>2, <1>3, <1>4 DEF Call
<1>6. HasTask(tool) => IsTask([tool |-> tool, args |-> e], TurnTexts)
  BY <1>2 DEF HasTask, IsTask, Task
<1> QED BY <1>4, <1>5, <1>6

(* Any number of calls starts with none of them done. *)
LEMMA CallsBegin ==
  ASSUME IInv, phase \in {"reason", "model"}, phase' = "act", planned' \in BOOLEAN,
         (\E d \in 0 .. remaining : Spend(d)) \/ UNCHANGED <<remaining, waited>>,
         UNCHANGED <<saved, turns, text, asked, followUp, task, context, steps, retried, completed, answer>>,
         NEW n \in 1 .. MaxCalls, calls' \in [1 .. n -> Call],
         \A i \in 1 .. n :
           /\ calls'[i].state = "running"
           /\ HasTask(calls'[i].tool) => IsTask([tool |-> calls'[i].tool, args |-> calls'[i].args], TurnTexts)
  PROVE  IInv'
<1>1. TypeOK /\ LoopIsSound /\ BudgetIsSpent /\ ContextIsOfTheTurn /\ TasksAreCarried
  BY DEF IInv
<1>2. BudgetIsSpent' /\ remaining' \in 0 .. Budget /\ waited' \in Nat
  BY <1>1, Waits
<1>3. n \in Nat /\ MaxCalls \in Nat /\ n <= MaxCalls /\ DOMAIN calls' = 1 .. n
  BY TurnAssumption
<1>4. calls' \in Seq(Call) /\ Len(calls') = n
  BY <1>3
<1>5. TypeOK'
  BY <1>1, <1>2, <1>3, <1>4 DEF TypeOK
<1>6. TurnTexts' = TurnTexts
  BY DEF TurnTexts
<1>7. LoopIsSound'
  BY <1>1, <1>6 DEF LoopIsSound
<1>8. ContextIsOfTheTurn'
  BY <1>1 DEF ContextIsOfTheTurn
<1>9. DoneHaveResults'
  <2>1. Done' = {}
    BY <1>3 DEF Done
  <2>2. Len(completed') >= 0
    BY <1>5 DEF TypeOK
  <2> QED BY <2>1, <2>2, FS_EmptySet DEF DoneHaveResults
<1>10. TasksAreCarried'
  BY <1>1, <1>3, <1>6 DEF TasksAreCarried, CallsFit
<1>11. AnswerHasEvidence'
  BY <1>1 DEF LoopIsSound, AnswerHasEvidence, EvidenceBeforeAnswer, DirectAnswerIsWhole
<1> QED BY <1>2, <1>5, <1>7, <1>8, <1>9, <1>10, <1>11 DEF IInv

(* The two plans that need no model. *)
LEMMA PlanHolds ==
  ASSUME IInv, PlanGuidance \/ PlanFollowUp
  PROVE  IInv'
<1>1. LoopIsSound /\ TasksAreCarried
  BY DEF IInv
<1>2. PICK tool, args : PlanLocally(tool, args) /\ tool \in Tools /\ Given(tool, args, TurnTexts)
  <2>1. CASE PlanGuidance
    <3>1. Given("guidance", NoArguments, TurnTexts)
      BY NoArgumentsType, PlainNone DEF Given, Owned, SaidIn, Keys
    <3> QED BY <2>1, <3>1 DEF PlanGuidance, Tools
  <2>2. CASE PlanFollowUp
    <3>1. IsTask(asked, TurnTexts) /\ PlanLocally(asked.tool, asked.args)
      BY <1>1, <2>2 DEF PlanFollowUp, FollowUpIsPlan, LoopIsSound
    <3> QED BY <3>1 DEF IsTask, Task, Tools, Given
  <2> QED BY <2>1, <2>2
<1>3. phase = "reason" /\ phase' = "act" /\ planned' = TRUE /\ calls' = <<Running(tool, args)>>
  BY <1>2 DEF PlanGuidance, PlanFollowUp, PlanLocally
<1>4. UNCHANGED <<saved, turns, text, asked, followUp, task, context, remaining, waited, steps,
                  retried, completed, answer>>
  BY <1>2 DEF PlanLocally, Untouched
<1>5. /\ Running(tool, args) \in Call
      /\ Running(tool, args).state = "running" /\ Running(tool, args).tool = tool
      /\ HasTask(tool) => IsTask([tool |-> tool, args |-> Running(tool, args).args], TurnTexts)
  BY <1>1, <1>2, <1>3, RunningIsCall DEF LoopIsSound
<1>6. calls' \in [1 .. 1 -> Call] /\ \A i \in 1 .. 1 : calls'[i] = Running(tool, args)
  BY <1>3, <1>5
<1>7. 1 \in 1 .. MaxCalls
  BY TurnAssumption
<1> QED BY <1>3, <1>4, <1>5, <1>6, <1>7, CallsBegin

(* The tool choice names tools that exist. *)
LEMMA MayCallTools ==
  ASSUME IInv
  PROVE  MayCall \subseteq Tools
<1>1. asked # None => asked.tool \in Tools
  BY DEF IInv, TasksAreCarried, Carried, IsTask, Task, Tools
<1>2. EnergyRoute(text) \in {"none", "single", "batch"}
  BY DEF EnergyRoute
<1>3. RequiredTools \subseteq Tools
  <2> DEFINE energy == IF asked # None THEN asked.tool ELSE EnergyRoute(text)
  <2>1. energy \in Tools \cup {"none"}
    BY <1>1, <1>2 DEF Tools, Analysis
  <2>2. CASE text.kind = "guidance"
    BY <2>2 DEF RequiredTools, Tools
  <2>3. CASE text.kind = "dimension"
    BY <2>3 DEF RequiredTools, Tools
  <2>4. CASE text.kind \notin {"guidance", "dimension"} /\ energy # "none"
    <3>1. RequiredTools = {energy}
      BY <2>4 DEF RequiredTools
    <3> QED BY <2>1, <2>4, <3>1
  <2>5. CASE text.kind \notin {"guidance", "dimension"} /\ energy = "none"
    <3>1. RequiredTools = IF "report" \in text.goals THEN {"report"} ELSE Tools \ {"guidance"}
      BY <2>5 DEF RequiredTools
    <3> QED BY <3>1 DEF Tools, Scoped
  <2> QED BY <2>2, <2>3, <2>4, <2>5
<1> QED BY <1>3 DEF MayCall

(* The model's own calls. *)
LEMMA ModelCallsHolds ==
  ASSUME IInv, ModelCalls
  PROVE  IInv'
<1>1. LoopIsSound /\ TasksAreCarried /\ TypeOK
  BY DEF IInv
<1>2. /\ phase = "model" /\ phase' = "act" /\ \E d \in 0 .. remaining : Spend(d)
      /\ UNCHANGED <<saved, turns, text, asked, followUp, task, context, planned, steps, retried,
                     completed, answer>>
  BY DEF ModelCalls, Untouched
<1> PICK n \in 1 .. MaxCalls : \E tools \in [1 .. n -> MayCall], args \in [1 .. n -> Proposals] :
      /\ \A i \in 1 .. n : Accepted(tools[i], args[i])
      /\ calls' = [i \in 1 .. n |-> Running(tools[i], args[i])]
  BY DEF ModelCalls
<1>3. PICK tools \in [1 .. n -> MayCall], args \in [1 .. n -> Proposals] :
        /\ \A i \in 1 .. n : Accepted(tools[i], args[i])
        /\ calls' = [i \in 1 .. n |-> Running(tools[i], args[i])]
  OBVIOUS
<1>4. ASSUME NEW i \in 1 .. n
      PROVE  /\ calls'[i] \in Call /\ calls'[i].state = "running"
             /\ HasTask(calls'[i].tool) => IsTask([tool |-> calls'[i].tool, args |-> calls'[i].args], TurnTexts)
  <2>1. tools[i] \in Tools /\ Given(tools[i], args[i], TurnTexts)
    BY <1>3, MayCallTools, ProposalIsGiven
  <2>2. calls'[i] = Running(tools[i], args[i])
    BY <1>3
  <2> DEFINE tool == tools[i]  arg == args[i]
  <2>3. text \in Texts
    BY <1>1, <1>2 DEF LoopIsSound
  <2> HIDE DEF tool, arg
  <2>4. /\ Running(tool, arg) \in Call
        /\ Running(tool, arg).state = "running" /\ Running(tool, arg).tool = tool
        /\ HasTask(tool) => IsTask([tool |-> tool, args |-> Running(tool, arg).args], TurnTexts)
    BY <1>1, <2>1, <2>3, RunningIsCall DEF tool, arg
  <2>5. calls'[i] = Running(tool, arg)
    BY <2>2 DEF tool, arg
  <2> QED BY <2>4, <2>5
<1>5. calls' \in [1 .. n -> Call]
  BY <1>3, <1>4
<1>6. planned' \in BOOLEAN
  BY <1>1, <1>2 DEF TypeOK
<1> QED BY <1>2, <1>4, <1>5, <1>6, CallsBegin

(* Every outcome is a result of its call. *)
LEMMA OutcomesType ==
  ASSUME NEW call \in Call, NEW result \in Outcomes(call)
  PROVE  result \in Result /\ result.tool = call.tool
<1>1. call.tool \in Tools
  BY DEF Call
<1>2. \A direct \in BOOLEAN : Success(call, direct) \in Result /\ Success(call, direct).tool = call.tool
  BY <1>1 DEF Success, Result
<1>3. Failure(call) \in Result /\ Failure(call).tool = call.tool
  <2> DEFINE unclear == ~call.clear
  <2>1. unclear \in BOOLEAN
    OBVIOUS
  <2>2. Failure(call) = [tool |-> call.tool, ok |-> FALSE, direct |-> FALSE, clarifies |-> unclear]
    BY DEF Failure
  <2> HIDE DEF unclear
  <2> QED BY <1>1, <2>1, <2>2 DEF Result
<1>4. result \in {Success(call, TRUE), Success(call, FALSE), Failure(call)}
  BY <1>1 DEF Outcomes, HasTask, Scoped, Analysis
<1> QED BY <1>2, <1>3, <1>4

(* What can follow the end of a call: the batch goes on, or the reply ends, *)
(* or the loop takes another step.                                         *)
LEMMA BatchEnds ==
  ASSUME NEW result, NEW results,
         CASE ~WholeBatch(calls') -> UNCHANGED <<phase, answer, steps>>
           [] WholeBatch(calls') /\ DirectAnswer(results) -> Ends("direct") /\ UNCHANGED steps
           [] WholeBatch(calls') /\ Len(results) = 1 /\ result.clarifies ->
                Ends("clarification") /\ UNCHANGED steps
           [] OTHER -> /\ steps' = steps + 1
                       /\ IF OutOfSteps(steps') THEN Ends("none")
                                               ELSE phase' = "compress" /\ UNCHANGED answer
  PROVE  \/ UNCHANGED <<phase, answer, steps>>
         \/ WholeBatch(calls') /\ DirectAnswer(results) /\ Ends("direct") /\ UNCHANGED steps
         \/ WholeBatch(calls') /\ Ends("clarification") /\ UNCHANGED steps
         \/ steps' = steps + 1 /\ OutOfSteps(steps') /\ Ends("none")
         \/ steps' = steps + 1 /\ ~OutOfSteps(steps') /\ phase' = "compress" /\ UNCHANGED answer
<1>1. CASE ~WholeBatch(calls')
  BY <1>1
<1>2. CASE WholeBatch(calls') /\ DirectAnswer(results) /\ ~(Len(results) = 1 /\ result.clarifies)
  BY <1>2
<1>3. CASE WholeBatch(calls') /\ ~DirectAnswer(results) /\ Len(results) = 1 /\ result.clarifies
  BY <1>3
<1>4. CASE WholeBatch(calls') /\ DirectAnswer(results) /\ Len(results) = 1 /\ result.clarifies
  BY <1>4
<1>5. CASE WholeBatch(calls') /\ ~DirectAnswer(results) /\ ~(Len(results) = 1 /\ result.clarifies)
  BY <1>5
<1> QED BY <1>1, <1>2, <1>3, <1>4, <1>5

(* A call ends: its result is kept, entered and may end the reply.         *)
LEMMA ToolEndsHolds ==
  ASSUME IInv, NEW i \in 1 .. MaxCalls, ToolEnds(i)
  PROVE  IInv'
<1>1. /\ TypeOK /\ LoopIsSound /\ BudgetIsSpent /\ ContextIsOfTheTurn /\ DoneHaveResults /\ TasksAreCarried
  BY DEF IInv
<1>2. /\ phase = "act" /\ i \in DOMAIN calls /\ calls[i].state = "running"
      /\ calls' = [calls EXCEPT ![i].state = "done"]
      /\ UNCHANGED <<saved, turns, text, asked, followUp, planned, remaining, waited, retried>>
  BY DEF ToolEnds, Untouched
<1>3. PICK result \in Outcomes(calls[i]) :
        /\ completed' = Append(completed, result)
        /\ context' = Append(context, [tool |-> result.tool, ok |-> result.ok])
        /\ task' = TaskAfter(calls[i], result)
        /\ CASE ~WholeBatch(calls') -> UNCHANGED <<phase, answer, steps>>
             [] WholeBatch(calls') /\ DirectAnswer(completed') -> Ends("direct") /\ UNCHANGED steps
             [] WholeBatch(calls') /\ Len(completed') = 1 /\ result.clarifies ->
                  Ends("clarification") /\ UNCHANGED steps
             [] OTHER -> /\ steps' = steps + 1
                         /\ IF OutOfSteps(steps') THEN Ends("none")
                                                 ELSE phase' = "compress" /\ UNCHANGED answer
  BY Zenon DEF ToolEnds
<1>4. \/ UNCHANGED <<phase, answer, steps>>
      \/ WholeBatch(calls') /\ DirectAnswer(completed') /\ Ends("direct") /\ UNCHANGED steps
      \/ WholeBatch(calls') /\ Ends("clarification") /\ UNCHANGED steps
      \/ steps' = steps + 1 /\ OutOfSteps(steps') /\ Ends("none")
      \/ steps' = steps + 1 /\ ~OutOfSteps(steps') /\ phase' = "compress" /\ UNCHANGED answer
  BY <1>3, BatchEnds
<1>5. /\ calls \in Seq(Call) /\ completed \in Seq(Result) /\ context \in Seq(Entry)
      /\ saved.context \in Seq(Entry) /\ Len(calls) <= MaxCalls
  BY <1>1 DEF TypeOK
<1>6. calls[i] \in Call /\ result \in Result /\ result.tool = calls[i].tool
  BY <1>2, <1>5, OutcomesType
<1>7. /\ calls' \in Seq(Call) /\ Len(calls') = Len(calls) /\ DOMAIN calls' = DOMAIN calls
      /\ calls'[i].state = "done"
      /\ \A j \in DOMAIN calls : calls'[j].tool = calls[j].tool /\ calls'[j].args = calls[j].args
      /\ \A j \in DOMAIN calls \ {i} : calls'[j] = calls[j]
  <2> DEFINE after == [calls[i] EXCEPT !.state = "done"]
  <2>1. /\ after \in Call /\ after.state = "done"
        /\ after.tool = calls[i].tool /\ after.args = calls[i].args
    BY <1>6 DEF Call
  <2>2. calls' = [calls EXCEPT ![i] = after]
    BY <1>2
  <2> HIDE DEF after
  <2>3. /\ calls' \in Seq(Call) /\ Len(calls') = Len(calls) /\ DOMAIN calls' = DOMAIN calls
        /\ calls'[i] = after /\ \A j \in DOMAIN calls \ {i} : calls'[j] = calls[j]
    <3>1. calls \in Seq(Call) /\ i \in DOMAIN calls /\ after \in Call
      BY <1>2, <1>5, <2>1
    <3> QED BY ONLY <3>1, <2>2
  <2> QED BY <1>2, <2>1, <2>3
<1>8. completed' \in Seq(Result) /\ Len(completed') = Len(completed) + 1
  BY <1>3, <1>5, <1>6
<1>9. /\ context' \in Seq(Entry) /\ Len(context') = Len(context) + 1
      /\ context'[Len(context')] # UserSays
      /\ \A j \in 1 .. Len(context) : context'[j] = context[j]
  <2> DEFINE entry == [tool |-> result.tool, ok |-> result.ok]
  <2>1. entry \in Entry /\ entry # UserSays
    BY <1>6 DEF Entry, Result, UserSays, Tools, Scoped, Analysis
  <2> HIDE DEF entry
  <2>2. context' = Append(context, entry)
    BY <1>3 DEF entry
  <2> QED BY <1>5, <2>1, <2>2
<1>10. Carried(task', TurnTexts)
  <2>1. HasTask(calls[i].tool) => IsTask([tool |-> calls[i].tool, args |-> calls[i].args], TurnTexts)
    BY <1>1, <1>2 DEF TasksAreCarried, CallsFit
  <2> QED BY <1>1, <1>3, <2>1 DEF TaskAfter, TasksAreCarried, Carried
<1>11. TurnTexts' = TurnTexts
  BY <1>2 DEF TurnTexts
<1>12. /\ phase' \in {"act", "ended", "compress"} /\ steps' \in 0 .. MaxSteps
       /\ answer' \in {"none", "direct", "clarification"}
       /\ phase' # "ended" => answer' = "none" /\ steps' < MaxSteps
  <2>1. steps \in 0 .. MaxSteps /\ steps < MaxSteps /\ answer = "none" /\ MaxSteps \in Nat
    BY <1>1, <1>2, TurnAssumption DEF TypeOK, LoopIsSound
  <2> QED BY <1>2, <1>4, <2>1 DEF Ends, OutOfSteps
<1>13. TypeOK'
  <2>1. task' \in Task \cup {None}
    BY <1>10 DEF Carried, IsTask
  <2> QED BY <1>1, <1>2, <1>5, <1>7, <1>8, <1>9, <1>12, <2>1 DEF TypeOK
<1>14. LoopIsSound'
  BY <1>1, <1>2, <1>11, <1>12 DEF LoopIsSound
<1>15. BudgetIsSpent'
  BY <1>1, <1>2 DEF BudgetIsSpent
<1>16. ContextIsOfTheTurn'
  <2> DEFINE k == Len(saved.context) + 1
  <2>1. /\ k \in Nat \ {0} /\ Len(completed) \in Nat /\ Len(context) = k + Len(completed)
        /\ context[k] = UserSays /\ saved' = saved /\ phase # "idle"
    BY <1>1, <1>2, <1>5 DEF ContextIsOfTheTurn
  <2>2. \A j \in k + 1 .. Len(context) : context[j] # UserSays
    BY <1>1, <1>2, <1>5 DEF ContextIsOfTheTurn
  <2> HIDE DEF k
  <2>3. /\ Len(context') = k + Len(completed') /\ context'[k] = UserSays
        /\ \A j \in k + 1 .. Len(context') : context'[j] # UserSays
    <3>1. Len(context') = k + Len(completed') /\ Len(context') = Len(context) + 1 /\ k \in 1 .. Len(context)
      <4>1. Len(completed') = Len(completed) + 1 /\ Len(context') = Len(context) + 1
        BY <1>8, <1>9
      <4> QED BY ONLY <4>1, <2>1
    <3>2. ASSUME NEW j \in k + 1 .. Len(context') PROVE context'[j] # UserSays
      <4>1. CASE j = Len(context')
        BY <1>9, <4>1
      <4>2. CASE j \in k + 1 .. Len(context)
        BY <1>9, <2>1, <2>2, <4>2
      <4> QED BY <2>1, <3>1, <4>1, <4>2
    <3> QED BY <1>9, <2>1, <3>1, <3>2
  <2>4. Len(saved.context) + 2 = k + 1
    BY <1>5 DEF k
  <2> QED BY <2>1, <2>3, <2>4 DEF ContextIsOfTheTurn, k
<1>17. DoneHaveResults' /\ (WholeBatch(calls') => Len(calls') <= Len(completed'))
  <2>1. Done' = Done \cup {i} /\ i \notin Done /\ Done' \subseteq 1 .. Len(calls) /\ Len(calls) \in Nat
    <3>1. DOMAIN calls = 1 .. Len(calls) /\ Len(calls) \in Nat
      BY <1>5
    <3>2. \A j \in DOMAIN calls : calls'[j].state = "done" <=> j = i \/ calls[j].state = "done"
      BY <1>7
    <3>3. i \notin Done
      BY <1>2 DEF Done
    <3>4. DOMAIN calls' = DOMAIN calls /\ i \in DOMAIN calls
      BY <1>2, <1>7
    <3>5. Done' = Done \cup {i}
      BY <3>2, <3>4 DEF Done
    <3> QED BY <3>1, <3>3, <3>4, <3>5 DEF Done
  <2>2. IsFiniteSet(1 .. Len(calls)) /\ Cardinality(1 .. Len(calls)) = Len(calls)
    BY <2>1, FS_Interval
  <2>3. IsFiniteSet(Done) /\ Cardinality(Done) \in Nat
    BY <2>1, <2>2, FS_Subset, FS_CardinalityType
  <2>4. Cardinality(Done') = Cardinality(Done) + 1
    BY <2>1, <2>3, FS_AddElement
  <2>5. Cardinality(Done') <= Len(completed')
    BY <1>1, <1>5, <1>8, <2>3, <2>4 DEF DoneHaveResults
  <2>6. WholeBatch(calls') => Done' = 1 .. Len(calls)
    BY <1>5, <1>7 DEF WholeBatch, Done
  <2> QED BY <1>7, <2>2, <2>5, <2>6 DEF DoneHaveResults
<1>18. TasksAreCarried'
  <2>1. CallsFit'
    BY <1>1, <1>7, <1>11 DEF TasksAreCarried, CallsFit
  <2> QED BY <1>1, <1>2, <1>10, <1>11, <2>1 DEF TasksAreCarried
<1>19. AnswerHasEvidence'
  <2>1. answer' # "model"
    BY <1>12
  <2>2. answer' \in {"direct", "clarification"} => WholeBatch(calls') /\ (answer' = "direct" => DirectAnswer(completed'))
    BY <1>1, <1>2, <1>4 DEF Ends, LoopIsSound
  <2> QED BY <1>17, <2>1, <2>2
       DEF AnswerHasEvidence, EvidenceBeforeAnswer, DirectAnswerIsWhole, WholeBatch, DirectAnswer
<1> QED BY <1>13, <1>14, <1>15, <1>16, <1>17, <1>18, <1>19 DEF IInv

(* A turn ends: its task is saved with its text, or neither is.            *)
LEMMA TurnEndsHolds ==
  ASSUME IInv, TurnEnds
  PROVE  IInv'
<1>1. TypeOK /\ LoopIsSound /\ TasksAreCarried
  BY DEF IInv
<1>2. /\ phase = "ended" /\ phase' = "idle" /\ text' = Silence /\ asked' = None /\ followUp' = FALSE
      /\ task' = None /\ context' = << >> /\ planned' = FALSE /\ remaining' = Budget /\ waited' = 0
      /\ steps' = 0 /\ retried' = FALSE /\ calls' = << >> /\ completed' = << >> /\ answer' = "none"
      /\ turns' = turns /\ \E accepted \in BOOLEAN : Save(accepted)
  BY DEF TurnEnds
<1>3. text \in Texts
  BY <1>1, <1>2 DEF LoopIsSound
<1>4. /\ saved' \in [task : Task \cup {None}, restored : BOOLEAN, texts : Seq(Texts), context : Seq(Entry)]
      /\ Carried(saved'.task, ToSet(saved'.texts))
  <2>1. CASE UNCHANGED saved
    BY <1>1, <2>1 DEF TypeOK, TasksAreCarried
  <2>2. CASE saved' = [task |-> task, restored |-> TRUE, context |-> context, texts |-> Append(saved.texts, text)]
    <3>1. saved.texts \in Seq(Texts) /\ task \in Task \cup {None} /\ context \in Seq(Entry)
      BY <1>1 DEF TypeOK
    <3>2. Append(saved.texts, text) \in Seq(Texts)
      BY <1>3, <3>1
    <3>3. TurnTexts \subseteq ToSet(Append(saved.texts, text))
      <4> DEFINE longer == Append(saved.texts, text)
      <4>1. DOMAIN longer = 1 .. Len(saved.texts) + 1 /\ longer[Len(saved.texts) + 1] = text
            /\ \A k \in 1 .. Len(saved.texts) : longer[k] = saved.texts[k]
        BY <3>1
      <4>2. DOMAIN saved.texts = 1 .. Len(saved.texts) /\ Len(saved.texts) \in Nat
        BY <3>1
      <4> HIDE DEF longer
      <4>3. ToSet(saved.texts) \subseteq ToSet(longer) /\ text \in ToSet(longer)
        BY <4>1, <4>2 DEF ToSet
      <4> QED BY <4>3 DEF TurnTexts, longer
    <3>4. Carried(task, ToSet(Append(saved.texts, text)))
      BY <1>1, <3>3, CarriedGrows DEF TasksAreCarried
    <3> QED BY <2>2, <3>1, <3>2, <3>4
  <2> QED BY <1>2, <2>1, <2>2 DEF Save
<1>5. TypeOK'
  <2>1. turns' \in 0 .. MaxTurns
    BY <1>1, <1>2 DEF TypeOK
  <2>2. remaining' \in 0 .. Budget /\ waited' \in Nat /\ steps' \in 0 .. MaxSteps
    BY <1>2, TurnAssumption
  <2>3. calls' \in Seq(Call) /\ Len(calls') <= MaxCalls /\ context' \in Seq(Entry) /\ completed' \in Seq(Result)
    BY <1>2, TurnAssumption
  <2> QED BY <1>2, <1>4, <2>1, <2>2, <2>3 DEF TypeOK
<1>6. LoopIsSound' /\ BudgetIsSpent' /\ ContextIsOfTheTurn'
  BY <1>2, TurnAssumption DEF LoopIsSound, BudgetIsSpent, ContextIsOfTheTurn
<1>7. DoneHaveResults'
  <2>1. Done' = {}
    BY <1>2 DEF Done
  <2> QED BY <1>2, <2>1, FS_EmptySet DEF DoneHaveResults
<1>8. TasksAreCarried'
  BY <1>2, <1>4 DEF TasksAreCarried, CallsFit, Carried
<1>9. AnswerHasEvidence'
  BY <1>2 DEF AnswerHasEvidence, EvidenceBeforeAnswer, DirectAnswerIsWhole
<1> QED BY <1>5, <1>6, <1>7, <1>8, <1>9 DEF IInv

(* The inductive invariant: what the loop, its context, its budget and its *)
(* calls have in common in every state of every turn, for any texts,       *)
(* proposals and bounds.                                                   *)
THEOREM Inductive == Spec => []IInv
<1>1. Init => IInv
  BY InitHolds
<1>2. IInv /\ [Next]_vars => IInv'
  <2> SUFFICES ASSUME IInv, [Next]_vars PROVE IInv'
    OBVIOUS
  <2>1. CASE \E t \in Texts : Begin(t)
    BY <2>1, BeginHolds
  <2>2. CASE Wait
    BY <2>2, WaitHolds, EndHolds DEF Wait
  <2>3. CASE Plan
    BY <2>3, PlanHolds, WaitHolds DEF Plan
  <2>4. CASE BadArguments
    BY <2>4, WaitHolds
  <2>5. CASE ModelCalls
    BY <2>5, ModelCallsHolds
  <2>6. CASE ModelAnswers
    BY <2>6, EndHolds
  <2>7. CASE Act
    BY <2>7, ToolEndsHolds DEF Act
  <2>8. CASE TurnEnds
    BY <2>8, TurnEndsHolds
  <2>9. CASE UNCHANGED vars
    <3>1. UNCHANGED <<saved, turns, phase, text, asked, followUp, task, context, planned, remaining, waited,
                      steps, retried, calls, completed, answer>>
      BY <2>9 DEF vars, request
    <3>2. TurnTexts' = TurnTexts /\ Done' = Done
      BY <3>1 DEF TurnTexts, Done
    <3>3. TypeOK'
      BY <3>1 DEF IInv, TypeOK
    <3>4. LoopIsSound' /\ BudgetIsSpent' /\ ContextIsOfTheTurn' /\ DoneHaveResults'
      BY <3>1, <3>2 DEF IInv, LoopIsSound, BudgetIsSpent, ContextIsOfTheTurn, DoneHaveResults
    <3>5. TasksAreCarried'
      BY <3>1, <3>2 DEF IInv, TasksAreCarried, CallsFit
    <3>6. AnswerHasEvidence'
      BY <3>1 DEF IInv, AnswerHasEvidence, EvidenceBeforeAnswer, DirectAnswerIsWhole
    <3> QED BY <3>3, <3>4, <3>5, <3>6 DEF IInv
  <2> QED BY <2>1, <2>2, <2>3, <2>4, <2>5, <2>6, <2>7, <2>8, <2>9 DEF Next
<1> QED BY <1>1, <1>2, PTL DEF Spec

(* Tasks, contexts, calls and results keep their shape, and the loop stays *)
(* within its steps.                                                       *)
THEOREM TypeCorrect == Spec => []TypeOK
<1>1. IInv => TypeOK
  BY DEF IInv
<1> QED BY <1>1, Inductive, PTL

(* No answer without a result of its own turn, and no direct answer that   *)
(* leaves out a call or a failure: GroundedToolChoiceMiddleware and        *)
(* DirectAnswerMiddleware, for any number of concurrent calls.             *)
THEOREM Evidence == Spec => []AnswerHasEvidence
<1>1. IInv => AnswerHasEvidence
  BY DEF IInv
<1> QED BY <1>1, Inductive, PTL

(* _model_budget: all waiting of a turn stays within one budget.           *)
THEOREM OneBudget == Spec => []WaitIsBounded
<1>1. IInv => WaitIsBounded
  BY TurnAssumption DEF IInv, TypeOK, BudgetIsSpent, WaitIsBounded
<1> QED BY <1>1, Inductive, PTL

(* _reduce_task and normalize_tool_scope, over any number of turns: the    *)
(* places and the vendor of a task were said by the user, and no follow-up *)
(* asks the area function for a cell.                                      *)
THEOREM CarriedOver == Spec => []TaskIsCarriedOver
<1>1. IInv => TaskIsTheUsers
  <2> SUFFICES ASSUME IInv, NEW t \in {saved.task, asked, task} \ {None},
                      NEW key \in {"dist", "county", "vendor"}
               PROVE  Plain(t.args[key]) \in SaidIn(ToSet(saved.texts) \cup {text}, key)
    BY DEF TaskIsTheUsers
  <2>1. Carried(t, TurnTexts)
    <3>1. ToSet(saved.texts) \subseteq TurnTexts
      BY DEF TurnTexts
    <3> QED BY <3>1, CarriedGrows DEF IInv, TasksAreCarried
  <2> QED BY <2>1 DEF Carried, IsTask, Owned, TurnTexts
<1>2. IInv => FollowUpFits
  <2> SUFFICES ASSUME IInv, followUp, asked.tool = "batch" PROVE Accepted("batch", asked.args)
    BY DEF FollowUpFits
  <2>1. asked.args \in Arguments /\ asked.args.cell = None
    BY DEF IInv, LoopIsSound, IsTask, Task
  <2>2. Keys \ {"cell"} \subseteq Parameters("batch")
    BY DEF Keys, Parameters, Area
  <2> QED BY <2>1, <2>2, ArgumentsDomain DEF Accepted
<1> QED BY <1>1, <1>2, Inductive, PTL DEF TaskIsCarriedOver
=============================================================================
