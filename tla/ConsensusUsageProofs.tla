--------------------------- MODULE ConsensusUsageProofs ---------------------------
(***************************************************************************)
(* The usage records of a run follow its completion events: the loop over  *)
(* the replies of a stage adds to both lists in participant order, however *)
(* the calls settled, and stops in both at the first invalid reply.        *)
(***************************************************************************)
EXTENDS ConsensusStreamProofs, FoldLemmas

USE ConsensusAssumption, NoneAssumption

(* The loop over the first k replies of the awaited stage publishes their  *)
(* completions and records their usage, both in participant order.         *)
LEMMA UsagesPublished ==
  ASSUME ControlInv, EventsInv, UsageFollowsCompletions, NEW s \in Stages, pc = s,
         NEW k \in 0 .. Width(s), NEW batch \in Seq(Events), Extends(s, k, batch),
         Silent(batch) \/ \E t \in Stages, o \in Nat : Announces(batch, o, t),
         usages' = usages \o RecordedUsages(s, k), reply' = reply
  PROVE  UsageFollowsCompletions'
  <1> DEFINE n == Len(log)
             m == Len(usages)
  <1>1. /\ TypeOK /\ n \in Nat /\ m \in Nat /\ k \in Nat
        /\ usages \in Seq(InvocationUsage(CallIds))
    BY CallersAreCalls, LenProperties DEF ControlInv, TypeOK
  <1>2. /\ Len(usages') = m + k
        /\ \A i \in 1 .. m : usages'[i] = usages[i]
        /\ \A i \in 1 .. k : usages'[m + i] = RecordUsage(<<s, i>>, reply[<<s, i>>].usage)
    <2> DEFINE new == RecordedUsages(s, k)
    <2>1. new \in Seq(InvocationUsage(CallIds))
      BY <1>1, RecordedType
    <2>2. DOMAIN new = 1 .. k /\ Len(new) \in Nat
      BY <2>1, LenProperties DEF RecordedUsages
    <2>3. Len(new) = k
      BY <1>1, <2>1, <2>2, LenProperties
    <2>4. \A i \in 1 .. k : new[i] = RecordUsage(<<s, i>>, reply[<<s, i>>].usage)
      <3>1. 1 .. k \subseteq Callers(s)
        BY <1>1, CallersAreCalls DEF Callers
      <3> QED BY <3>1 DEF RecordedUsages, Gather
    <2> HIDE DEF new
    <2>5. /\ Len(usages') = m + k
          /\ \A i \in 1 .. m + k : usages'[i] = IF i <= m THEN usages[i] ELSE new[i - m]
      <3>1. usages' = usages \o new
        BY DEF new
      <3>2. /\ Len(usages \o new) = Len(usages) + Len(new)
            /\ \A i \in 1 .. Len(usages) + Len(new) :
                 (usages \o new)[i] = IF i <= Len(usages) THEN usages[i]
                                      ELSE new[i - Len(usages)]
        BY <1>1, <2>1, ConcatProperties
      <3> QED BY <2>3, <3>1, <3>2
    <2>6. \A i \in 1 .. m : i \in 1 .. m + k /\ i <= m
      BY <1>1
    <2>7. \A i \in 1 .. k : m + i \in 1 .. m + k /\ ~ (m + i <= m) /\ (m + i) - m = i
      BY <1>1
    <2> QED BY <2>4, <2>5, <2>6, <2>7
  <1>3. /\ \A i \in 1 .. k : <<s, i>> \in CallIds
        /\ \A c \in CallIds : c[1] = s => c[2] \in Nat \ {0} /\ c = <<s, c[2]>>
        /\ \A c, u : RecordUsage(c, u).call = c
    <2>1. \A i \in 1 .. k : i \in Callers(s)
      BY <1>1, CallersAreCalls DEF Callers
    <2> QED BY <2>1, CallersAreCalls, CallNames DEF RecordUsage
  <1>4. \A c \in CallIds : c[1] = s => Completions(c) = {}
    <2>1. StageNumber[s] \in Nat
      BY StageNumbers
    <2> QED BY <2>1 DEF EventsInv, NotYetCompleted
  <1>5. \A c \in CallIds : Completions(c)' = IF c[1] = s /\ c[2] <= k
                                            THEN Completions(c) \cup {n + c[2]}
                                            ELSE Completions(c)
    <2> SUFFICES ASSUME NEW c \in CallIds
                 PROVE  Completions(c)' = IF c[1] = s /\ c[2] <= k
                                          THEN Completions(c) \cup {n + c[2]}
                                          ELSE Completions(c)
      OBVIOUS
    <2> QED BY <1>1, CompletionsGrow, NoCompletionIn
  <1>6. /\ \A c \in CallIds : c[1] = s => Completions(c)' = IF c[2] <= k THEN {n + c[2]} ELSE {}
        /\ \A c \in CallIds : c[1] # s => Completions(c)' = Completions(c)
    BY <1>4, <1>5
  <1>7. \A i \in 1 .. m : /\ usages[i].call \in CallIds /\ usages[i].call[1] # s
                          /\ usages'[i].call = usages[i].call
                          /\ Completions(usages[i].call)' = Completions(usages[i].call)
                          /\ Completions(usages[i].call) # {}
                          /\ Completions(usages[i].call) \subseteq 1 .. n
                          /\ usages[i] = RecordUsage(usages[i].call, reply[usages[i].call].usage)
    <2> SUFFICES ASSUME NEW i \in 1 .. m
                 PROVE  /\ usages[i].call \in CallIds /\ usages[i].call[1] # s
                        /\ usages'[i].call = usages[i].call
                        /\ Completions(usages[i].call)' = Completions(usages[i].call)
                        /\ Completions(usages[i].call) # {}
                        /\ Completions(usages[i].call) \subseteq 1 .. n
                        /\ usages[i] = RecordUsage(usages[i].call, reply[usages[i].call].usage)
      OBVIOUS
    <2>1. usages[i].call \in CallIds
      <3>1. usages[i] \in InvocationUsage(CallIds)
        BY <1>1
      <3> QED BY <3>1 DEF InvocationUsage
    <2>2. /\ Completions(usages[i].call) # {}
          /\ usages[i] = RecordUsage(usages[i].call, reply[usages[i].call].usage)
      BY DEF UsageFollowsCompletions
    <2>3. Completions(usages[i].call) \subseteq 1 .. n
      BY DEF Completions
    <2>4. usages[i].call[1] # s
      BY <1>4, <2>1, <2>2
    <2>5. usages'[i] = usages[i]
      BY <1>2
    <2> HIDE DEF n, m
    <2> QED BY <1>6, <2>1, <2>2, <2>3, <2>4, <2>5
  <1>8. \A i \in 1 .. k : /\ usages'[m + i].call = <<s, i>>
                          /\ Completions(<<s, i>>)' = {n + i}
                          /\ usages'[m + i] = RecordUsage(<<s, i>>, reply[<<s, i>>].usage)
    <2> SUFFICES ASSUME NEW i \in 1 .. k
                 PROVE  /\ usages'[m + i].call = <<s, i>>
                        /\ Completions(<<s, i>>)' = {n + i}
                        /\ usages'[m + i] = RecordUsage(<<s, i>>, reply[<<s, i>>].usage)
      OBVIOUS
    <2> DEFINE c == <<s, i>>
    <2>1. c \in CallIds /\ c[1] = s /\ c[2] = i /\ i <= k
      BY <1>1, <1>3
    <2> HIDE DEF c, n, m
    <2>2. Completions(c)' = {n + i}
      BY <1>6, <2>1
    <2>3. usages'[m + i] = RecordUsage(c, reply[c].usage)
      BY <1>2 DEF c
    <2>4. usages'[m + i].call = c
      BY <1>3, <2>3
    <2> QED BY <2>2, <2>3, <2>4 DEF c
  <1> HIDE DEF n, m
  <1>9. \A j \in 1 .. m + k : j \in 1 .. m \/ \E i \in 1 .. k : j = m + i
    <2> SUFFICES ASSUME NEW j \in 1 .. m + k, j \notin 1 .. m
                 PROVE  \E i \in 1 .. k : j = m + i
      OBVIOUS
    <2>1. j - m \in 1 .. k /\ j = m + (j - m)
      BY <1>1
    <2> QED BY <2>1
  <1>10. ASSUME NEW j \in 1 .. m + k
         PROVE  /\ Completions(usages[j].call)' # {}
                /\ usages'[j] = RecordUsage(usages'[j].call, reply[usages'[j].call].usage)
    <2>1. CASE j \in 1 .. m
      BY <1>2, <1>7, <2>1
    <2>2. ASSUME NEW i \in 1 .. k, j = m + i
          PROVE  /\ Completions(usages[j].call)' # {}
                 /\ usages'[j] = RecordUsage(usages'[j].call, reply[usages'[j].call].usage)
      BY <1>8, <2>2
    <2> QED BY <1>9, <2>1, <2>2
  <1>11. ASSUME NEW c \in CallIds, Completions(c)' # {}
         PROVE  \E j \in 1 .. m + k : usages'[j].call = c
    <2>1. CASE c[1] = s
      <3>1. c[2] \in 1 .. k /\ c = <<s, c[2]>>
        BY <1>1, <1>3, <1>6, <1>11, <2>1
      <3>2. m + c[2] \in 1 .. m + k
        BY <1>1, <3>1
      <3> QED BY <1>8, <3>1, <3>2
    <2>2. CASE c[1] # s
      <3>1. PICK i \in 1 .. m : usages[i].call = c
        BY <1>6, <1>11, <2>2 DEF UsageFollowsCompletions, m
      <3>2. i \in 1 .. m + k
        BY <1>1
      <3> QED BY <1>7, <3>1, <3>2
    <2> QED BY <2>1, <2>2
  <1>12. ASSUME NEW i \in 1 .. m + k, NEW j \in 1 .. m + k, i < j,
                NEW a \in Completions(usages[i].call)', NEW b \in Completions(usages[j].call)'
         PROVE  a < b
    <2>1. CASE j \in 1 .. m
      <3>1. i \in 1 .. m
        BY <1>1, <1>12, <2>1
      <3>2. a \in Completions(usages[i].call) /\ b \in Completions(usages[j].call)
        BY <1>7, <2>1, <3>1
      <3> QED BY <1>12, <2>1, <3>1, <3>2 DEF UsageFollowsCompletions, m
    <2>2. ASSUME NEW y \in 1 .. k, j = m + y, i \in 1 .. m
          PROVE  a < b
      <3>1. a \in 1 .. n
        BY <1>7, <2>2
      <3>2. b = n + y
        BY <1>8, <2>2
      <3> QED BY <1>1, <3>1, <3>2
    <2>3. ASSUME NEW x \in 1 .. k, NEW y \in 1 .. k, i = m + x, j = m + y
          PROVE  a < b
      <3>1. a = n + x /\ b = n + y
        BY <1>8, <2>3
      <3> QED BY <1>1, <1>12, <2>3, <3>1
    <2> QED BY <1>9, <2>1, <2>2, <2>3
  <1> QED BY <1>2, <1>10, <1>11, <1>12 DEF UsageFollowsCompletions

LEMMA AcceptRecords ==
  ASSUME ControlInv, EventsInv, UsageFollowsCompletions, NEW s \in Stages,
         NEW batch \in Seq(Events), Accept(s, batch), reply' = reply,
         Silent(batch) \/ \E t \in Stages, o \in Nat : Announces(batch, o, t)
  PROVE  UsageFollowsCompletions'
  <1>1. /\ Width(s) \in 0 .. Width(s) /\ Extends(s, Width(s), batch) /\ pc = s
        /\ usages' = usages \o RecordedUsages(s, Width(s))
    BY CallersAreCalls DEF Accept, Extends
  <1> QED BY <1>1, UsagesPublished

LEMMA QuietUsages ==
  ASSUME EventsInv, ControlInv, UsageFollowsCompletions, UNCHANGED <<log, usages>>,
         \A c \in CallIds : call[c] = "returned" => reply'[c] = reply[c]
  PROVE  UsageFollowsCompletions'
  <1>1. \A c \in CallIds : Completions(c)' = Completions(c)
    BY DEF Completions
  <1>2. \A i \in 1 .. Len(usages) :
          /\ usages'[i] = usages[i] /\ usages[i].call \in CallIds
          /\ Completions(usages[i].call) # {}
          /\ usages[i] = RecordUsage(usages[i].call, reply[usages[i].call].usage)
    <2>1. \A i \in 1 .. Len(usages) : usages[i] \in InvocationUsage(CallIds)
      BY DEF ControlInv, TypeOK
    <2>2. \A u \in InvocationUsage(CallIds) : u.call \in CallIds
      BY DEF InvocationUsage
    <2> QED BY <2>1, <2>2 DEF UsageFollowsCompletions
  <1>3. \A c \in CallIds : Completions(c) # {} => reply'[c] = reply[c]
    BY DEF EventsInv, CompletedLater
  <1> QED BY <1>1, <1>2, <1>3 DEF UsageFollowsCompletions

LEMMA UsageStep ==
  ControlInv /\ EventsInv /\ UsageFollowsCompletions /\ [Next]_vars => UsageFollowsCompletions'
  <1> SUFFICES ASSUME ControlInv, EventsInv, UsageFollowsCompletions, [Next]_vars
               PROVE  UsageFollowsCompletions'
    OBVIOUS
  <1>0. TypeOK /\ 0 \in Nat /\ 3 \in Nat
    BY DEF ControlInv
  <1>1. CASE BeginRun
    <2>1. \A c \in CallIds : call[c] = "idle"
      BY <1>1 DEF BeginRun, ControlInv, FrontierInv
    <2>2. \A c \in CallIds : Completions(c)' = {}
      BY <1>0, <1>1, <2>1, BeginEvents DEF EventsInv, CompletedLater, BeginRun, Await, Issued
    <2>3. \A c \in CallIds : Completions(c) = {}
      BY <2>1 DEF EventsInv, CompletedLater
    <2>4. Len(usages) = 0
      <3>1. \A i \in 1 .. Len(usages) : usages[i].call \in CallIds
        <4>1. \A i \in 1 .. Len(usages) : usages[i] \in InvocationUsage(CallIds)
          BY <1>0 DEF TypeOK
        <4> QED BY <4>1 DEF InvocationUsage
      <3>2. ~ \E i \in 1 .. Len(usages) : TRUE
        BY <2>3, <3>1 DEF UsageFollowsCompletions
      <3>3. Len(usages) \in Nat
        BY <1>0, LenProperties DEF TypeOK
      <3> QED BY <3>2, <3>3
    <2>5. usages' = usages
      BY <1>1 DEF BeginRun
    <2> QED BY <2>2, <2>4, <2>5 DEF UsageFollowsCompletions
  <1>2. CASE FrameTask
    BY <1>0, <1>2, AcceptRecords, BatchShapes, OpeningShape DEF FrameTask, Await, Stages
  <1>3. CASE CollectContributions
    BY <1>0, <1>3, AcceptRecords, BatchShapes, OpeningShape DEF CollectContributions, Await, Stages
  <1>4. CASE OpenReviews
    <2> DEFINE batch == <<Say("candidate_created"), Say("round_started"),
                          Say("review_started")>> \o Opening("candidate_review")
    <2>1. batch \in Seq(Events) /\ Announces(batch, 3, "candidate_review")
      BY BatchTypes, BatchShapes
    <2>2. Accept("candidate_synthesis", batch) /\ reply' = reply
      BY <1>4 DEF OpenReviews, Await
    <2> HIDE DEF batch
    <2> QED BY <1>0, <2>1, <2>2, AcceptRecords DEF Stages
  <1>5. CASE FinishUngated
    <2> DEFINE batch == Verdict \o Closing
    <2>1. batch \in Seq(Events) /\ Silent(batch)
      BY BatchTypes, BatchShapes
    <2>2. Accept("candidate_review", batch) /\ reply' = reply
      BY <1>5 DEF FinishUngated, Deliver
    <2> HIDE DEF batch
    <2> QED BY <2>1, <2>2, AcceptRecords DEF Stages
  <1>6. CASE OpenGate
    <2> DEFINE batch == Verdict \o Opening("release_gate")
    <2>1. batch \in Seq(Events) /\ Announces(batch, 3, "release_gate")
      BY BatchTypes, BatchShapes
    <2>2. Accept("candidate_review", batch) /\ reply' = reply
      BY <1>6 DEF OpenGate, Await
    <2> HIDE DEF batch
    <2> QED BY <1>0, <2>1, <2>2, AcceptRecords DEF Stages
  <1>7. CASE FinishGated
    <2>1. Accept("release_gate", Closing) /\ reply' = reply
      BY <1>7 DEF FinishGated, Deliver
    <2> QED BY <2>1, AcceptRecords, BatchTypes, BatchShapes DEF Stages
  <1>8. ASSUME NEW s \in Stages, RaiseInvalidReply(s)
        PROVE  UsageFollowsCompletions'
    <2>1. PICK i \in Callers(s) : /\ usages' = usages \o RecordedUsages(s, i - 1)
                                  /\ log' = log \o CompletedEvents(s, i - 1)
                                  /\ Raise("validation", <<s, i>>)
      BY <1>8 DEF RaiseInvalidReply
    <2>2. /\ i - 1 \in 0 .. Width(s) /\ pc = s /\ reply' = reply
      BY <1>8, <2>1, CallersAreCalls DEF Callers, RaiseInvalidReply, Raise
    <2> DEFINE none == <<>>
    <2>3. none \in Seq(Events) /\ Silent(none) /\ Extends(s, i - 1, none)
      <3>1. log \in Seq(Events) /\ CompletedEvents(s, i - 1) \in Seq(Events)
        BY <1>0, <2>2, RecordedType DEF TypeOK
      <3>2. log \o CompletedEvents(s, i - 1) \in Seq(Events)
        BY <3>1, ConcatProperties
      <3> QED BY <2>1, <3>2, ConcatEmptySeq, EmptySeq DEF Extends, Silent
    <2> HIDE DEF none
    <2> QED BY <2>1, <2>2, <2>3, UsagesPublished
  <1>9. ASSUME NEW c \in CallIds, Settle(c)
        PROVE  UsageFollowsCompletions'
    <2>1. UNCHANGED <<log, usages>> /\ call[c] = "inflight"
      BY <1>9 DEF Settle, CallReturns, CallFails
    <2>2. \A d \in CallIds : d # c => reply'[d] = reply[d]
      BY <1>0, <1>9 DEF Settle, CallReturns, CallFails, TypeOK
    <2> QED BY <2>1, <2>2, QuietUsages
  <1>10. ASSUME NEW s \in Stages, RaiseProviderError(s) \/ Cancel(s)
         PROVE  UsageFollowsCompletions'
    BY <1>10, QuietUsages DEF RaiseProviderError, Cancel, Raise
  <1>11. CASE UNCHANGED vars
    BY <1>11, QuietUsages DEF vars
  <1> QED
    BY <1>1, <1>2, <1>3, <1>4, <1>5, <1>6, <1>7, <1>8, <1>9, <1>10, <1>11
    DEF Next, Resume, Rest

(* The usage records are those of the completed calls, one each, in the    *)
(* order of their completion events, and each holds what its own call      *)
(* returned, for any number of participants and any order of replies.      *)
THEOREM UsageFollowsCompletionsHolds == Spec => []UsageFollowsCompletions
  <1>1. Init => UsageFollowsCompletions
    BY DEF Init, UsageFollowsCompletions, Completions
  <1> QED BY <1>1, UsageStep, EventsHold, ControlInvHolds, PTL DEF Spec

--------------------------------------------------------------------------------

(* The loop that adds up optional amounts gives their sum, absent ones     *)
(* counting zero.                                                          *)
LEMMA TotalIsSum ==
  ASSUME NEW m \in Nat, NEW amounts \in [1 .. m -> Optional], NEW it,
         IsSum(it, [i \in 1 .. m |-> OrZero(amounts[i])], 1 .. m)
  PROVE  Total(amounts) = it[1 .. m]
  <1> DEFINE S == 1 .. m
             w == [i \in S |-> OrZero(amounts[i])]
             Adds(g) == g = [T \in SUBSET S |-> IF T = {} THEN 0
                               ELSE g[T \ {Max(T)}] + OrZero(amounts[Max(T)])]
             fold == CHOOSE g : Adds(g)
  <1>1. Total(amounts) = fold[S]
    <2>1. DOMAIN amounts = S
      OBVIOUS
    <2> QED BY <2>1 DEF Total, FoldLeft, MapThenFoldSet
  <1>2. IsFiniteSet(S) /\ S \in SUBSET Int
    BY FS_Interval
  <1>3. \A T \in SUBSET S : T # {} => Max(T) \in T /\ w[Max(T)] = OrZero(amounts[Max(T)])
    BY <1>2, MaxIsMember
  <1>4. \A i \in S : w[i] \in Nat
    BY DEF OrZero, Optional
  <1>5. \A T \in SUBSET S : it[T] \in Nat
    BY DEF IsSum
  <1>6. Adds(it)
    <2> HIDE DEF w
    <2>1. IsSum(it, w, S)
      BY DEF w
    <2>2. ASSUME NEW T \in SUBSET S, T # {}
          PROVE  it[T] = it[T \ {Max(T)}] + OrZero(amounts[Max(T)])
      <3>1. it[T] = w[Max(T)] + it[T \ {Max(T)}]
        BY <1>3, <2>1, <2>2 DEF IsSum
      <3>2. w[Max(T)] \in Nat /\ it[T \ {Max(T)}] \in Nat
        BY <1>3, <1>4, <1>5, <2>2
      <3> QED BY <1>3, <2>2, <3>1, <3>2
    <2> QED BY <2>1, <2>2 DEF IsSum
  <1>7. Adds(fold)
    <2> HIDE DEF Adds
    <2> QED BY <1>6
  <1> HIDE DEF fold, w
  <1>8. \A T \in SUBSET S : fold[T] \in Nat
    <2> DEFINE P == {T \in SUBSET S : fold[T] \in Nat}
    <2>1. ASSUME NEW T \in SUBSET S, \A x \in T : T \ {x} \in P
          PROVE  T \in P
      <3>1. CASE T = {}
        BY <1>7, <3>1
      <3>2. CASE T # {}
        <4>1. fold[T \ {Max(T)}] \in Nat /\ OrZero(amounts[Max(T)]) \in Nat
          BY <1>3, <1>4, <2>1, <3>2
        <4>2. fold[T] = fold[T \ {Max(T)}] + OrZero(amounts[Max(T)])
          BY <1>7, <3>2
        <4> QED BY <4>1, <4>2
      <3> QED BY <3>1, <3>2
    <2>2. SUBSET S \subseteq P
      <3> HIDE DEF P, S
      <3> QED BY <1>2, <2>1, SubsetInduction
    <2> QED BY <2>2 DEF P
  <1>9. AddsUp(fold, w, S)
    <2>1. fold[{}] = 0
      BY <1>7
    <2>2. ASSUME NEW T \in SUBSET S, T # {}
          PROVE  \E x \in T : fold[T] = w[x] + fold[T \ {x}]
      <3>1. fold[T] = fold[T \ {Max(T)}] + OrZero(amounts[Max(T)])
        BY <1>7, <2>2
      <3>2. /\ Max(T) \in T /\ w[Max(T)] = OrZero(amounts[Max(T)]) /\ w[Max(T)] \in Nat
            /\ fold[T \ {Max(T)}] \in Nat
        BY <1>3, <1>4, <1>8, <2>2
      <3>3. fold[T] = w[Max(T)] + fold[T \ {Max(T)}]
        BY <3>1, <3>2
      <3> QED BY <3>2, <3>3
    <2> QED BY <2>1, <2>2 DEF AddsUp
  <1>10. IsSum(it, w, S)
    BY DEF w
  <1> QED BY <1>1, <1>2, <1>9, <1>10, SumIsUnique

(* Added up in the order of the records or over the set of the calls they  *)
(* belong to, the total is the same.                                       *)
LEMMA TotalIsSumFunction ==
  ASSUME NEW m \in Nat, NEW amounts \in [1 .. m -> Optional], NEW T, NEW v \in [T -> Optional],
         NEW b \in Bijection(1 .. m, T), \A i \in 1 .. m : v[b[i]] = amounts[i],
         NEW u, u = [x \in T |-> OrZero(v[x])]
  PROVE  Total(amounts) = SumFunction(u)
  <1> DEFINE S == 1 .. m
             w == [i \in S |-> OrZero(amounts[i])]
  <1>1. IsFiniteSet(S)
    BY FS_Interval
  <1>2. IsFiniteSet(T)
    <2>1. ExistsBijection(S, T)
      BY DEF ExistsBijection
    <2> HIDE DEF S
    <2> QED BY <1>1, <2>1, FS_Bijection
  <1>3. w \in [S -> Nat] /\ u \in [T -> Nat]
    BY DEF OrZero, Optional
  <1>4. \A i \in S : u[b[i]] = w[i]
    <2>1. \A i \in S : b[i] \in T
      BY DEF Bijection, Injection
    <2> QED BY <2>1
  <1>5. PICK it : IsSum(it, w, S)
    <2> HIDE DEF S, w
    <2> QED BY <1>1, <1>3, SumExists
  <1>6. PICK jt : IsSum(jt, u, T)
    <2> HIDE DEF S, w
    <2> QED BY <1>2, <1>3, SumExists
  <1>7. Total(amounts) = it[S]
    BY <1>5, TotalIsSum
  <1>8. SumFunction(u) = jt[T]
    <2>1. u \in [T -> Nat]
      BY <1>3
    <2> HIDE DEF S, w
    <2> QED BY ONLY <1>2, <1>6, <2>1, SumFunctionIsSum
  <1>9. it[S] = jt[T]
    <2> HIDE DEF S, w
    <2>1. b \in Bijection(S, T)
      BY DEF S
    <2> QED BY ONLY <1>1, <1>4, <1>5, <1>6, <2>1, SumUnderBijection
  <1> QED BY <1>7, <1>8, <1>9

--------------------------------------------------------------------------------

(* Every call of a stage the run has got past is reported complete, and    *)
(* the totals of the result are those of the records.                      *)
AccountInv ==
  /\ pc \in Stages =>
       \A c \in CallIds : StageNumber[c[1]] < StageNumber[pc] => Completions(c) # {}
  /\ pc = "returned" =>
       /\ \A c \in CallIds : call[c] # "idle" => Completions(c) # {}
       /\ result.total = AggregateUsage(usages)

(* A stage that is accepted is reported complete as a whole.               *)
LEMMA StagePublished ==
  ASSUME ControlInv, AccountInv, NEW s \in Stages, NEW batch \in Seq(Events),
         Accept(s, batch),
         Silent(batch) \/ \E t \in Stages, o \in Nat : Announces(batch, o, t)
  PROVE  /\ pc = s
         /\ \A c \in CallIds : StageNumber[c[1]] <= StageNumber[s] => Completions(c)' # {}
  <1>1. /\ TypeOK /\ Width(s) \in 0 .. Width(s) /\ Extends(s, Width(s), batch) /\ pc = s
    BY CallersAreCalls DEF Accept, Extends, ControlInv
  <1>2. ASSUME NEW c \in CallIds, StageNumber[c[1]] <= StageNumber[s]
        PROVE  Completions(c)' # {}
    <2>1. Completions(c)' = IF c[1] = s /\ c[2] <= Width(s)
                            THEN Completions(c) \cup {Len(log) + c[2]}
                            ELSE Completions(c)
      BY <1>1, CompletionsGrow, NoCompletionIn
    <2>2. CASE c[1] = s
      <3>1. c[2] <= Width(s)
        BY <2>2, CallNames, CallersAreCalls DEF Callers
      <3> QED BY <2>1, <2>2, <3>1
    <2>3. CASE c[1] # s
      <3>1. StageNumber[c[1]] < StageNumber[s]
        BY <1>2, <2>3, CallNames, StageNumbers
      <3>2. Completions(c) # {}
        BY <1>1, <3>1 DEF AccountInv
      <3> QED BY <2>1, <2>3, <3>2
    <2> QED BY <2>2, <2>3
  <1> QED BY <1>1, <1>2

LEMMA AwaitAccounts ==
  ASSUME ControlInv, AccountInv, NEW s \in Stages, NEW batch \in Seq(Events),
         Accept(s, batch), NEW t \in Stages, NEW o \in Nat, Announces(batch, o, t),
         Await(t), StageNumber[t] = StageNumber[s] + 1
  PROVE  AccountInv'
  <1>1. \A c \in CallIds : StageNumber[c[1]] <= StageNumber[s] => Completions(c)' # {}
    BY StagePublished
  <1>2. pc' = t /\ t # "returned"
    BY StagesAreNotEnds DEF Await
  <1>3. \A c \in CallIds : StageNumber[c[1]] < StageNumber[t] => StageNumber[c[1]] <= StageNumber[s]
    BY CallNames, StageNumbers
  <1> QED BY <1>1, <1>2, <1>3 DEF AccountInv

LEMMA DeliverAccounts ==
  ASSUME ControlInv, AccountInv, NEW s \in Stages, NEW batch \in Seq(Events), Silent(batch),
         Accept(s, batch), NEW answer, NEW executed, NEW decision,
         Deliver(answer, executed, decision)
  PROVE  AccountInv'
  <1>1. /\ pc = s
        /\ \A c \in CallIds : StageNumber[c[1]] <= StageNumber[s] => Completions(c)' # {}
    BY StagePublished
  <1>2. /\ pc' = "returned" /\ call' = call /\ "returned" \notin Stages
        /\ result'.total = AggregateUsage(usages')
    BY StagesAreNotEnds DEF Deliver
  <1>3. \A c \in CallIds : call[c] # "idle" => StageNumber[c[1]] <= StageNumber[s]
    <2>1. Frontier(s)
      BY <1>1 DEF ControlInv, FrontierInv
    <2> QED BY <2>1, CallNames, StageNumbers DEF Frontier
  <1>4. AggregateUsage(usages)' = AggregateUsage(usages')
    BY DEF AggregateUsage
  <1> QED BY <1>1, <1>2, <1>3, <1>4 DEF AccountInv

LEMMA AccountStep == ControlInv /\ AccountInv /\ [Next]_vars => AccountInv'
  <1> SUFFICES ASSUME ControlInv, AccountInv, [Next]_vars
               PROVE  AccountInv'
    OBVIOUS
  <1>0. TypeOK /\ 0 \in Nat /\ 3 \in Nat
    BY DEF ControlInv
  <1>1. CASE BeginRun
    <2>1. pc' = "task_framing" /\ StageNumber["task_framing"] = 1
      BY <1>1 DEF BeginRun, Await, StageNumber
    <2>2. \A c \in CallIds : ~ (StageNumber[c[1]] < 1)
      BY CallNames, StageNumbers
    <2> QED BY <2>1, <2>2 DEF AccountInv
  <1>2. CASE FrameTask
    BY <1>0, <1>2, AwaitAccounts, BatchShapes, OpeningShape
    DEF FrameTask, Stages, StageNumber
  <1>3. CASE CollectContributions
    BY <1>0, <1>3, AwaitAccounts, BatchShapes, OpeningShape
    DEF CollectContributions, Stages, StageNumber
  <1>4. CASE OpenReviews
    <2> DEFINE batch == <<Say("candidate_created"), Say("round_started"),
                          Say("review_started")>> \o Opening("candidate_review")
    <2>1. batch \in Seq(Events) /\ Announces(batch, 3, "candidate_review")
      BY BatchTypes, BatchShapes
    <2>2. Accept("candidate_synthesis", batch) /\ Await("candidate_review")
      BY <1>4 DEF OpenReviews
    <2> HIDE DEF batch
    <2> QED BY <1>0, <2>1, <2>2, AwaitAccounts DEF Stages, StageNumber
  <1>5. CASE FinishUngated
    <2> DEFINE batch == Verdict \o Closing
    <2>1. batch \in Seq(Events) /\ Silent(batch)
      BY BatchTypes, BatchShapes
    <2>2. /\ Accept("candidate_review", batch)
          /\ Deliver(<<"candidate_synthesis", 1>>, FALSE, "skipped")
      BY <1>5 DEF FinishUngated
    <2> HIDE DEF batch
    <2> QED BY <2>1, <2>2, DeliverAccounts DEF Stages
  <1>6. CASE OpenGate
    <2> DEFINE batch == Verdict \o Opening("release_gate")
    <2>1. batch \in Seq(Events) /\ Announces(batch, 3, "release_gate")
      BY BatchTypes, BatchShapes
    <2>2. Accept("candidate_review", batch) /\ Await("release_gate")
      BY <1>6 DEF OpenGate
    <2> HIDE DEF batch
    <2> QED BY <1>0, <2>1, <2>2, AwaitAccounts DEF Stages, StageNumber
  <1>7. CASE FinishGated
    BY <1>7, DeliverAccounts, BatchTypes, BatchShapes DEF FinishGated, Stages
  <1>8. CASE pc' = "raised"
    BY <1>8 DEF AccountInv, Stages
  <1>9. CASE UNCHANGED <<pc, log, usages, result>> /\ \A c \in CallIds : call'[c] = "idle" <=> call[c] = "idle"
    BY <1>9 DEF AccountInv, Completions, AggregateUsage
  <1>10. ASSUME NEW c \in CallIds, Settle(c)
         PROVE  AccountInv'
    <2>1. /\ UNCHANGED <<pc, log, usages, result>>
          /\ \A d \in CallIds : call'[d] = "idle" <=> call[d] = "idle"
      BY <1>0, <1>10 DEF TypeOK, Settle, CallReturns, CallFails
    <2> QED BY <1>9, <2>1
  <1>11. CASE UNCHANGED vars
    BY <1>9, <1>11 DEF vars
  <1> QED
    BY <1>1, <1>2, <1>3, <1>4, <1>5, <1>6, <1>7, <1>8, <1>10, <1>11
    DEF Next, Resume, Rest, RaiseProviderError, RaiseInvalidReply, Cancel, Raise

(* The calls a run made that has returned.                                 *)
Made == {c \in CallIds : call[c] # "idle"}

CountOf(c, f) == IF reply[c].usage = None THEN None ELSE reply[c].usage.tokens[f]

CostOf(c) == IF reply[c].usage = None THEN None ELSE reply[c].usage.cost_usd

(* The records of a returned run name each call it made once, and hold     *)
(* what that call reported.                                                *)
LEMMA RecordsNameCalls ==
  ASSUME ControlInv, EventsInv, UsageFollowsCompletions, AccountInv, pc = "returned"
  PROVE  /\ Len(usages) \in Nat
         /\ [i \in 1 .. Len(usages) |-> usages[i].call] \in Bijection(1 .. Len(usages), Made)
         /\ \A i \in 1 .. Len(usages) :
              /\ \A f \in TokenFields : usages[i].tokens[f] = CountOf(usages[i].call, f)
              /\ usages[i].cost_usd = CostOf(usages[i].call)
  <1> DEFINE m == Len(usages)
             b == [i \in 1 .. m |-> usages[i].call]
  <1>1. TypeOK /\ m \in Nat /\ \A i \in 1 .. m : usages[i].call \in CallIds
    <2>1. usages \in Seq(InvocationUsage(CallIds))
      BY DEF ControlInv, TypeOK
    <2>2. \A u \in InvocationUsage(CallIds) : u.call \in CallIds
      BY DEF InvocationUsage
    <2> QED BY <2>1, <2>2, LenProperties DEF ControlInv
  <1>2. \A i \in 1 .. m : /\ Completions(usages[i].call) # {}
                          /\ usages[i] = RecordUsage(usages[i].call, reply[usages[i].call].usage)
    BY DEF UsageFollowsCompletions
  <1>3. \A c \in CallIds : Completions(c) # {} <=> c \in Made
    BY DEF EventsInv, CompletedLater, AccountInv, Made
  <1>4. \A c \in Made : \E i \in 1 .. m : usages[i].call = c
    BY <1>3 DEF UsageFollowsCompletions, Made
  <1>5. ASSUME NEW i \in 1 .. m, NEW k \in 1 .. m, i < k
        PROVE  usages[i].call # usages[k].call
    <2> SUFFICES ASSUME usages[i].call = usages[k].call PROVE FALSE
      OBVIOUS
    <2>1. PICK a \in Completions(usages[i].call) : TRUE
      BY <1>2
    <2>2. a \in Completions(usages[k].call) /\ a \in Int
      BY <2>1 DEF Completions
    <2>3. a < a
      BY <1>5, <2>1, <2>2 DEF UsageFollowsCompletions
    <2> QED BY <2>2, <2>3
  <1>6. b \in Bijection(1 .. m, Made)
    <2>1. b \in [1 .. m -> Made]
      BY <1>1, <1>2, <1>3
    <2>2. \A i, k \in 1 .. m : b[i] = b[k] => i = k
      <3>1. \A i, k \in 1 .. m : i = k \/ i < k \/ k < i
        OBVIOUS
      <3> QED BY <1>5, <3>1
    <2>3. \A c \in Made : \E i \in 1 .. m : b[i] = c
      BY <1>4
    <2> HIDE DEF b, m
    <2> QED BY <2>1, <2>2, <2>3 DEF Bijection, Injection, Surjection, IsInjective
  <1>7. ASSUME NEW i \in 1 .. m
        PROVE  /\ \A f \in TokenFields : usages[i].tokens[f] = CountOf(usages[i].call, f)
               /\ usages[i].cost_usd = CostOf(usages[i].call)
    <2> DEFINE c == usages[i].call
    <2>1. usages[i] = RecordUsage(c, reply[c].usage)
      BY <1>2
    <2> HIDE DEF c
    <2>2. /\ \A f \in TokenFields : RecordUsage(c, reply[c].usage).tokens[f] = CountOf(c, f)
          /\ RecordUsage(c, reply[c].usage).cost_usd = CostOf(c)
      BY DEF RecordUsage, CountOf, CostOf
    <2> QED BY <2>1, <2>2 DEF c
  <1> QED BY <1>1, <1>6, <1>7

LEMMA ReportedTypes ==
  ASSUME TypeOK, NEW c \in CallIds
  PROVE  CostOf(c) \in Optional /\ \A f \in TokenFields : CountOf(c, f) \in Optional
  <1>1. reply[c].usage \in UsageSnapshot \cup {None}
    BY ReplyUsageType DEF TypeOK
  <1> QED BY <1>1 DEF CostOf, CountOf, UsageSnapshot, Optional

LEMMA ReturnAccounts ==
  ASSUME ControlInv, EventsInv, UsageFollowsCompletions, AccountInv
  PROVE  SuccessAccountsForEveryCall
  <1> SUFFICES ASSUME pc = "returned"
               PROVE  /\ {usages[i].call : i \in 1 .. Len(usages)} = Made
                      /\ Len(usages) = Cardinality(Made)
                      /\ \A f \in TokenFields :
                           result.total.tokens[f] =
                             SumFunction([c \in Made |-> OrZero(CountOf(c, f))])
                      /\ result.total.cost_usd =
                           IF \A c \in Made : CostOf(c) = None THEN None
                           ELSE SumFunction([c \in Made |-> OrZero(CostOf(c))])
                      /\ result.total.is_complete <=>
                           \A c \in Made, f \in TokenFields : CountOf(c, f) # None
    BY DEF SuccessAccountsForEveryCall, Made, CountOf, CostOf
  <1> DEFINE m == Len(usages)
             b == [i \in 1 .. m |-> usages[i].call]
  <1>1. /\ m \in Nat /\ b \in Bijection(1 .. m, Made)
        /\ \A i \in 1 .. m :
              /\ \A f \in TokenFields : usages[i].tokens[f] = CountOf(b[i], f)
              /\ usages[i].cost_usd = CostOf(b[i])
    BY RecordsNameCalls
  <1>2. /\ \A i \in 1 .. m : b[i] \in Made
        /\ \A c \in Made : \E i \in 1 .. m : b[i] = c
    <2> HIDE DEF b, m
    <2> QED BY <1>1 DEF Bijection, Injection, Surjection
  <1>3. DOMAIN usages = 1 .. m /\ TypeOK
    BY LenProperties DEF ControlInv, TypeOK
  <1>4. \A c \in Made : CostOf(c) \in Optional /\ \A f \in TokenFields : CountOf(c, f) \in Optional
    BY <1>3, ReportedTypes DEF Made
  <1>5. {usages[i].call : i \in 1 .. m} = Made
    BY <1>2
  <1>6. m = Cardinality(Made)
    <2> HIDE DEF b, m
    <2>1. IsFiniteSet(1 .. m) /\ Cardinality(1 .. m) = m
      BY <1>1, FS_Interval
    <2>2. ExistsBijection(1 .. m, Made)
      BY <1>1 DEF ExistsBijection
    <2> QED BY <2>1, <2>2, FS_Bijection
  <1> DEFINE tokens == [f \in TokenFields |-> Total([i \in 1 .. m |-> usages[i].tokens[f]])]
             cost == IF \A i \in 1 .. m : usages[i].cost_usd = None THEN None
                     ELSE Total([i \in 1 .. m |-> usages[i].cost_usd])
             complete == \A i \in 1 .. m, f \in TokenFields : usages[i].tokens[f] # None
  <1>7. /\ result.total.tokens = tokens
        /\ result.total.cost_usd = cost
        /\ result.total.is_complete = complete
    <2>1. result.total = AggregateUsage(usages)
      BY DEF AccountInv
    <2> HIDE DEF m, b
    <2>2. AggregateUsage(usages) = [tokens |-> tokens, cost_usd |-> cost, is_complete |-> complete]
      BY <1>3, Zenon DEF AggregateUsage
    <2> HIDE DEF tokens, cost, complete
    <2> QED BY <2>1, <2>2
  <1>8. ASSUME NEW f \in TokenFields
        PROVE  result.total.tokens[f] = SumFunction([c \in Made |-> OrZero(CountOf(c, f))])
    <2> DEFINE amounts == [i \in 1 .. m |-> usages[i].tokens[f]]
               v == [c \in Made |-> CountOf(c, f)]
               u == [c \in Made |-> OrZero(CountOf(c, f))]
    <2>1. result.total.tokens[f] = Total(amounts)
      BY <1>7, Zenon
    <2>2. \A i \in 1 .. m : amounts[i] \in Optional /\ v[b[i]] = amounts[i]
      <3> HIDE DEF b, m
      <3> QED BY <1>1, <1>2, <1>4
    <2>3. amounts \in [1 .. m -> Optional] /\ v \in [Made -> Optional]
      BY <1>4, <2>2
    <2>4. Total(amounts) = SumFunction(u)
      <3>1. \A c \in Made : v[c] = CountOf(c, f)
        OBVIOUS
      <3>2. u = [c \in Made |-> OrZero(v[c])]
        BY <3>1
      <3> HIDE DEF b, m, amounts, v, u
      <3>3. m \in Nat /\ b \in Bijection(1 .. m, Made) /\ \A i \in 1 .. m : v[b[i]] = amounts[i]
        BY <1>1, <2>2
      <3> QED BY ONLY <2>3, <3>2, <3>3, TotalIsSumFunction
    <2> QED BY <2>1, <2>4
  <1>9. result.total.cost_usd = IF \A c \in Made : CostOf(c) = None THEN None
                               ELSE SumFunction([c \in Made |-> OrZero(CostOf(c))])
    <2> DEFINE amounts == [i \in 1 .. m |-> usages[i].cost_usd]
               v == [c \in Made |-> CostOf(c)]
               u == [c \in Made |-> OrZero(CostOf(c))]
    <2>1. result.total.cost_usd = IF \A i \in 1 .. m : usages[i].cost_usd = None THEN None
                                  ELSE Total(amounts)
      BY <1>7, Zenon
    <2>2. \A i \in 1 .. m : amounts[i] \in Optional /\ v[b[i]] = amounts[i]
      <3> HIDE DEF b, m
      <3> QED BY <1>1, <1>2, <1>4
    <2>3. amounts \in [1 .. m -> Optional] /\ v \in [Made -> Optional]
      BY <1>4, <2>2
    <2>4. Total(amounts) = SumFunction(u)
      <3>1. \A c \in Made : v[c] = CostOf(c)
        OBVIOUS
      <3>2. u = [c \in Made |-> OrZero(v[c])]
        BY <3>1
      <3> HIDE DEF b, m, amounts, v, u
      <3>3. m \in Nat /\ b \in Bijection(1 .. m, Made) /\ \A i \in 1 .. m : v[b[i]] = amounts[i]
        BY <1>1, <2>2
      <3> QED BY ONLY <2>3, <3>2, <3>3, TotalIsSumFunction
    <2>5. (\A i \in 1 .. m : usages[i].cost_usd = None) <=> \A c \in Made : CostOf(c) = None
      <3> HIDE DEF b, m
      <3> QED BY <1>1, <1>2
    <2> QED BY <2>1, <2>4, <2>5
  <1>10. result.total.is_complete <=> \A c \in Made, f \in TokenFields : CountOf(c, f) # None
    <2>1. result.total.is_complete =
            \A i \in 1 .. m, f \in TokenFields : usages[i].tokens[f] # None
      BY <1>7, Zenon
    <2>2. (\A i \in 1 .. m, f \in TokenFields : usages[i].tokens[f] # None)
            <=> \A c \in Made, f \in TokenFields : CountOf(c, f) # None
      <3> HIDE DEF b, m
      <3> QED BY <1>1, <1>2
    <2> QED BY <2>1, <2>2
  <1> QED BY <1>5, <1>6, <1>8, <1>9, <1>10

(* A run that returns accounts for every provider call it made: one record *)
(* for each, and totals that are the sums of what the calls reported, for  *)
(* any number of participants and any counts.                              *)
THEOREM SuccessAccountsHolds == Spec => []SuccessAccountsForEveryCall
  <1>1. Init => AccountInv
    BY DEF Init, AccountInv, Stages
  <1>2. Spec => []AccountInv
    BY <1>1, AccountStep, ControlInvHolds, PTL DEF Spec
  <1> QED BY <1>2, ReturnAccounts, ControlInvHolds, EventsHold, UsageFollowsCompletionsHolds, PTL
================================================================================
