-------------------------- MODULE ConsensusStreamProofs --------------------------
(***************************************************************************)
(* Theorems about what a consensus run publishes: its events, and the      *)
(* exception or the result its caller sees, for every number of            *)
(* participants.  They rest on the control invariant of                    *)
(* ConsensusRunProofs.                                                     *)
(***************************************************************************)
EXTENDS ConsensusRunProofs

USE ConsensusAssumption, NoneAssumption

(* A call id is its stage and its position.                                *)
LEMMA CallNames ==
  ASSUME NEW c \in CallIds
  PROVE  /\ c[1] \in Stages /\ c[2] \in Callers(c[1]) /\ c[2] \in Nat \ {0}
         /\ c = <<c[1], c[2]>>
         /\ \A s, i : c = <<s, i>> <=> c[1] = s /\ c[2] = i
         /\ c # NoCall
  BY CallersAreCalls DEF CallIds, Callers

LEMMA StartIsNotCompletion ==
  ASSUME NEW s \in Stages
  PROVE  StartedType(s) # CompletedType(s)
  BY DEF StartedType, CompletedType, Stages

(* The log after a step: what it held, the completions of the first k      *)
(* replies of stage s, and a batch of further events.                      *)
Extends(s, k, batch) == log' = log \o CompletedEvents(s, k) \o batch

(* A batch that names no call, and one that ends by announcing the calls   *)
(* of stage t.                                                             *)
Silent(batch) == \A j \in 1 .. Len(batch) : batch[j].call = NoCall

Announces(batch, o, t) ==
  /\ Len(batch) = o + Width(t)
  /\ \A j \in 1 .. o : batch[j].call = NoCall
  /\ \A i \in Callers(t) : batch[o + i] = Event(StartedType(t), <<t, i>>, NoVotes)

LEMMA ConcatThree ==
  ASSUME NEW S, NEW a \in Seq(S), NEW b \in Seq(S), NEW c \in Seq(S)
  PROVE  /\ Len(a \o b \o c) = Len(a) + Len(b) + Len(c)
         /\ \A j \in 1 .. Len(a) : (a \o b \o c)[j] = a[j]
         /\ \A j \in 1 .. Len(b) : (a \o b \o c)[Len(a) + j] = b[j]
         /\ \A j \in 1 .. Len(c) : (a \o b \o c)[Len(a) + Len(b) + j] = c[j]
  <1>1. /\ a \o b \in Seq(S) /\ Len(a \o b) = Len(a) + Len(b)
        /\ \A i \in 1 .. Len(a) + Len(b) :
             (a \o b)[i] = IF i <= Len(a) THEN a[i] ELSE b[i - Len(a)]
    BY ConcatProperties
  <1>2. /\ Len((a \o b) \o c) = Len(a \o b) + Len(c)
        /\ \A i \in 1 .. Len(a \o b) + Len(c) :
             ((a \o b) \o c)[i] = IF i <= Len(a \o b) THEN (a \o b)[i]
                                  ELSE c[i - Len(a \o b)]
    BY <1>1, ConcatProperties
  <1>3. Len(a) \in Nat /\ Len(b) \in Nat /\ Len(c) \in Nat
    BY LenProperties
  <1> DEFINE ab == a \o b
             abc == ab \o c
             n == Len(a)
             k == Len(b)
             m == Len(c)
  <1>4. /\ n \in Nat /\ k \in Nat /\ m \in Nat /\ Len(ab) = n + k /\ Len(abc) = n + k + m
        /\ \A i \in 1 .. n + k : ab[i] = IF i <= n THEN a[i] ELSE b[i - n]
        /\ \A i \in 1 .. n + k + m :
             abc[i] = IF i <= n + k THEN ab[i] ELSE c[i - (n + k)]
    BY <1>1, <1>2, <1>3
  <1> HIDE DEF ab, abc, n, k, m
  <1>5. ASSUME NEW j \in 1 .. n PROVE abc[j] = a[j]
    <2>1. j \in 1 .. n + k + m /\ j \in 1 .. n + k /\ j <= n /\ j <= n + k
      BY <1>4
    <2> QED BY <1>4, <2>1, Zenon
  <1>6. ASSUME NEW j \in 1 .. k PROVE abc[n + j] = b[j]
    <2>1. /\ n + j \in 1 .. n + k + m /\ n + j \in 1 .. n + k
          /\ ~ n + j <= n /\ n + j <= n + k /\ (n + j) - n = j
      BY <1>4
    <2> QED BY <1>4, <2>1, Zenon
  <1>7. ASSUME NEW j \in 1 .. m PROVE abc[n + k + j] = c[j]
    <2>1. /\ n + k + j \in 1 .. n + k + m
          /\ ~ n + k + j <= n + k /\ (n + k + j) - (n + k) = j
      BY <1>4
    <2> QED BY <1>4, <2>1, Zenon
  <1> QED BY <1>4, <1>5, <1>6, <1>7 DEF ab, abc, n, k, m

LEMMA ExtendedLog ==
  ASSUME TypeOK, NEW s \in Stages, NEW k \in 0 .. Width(s), NEW batch \in Seq(Events),
         Extends(s, k, batch)
  PROVE  /\ Len(log) \in Nat /\ k \in Nat /\ Len(batch) \in Nat
         /\ Len(log') = Len(log) + k + Len(batch)
         /\ \A j \in 1 .. Len(log) : log'[j] = log[j]
         /\ \A i \in 1 .. k :
              log'[Len(log) + i] = Event(CompletedType(s), <<s, i>>, NoVotes)
         /\ \A j \in 1 .. Len(batch) : log'[Len(log) + k + j] = batch[j]
  <1> DEFINE done == CompletedEvents(s, k)
  <1>1. log \in Seq(Events) /\ done \in Seq(Events) /\ k \in Nat
    BY RecordedType, CallersAreCalls DEF TypeOK
  <1>2. Len(done) = k /\ \A i \in 1 .. k : done[i] = Event(CompletedType(s), <<s, i>>, NoVotes)
    BY <1>1 DEF CompletedEvents
  <1> HIDE DEF done
  <1>3. log' = log \o done \o batch
    BY DEF Extends, done
  <1>4. batch \in Seq(Events) /\ Len(log) \in Nat /\ Len(batch) \in Nat
    BY <1>1, LenProperties
  <1> DEFINE all == log \o done \o batch
  <1>5. /\ Len(all) = Len(log) + Len(done) + Len(batch)
        /\ \A j \in 1 .. Len(log) : all[j] = log[j]
        /\ \A j \in 1 .. Len(done) : all[Len(log) + j] = done[j]
        /\ \A j \in 1 .. Len(batch) : all[Len(log) + Len(done) + j] = batch[j]
    BY <1>1, <1>4, ConcatThree
  <1> HIDE DEF all
  <1>6. log' = all
    BY <1>3 DEF all
  <1> QED BY <1>1, <1>2, <1>4, <1>5, <1>6

(* Where an index of the new log lies.                                     *)
LEMMA Places ==
  ASSUME NEW n \in Nat, NEW k \in Nat, NEW m \in Nat, NEW j \in 1 .. n + k + m
  PROVE  \/ j \in 1 .. n
         \/ \E i \in 1 .. k : j = n + i
         \/ \E i \in 1 .. m : j = n + k + i
  <1>1. CASE j <= n
    BY <1>1
  <1>2. CASE j > n /\ j <= n + k
    <2>1. j - n \in 1 .. k /\ j = n + (j - n)
      BY <1>2
    <2> QED BY <2>1
  <1>3. CASE j > n + k
    <2>1. j - (n + k) \in 1 .. m /\ j = n + k + (j - (n + k))
      BY <1>3
    <2> QED BY <2>1
  <1> QED BY <1>1, <1>2, <1>3

LEMMA CompletionsGrow ==
  ASSUME TypeOK, NEW s \in Stages, NEW k \in 0 .. Width(s), NEW batch \in Seq(Events),
         Extends(s, k, batch), NEW c \in CallIds,
         \A j \in 1 .. Len(batch) :
           ~ (batch[j].call = c /\ batch[j].type = CompletedType(c[1]))
  PROVE  Completions(c)' = IF c[1] = s /\ c[2] <= k
                           THEN Completions(c) \cup {Len(log) + c[2]}
                           ELSE Completions(c)
  <1> DEFINE n == Len(log)
             old == Completions(c)
             new == Completions(c)'
             m == Len(batch)
  <1>1. /\ n \in Nat /\ k \in Nat /\ m \in Nat
        /\ Len(log') = n + k + m
        /\ \A j \in 1 .. n : log'[j] = log[j]
        /\ \A i \in 1 .. k : log'[n + i] = Event(CompletedType(s), <<s, i>>, NoVotes)
        /\ \A j \in 1 .. m : log'[n + k + j] = batch[j]
    BY ExtendedLog
  <1>2. \A j : j \in new <=> /\ j \in 1 .. n + k + m
                             /\ log'[j].call = c /\ log'[j].type = CompletedType(c[1])
    BY <1>1 DEF Completions
  <1>3. \A j \in 1 .. n : j \in new <=> j \in old
    BY <1>1, <1>2 DEF Completions
  <1>4. c[2] \in Nat \ {0} /\ \A i : c = <<s, i>> <=> c[1] = s /\ c[2] = i
    BY CallNames
  <1>5. ASSUME NEW i \in 1 .. k
        PROVE  n + i \in new <=> c[1] = s /\ c[2] = i
    <2>0. log'[n + i] = Event(CompletedType(s), <<s, i>>, NoVotes)
      BY <1>1
    <2>1. log'[n + i].call = <<s, i>> /\ log'[n + i].type = CompletedType(s)
      BY <2>0 DEF Event
    <2>2. n + i \in 1 .. n + k + m
      BY <1>1
    <2> QED BY <1>2, <1>4, <2>1, <2>2
  <1>6. ASSUME NEW i \in 1 .. m
        PROVE  n + k + i \notin new
    BY <1>1, <1>2
  <1>7. \A j : j \in old => j \in 1 .. n
    BY DEF Completions
  <1>8. \A j : j \in new => j \in 1 .. n + k + m
    BY <1>2
  <1> HIDE DEF n, old, new, m
  <1>9. \A j \in 1 .. n + k + m : j \in 1 .. n \/ (\E i \in 1 .. k : j = n + i)
                                    \/ (\E i \in 1 .. m : j = n + k + i)
    <2>1. n \in Nat /\ k \in Nat /\ m \in Nat
      BY <1>1
    <2> QED BY <2>1, Places
  <1>10. \A j : j \in new <=> j \in old \/ (c[1] = s /\ c[2] <= k /\ j = n + c[2])
    <2>1. ASSUME NEW j, j \in new
          PROVE  j \in old \/ (c[1] = s /\ c[2] <= k /\ j = n + c[2])
      <3>1. CASE j \in 1 .. n
        BY <2>1, <3>1, <1>3
      <3>2. CASE \E i \in 1 .. k : j = n + i
        BY <2>1, <3>2, <1>1, <1>5
      <3>3. CASE \E i \in 1 .. m : j = n + k + i
        BY <2>1, <3>3, <1>6
      <3> QED BY <2>1, <3>1, <3>2, <3>3, <1>8, <1>9
    <2>2. \A j : j \in old => j \in new
      BY <1>3, <1>7
    <2>3. c[1] = s /\ c[2] <= k => n + c[2] \in new
      BY <1>1, <1>4, <1>5
    <2> QED BY <2>1, <2>2, <2>3
  <1>11. new = IF c[1] = s /\ c[2] <= k THEN old \cup {n + c[2]} ELSE old
    BY <1>10
  <1> QED BY <1>11 DEF n, old, new

LEMMA StartsGrow ==
  ASSUME TypeOK, NEW s \in Stages, NEW k \in 0 .. Width(s), NEW batch \in Seq(Events),
         Extends(s, k, batch), NEW c \in CallIds
  PROVE  /\ Silent(batch) => Starts(c)' = Starts(c)
         /\ \A t \in Stages, o \in Nat : Announces(batch, o, t) =>
              Starts(c)' = IF c[1] = t THEN Starts(c) \cup {Len(log) + k + o + c[2]}
                           ELSE Starts(c)
  <1> DEFINE n == Len(log)
             old == Starts(c)
             new == Starts(c)'
             m == Len(batch)
  <1>1. /\ n \in Nat /\ k \in Nat /\ m \in Nat
        /\ Len(log') = n + k + m
        /\ \A j \in 1 .. n : log'[j] = log[j]
        /\ \A i \in 1 .. k : log'[n + i] = Event(CompletedType(s), <<s, i>>, NoVotes)
        /\ \A j \in 1 .. m : log'[n + k + j] = batch[j]
    BY ExtendedLog
  <1>2. \A j : j \in new <=> /\ j \in 1 .. n + k + m
                             /\ log'[j].call = c /\ log'[j].type = StartedType(c[1])
    BY <1>1 DEF Starts
  <1>3. \A j \in 1 .. n : j \in new <=> j \in old
    BY <1>1, <1>2 DEF Starts
  <1>4. /\ c[2] \in Nat \ {0} /\ c # NoCall
        /\ \A u, i : c = <<u, i>> <=> c[1] = u /\ c[2] = i
    BY CallNames
  <1>5. ASSUME NEW i \in 1 .. k
        PROVE  n + i \notin new
    <2>0. log'[n + i] = Event(CompletedType(s), <<s, i>>, NoVotes)
      BY <1>1
    <2>1. log'[n + i].call = <<s, i>> /\ log'[n + i].type = CompletedType(s)
      BY <2>0 DEF Event
    <2> QED BY <1>2, <1>4, <2>1, StartIsNotCompletion
  <1>6. ASSUME NEW i \in 1 .. m
        PROVE  n + k + i \in new <=> batch[i].call = c /\ batch[i].type = StartedType(c[1])
    BY <1>1, <1>2
  <1>7. \A j : j \in old => j \in 1 .. n
    BY DEF Starts
  <1>8. \A j : j \in new => j \in 1 .. n + k + m
    BY <1>2
  <1> HIDE DEF n, old, new, m
  <1>9. \A j \in 1 .. n + k + m : j \in 1 .. n \/ (\E i \in 1 .. k : j = n + i)
                                    \/ (\E i \in 1 .. m : j = n + k + i)
    <2>1. n \in Nat /\ k \in Nat /\ m \in Nat
      BY <1>1
    <2> QED BY <2>1, Places
  <1>10. \A j : j \in old => j \in new
    BY <1>3, <1>7
  <1>11. ASSUME NEW j, j \in new, j \notin old
         PROVE  \E i \in 1 .. m : j = n + k + i
    <2>1. CASE j \in 1 .. n
      BY <1>11, <2>1, <1>3
    <2>2. CASE \E i \in 1 .. k : j = n + i
      BY <1>11, <2>2, <1>5
    <2> QED BY <1>11, <2>1, <2>2, <1>8, <1>9
  <1>12. ASSUME Silent(batch)
         PROVE  new = old
    <2>1. \A i \in 1 .. m : n + k + i \notin new
      BY <1>4, <1>6, <1>12 DEF Silent, m
    <2> QED BY <2>1, <1>10, <1>11
  <1>13. ASSUME NEW t \in Stages, NEW o \in Nat, Announces(batch, o, t)
         PROVE  new = IF c[1] = t THEN old \cup {n + k + o + c[2]} ELSE old
    <2>1. /\ Width(t) \in Nat \ {0} /\ m = o + Width(t)
          /\ \A i : i \in Callers(t) <=> i \in 1 .. Width(t)
      BY <1>13, CallersAreCalls DEF Announces, Callers, m
    <2>2. ASSUME NEW i \in 1 .. o
          PROVE  n + k + i \notin new
      BY <1>4, <1>6, <1>13, <2>1 DEF Announces
    <2>3. ASSUME NEW i \in 1 .. Width(t)
          PROVE  n + k + (o + i) \in new <=> c[1] = t /\ c[2] = i
      <3>1. o + i \in 1 .. m /\ i \in Callers(t)
        BY <2>1
      <3>2. batch[o + i] = Event(StartedType(t), <<t, i>>, NoVotes)
        BY <3>1, <1>13 DEF Announces
      <3>3. batch[o + i].call = <<t, i>> /\ batch[o + i].type = StartedType(t)
        BY <3>2 DEF Event
      <3> QED BY <3>1, <3>3, <1>4, <1>6
    <2>4. \A j : j \in new => j \in old \/ (c[1] = t /\ j = n + k + o + c[2])
      <3> SUFFICES ASSUME NEW j, j \in new, j \notin old
                   PROVE  c[1] = t /\ j = n + k + o + c[2]
        OBVIOUS
      <3>1. PICK i \in 1 .. m : j = n + k + i
        BY <1>11
      <3>2. ~ (i <= o)
        <4> SUFFICES ASSUME i <= o PROVE FALSE
          OBVIOUS
        <4>1. i \in 1 .. o
          BY <2>1
        <4> QED BY <4>1, <3>1, <2>2
      <3>3. i - o \in 1 .. Width(t) /\ i = o + (i - o)
        BY <3>2, <2>1
      <3> QED BY <1>1, <3>1, <3>3, <2>3
    <2>5. c[1] = t => n + k + o + c[2] \in new
      <3>1. c[1] = t => c[2] \in 1 .. Width(t)
        BY CallNames, <2>1
      <3>2. n + k + (o + c[2]) = n + k + o + c[2]
        BY <1>1, <1>4
      <3> QED BY <3>1, <3>2, <2>3
    <2> QED BY <1>10, <2>4, <2>5
  <1> QED BY <1>12, <1>13 DEF n, old, new
--------------------------------------------------------------------------------

LEMMA OpeningShape ==
  ASSUME NEW t \in Stages
  PROVE  /\ Opening(t) \in Seq(Events) /\ Len(Opening(t)) = Width(t)
         /\ \A i \in Callers(t) : Opening(t)[i] = Event(StartedType(t), <<t, i>>, NoVotes)
  <1>1. Opening(t) \in Seq(Events)
    BY EventTypesOK
  <1>2. DOMAIN Opening(t) = 1 .. Width(t) /\ Width(t) \in Nat
    BY CallersAreCalls DEF Opening, Callers
  <1>3. Len(Opening(t)) = Width(t)
    BY <1>1, <1>2, LenProperties
  <1> QED BY <1>1, <1>3 DEF Opening

LEMMA AnnouncesAfter ==
  ASSUME NEW before \in Seq(Events), Silent(before), NEW t \in Stages
  PROVE  Announces(before \o Opening(t), Len(before), t)
  <1> DEFINE o == Len(before)
             w == Width(t)
             all == before \o Opening(t)
  <1>1. o \in Nat /\ w \in Nat /\ \A i : i \in Callers(t) <=> i \in 1 .. w
    BY CallersAreCalls, LenProperties DEF Callers
  <1>2. /\ Len(all) = o + w
        /\ \A i \in 1 .. o + w : all[i] = IF i <= o THEN before[i] ELSE Opening(t)[i - o]
    BY OpeningShape, ConcatProperties
  <1> HIDE DEF o, w, all
  <1>3. \A i \in 1 .. o : all[i] = before[i]
    BY <1>1, <1>2
  <1>4. \A i \in 1 .. w : all[o + i] = Opening(t)[i]
    BY <1>1, <1>2
  <1>5. \A i \in 1 .. o : all[i].call = NoCall
    BY <1>3 DEF Silent, o
  <1>6. \A i \in Callers(t) : all[o + i] = Event(StartedType(t), <<t, i>>, NoVotes)
    BY <1>1, <1>4, OpeningShape
  <1> QED BY <1>2, <1>5, <1>6 DEF Announces, o, w, all

(* What each action adds to the log after the completions it reports.      *)
LEMMA BatchShapes ==
  /\ \A t \in Stages : Announces(Opening(t), 0, t)
  /\ Announces(<<Say("command_received"), Say("run_started")>> \o Opening("task_framing"),
               2, "task_framing")
  /\ Announces(<<Say("candidate_created"), Say("round_started"), Say("review_started")>>
                 \o Opening("candidate_review"), 3, "candidate_review")
  /\ Announces(Verdict \o Opening("release_gate"), 3, "release_gate")
  /\ Silent(Verdict \o Closing) /\ Silent(Closing)
  <1>1. \A t \in Stages : Announces(Opening(t), 0, t)
    <2> SUFFICES ASSUME NEW t \in Stages PROVE Announces(Opening(t), 0, t)
      OBVIOUS
    <2>1. Width(t) \in Nat /\ Len(Opening(t)) = 0 + Width(t)
      BY OpeningShape, CallersAreCalls
    <2>2. \A i \in Callers(t) : 0 + i = i
      BY DEF Callers
    <2> QED BY <2>1, <2>2, OpeningShape DEF Announces
  <1>2. /\ <<Say("command_received"), Say("run_started")>> \in Seq(Events)
        /\ <<Say("candidate_created"), Say("round_started"), Say("review_started")>>
             \in Seq(Events)
        /\ Verdict \in Seq(Events)
    BY SayType, BatchTypes DEF EventTypes
  <1>3. /\ Silent(<<Say("command_received"), Say("run_started")>>)
        /\ Silent(<<Say("candidate_created"), Say("round_started"), Say("review_started")>>)
        /\ Silent(Verdict)
        /\ Silent(Verdict \o Closing)
        /\ Silent(Closing)
    BY DEF Silent, Say, Event, Verdict, Closing
  <1>4. /\ Len(<<Say("command_received"), Say("run_started")>>) = 2
        /\ Len(<<Say("candidate_created"), Say("round_started"), Say("review_started")>>) = 3
        /\ Len(Verdict) = 3
    BY DEF Verdict
  <1>5. "task_framing" \in Stages /\ "candidate_review" \in Stages /\ "release_gate" \in Stages
    BY DEF Stages
  <1>6. Announces(<<Say("command_received"), Say("run_started")>> \o Opening("task_framing"),
                  2, "task_framing")
    BY <1>2, <1>3, <1>4, <1>5, AnnouncesAfter
  <1>7. Announces(<<Say("candidate_created"), Say("round_started"), Say("review_started")>>
                    \o Opening("candidate_review"), 3, "candidate_review")
    BY <1>2, <1>3, <1>4, <1>5, AnnouncesAfter
  <1>8. Announces(Verdict \o Opening("release_gate"), 3, "release_gate")
    BY <1>2, <1>3, <1>4, <1>5, AnnouncesAfter
  <1> QED BY <1>1, <1>3, <1>6, <1>7, <1>8

LEMMA NoCompletionIn ==
  ASSUME NEW batch, NEW c \in CallIds,
         Silent(batch) \/ \E t \in Stages, o \in Nat : Announces(batch, o, t)
  PROVE  \A j \in 1 .. Len(batch) :
           ~ (batch[j].call = c /\ batch[j].type = CompletedType(c[1]))
  <1>1. CASE Silent(batch)
    BY <1>1, CallNames DEF Silent
  <1>2. ASSUME NEW t \in Stages, NEW o \in Nat, Announces(batch, o, t),
               NEW j \in 1 .. Len(batch), batch[j].call = c
        PROVE  batch[j].type # CompletedType(c[1])
    <2>1. /\ Width(t) \in Nat /\ Len(batch) = o + Width(t)
          /\ \A i \in 1 .. Width(t) : i \in Callers(t)
      BY <1>2, CallersAreCalls DEF Announces, Callers
    <2>2. ~ (j <= o)
      <3> SUFFICES ASSUME j <= o PROVE FALSE
        OBVIOUS
      <3>1. j \in 1 .. o
        BY <2>1
      <3> QED BY <3>1, <1>2, CallNames DEF Announces
    <2>3. j - o \in 1 .. Width(t) /\ j = o + (j - o)
      BY <2>1, <2>2
    <2>4. batch[j] = Event(StartedType(t), <<t, j - o>>, NoVotes)
      BY <1>2, <2>1, <2>3 DEF Announces
    <2>5. batch[j].call = <<t, j - o>> /\ batch[j].type = StartedType(t)
      BY <2>4 DEF Event
    <2>6. c[1] = t
      BY <1>2, <2>5, CallNames
    <2> QED BY <2>5, <2>6, StartIsNotCompletion
  <1> QED BY <1>1, <1>2

--------------------------------------------------------------------------------

(* The events that name a call, related to what has become of it: an       *)
(* announcement once it is issued, a completion only later, and none for   *)
(* the stage that is still awaited.                                        *)
Announced ==
  \A c \in CallIds :
    /\ call[c] = "idle" => Starts(c) = {}
    /\ call[c] # "idle" => \E j \in 1 .. Len(log) : Starts(c) = {j}

CompletedOnce == \A c \in CallIds : \A i, j \in Completions(c) : i = j

CompletedLater ==
  \A c \in CallIds : \A j \in Completions(c) :
    /\ call[c] = "returned" /\ reply[c].valid
    /\ \E i \in Starts(c) : i < j

NotYetCompleted ==
  /\ pc = "new" => log = <<>>
  /\ pc \in Stages =>
       \A c \in CallIds : StageNumber[c[1]] >= StageNumber[pc] => Completions(c) = {}

EventsInv ==
  /\ Announced
  /\ CompletedOnce
  /\ CompletedLater
  /\ NotYetCompleted
  /\ ParticipantOrder

(* A step that publishes nothing and changes no call that had returned.    *)
LEMMA QuietEvents ==
  ASSUME EventsInv, log' = log, pc' \in Ended \/ pc' = pc,
         \A c \in CallIds :
           /\ call'[c] = "idle" <=> call[c] = "idle"
           /\ call[c] = "returned" => call'[c] = "returned" /\ reply'[c] = reply[c]
  PROVE  EventsInv'
  <1>1. \A c \in CallIds : Starts(c)' = Starts(c) /\ Completions(c)' = Completions(c)
    BY DEF Starts, Completions
  <1>2. Announced'
    BY <1>1 DEF EventsInv, Announced
  <1>3. CompletedOnce' /\ ParticipantOrder'
    BY <1>1 DEF EventsInv, CompletedOnce, ParticipantOrder
  <1>4. CompletedLater'
    BY <1>1 DEF EventsInv, CompletedLater
  <1>5. NotYetCompleted'
    BY <1>1, StagesAreNotEnds DEF EventsInv, NotYetCompleted, Ended
  <1> QED BY <1>2, <1>3, <1>4, <1>5 DEF EventsInv

(* The completions of the first k replies of the awaited stage are         *)
(* published: they follow everything published before, in participant      *)
(* order.                                                                  *)
LEMMA CompletionsPublished ==
  ASSUME ControlInv, EventsInv, NEW s \in Stages, pc = s, NEW k \in 0 .. Width(s),
         NEW batch \in Seq(Events), Extends(s, k, batch),
         Silent(batch) \/ \E t \in Stages, o \in Nat :
                            Announces(batch, o, t) /\ StageNumber[t] > StageNumber[s],
         \A i \in 1 .. k : call[<<s, i>>] = "returned" /\ reply[<<s, i>>].valid,
         \A c \in CallIds : call[c] = "returned" => call'[c] = "returned" /\ reply'[c] = reply[c]
  PROVE  /\ CompletedOnce' /\ CompletedLater' /\ ParticipantOrder'
         /\ \A c \in CallIds : StageNumber[c[1]] > StageNumber[s] => Completions(c)' = {}
         /\ \A c \in CallIds : c[1] = s => (Completions(c)' # {} <=> c[2] <= k)
  <1> DEFINE n == Len(log)
  <1>1. TypeOK /\ n \in Nat /\ k \in Nat
    BY CallersAreCalls DEF ControlInv, TypeOK
  <1>2. \A c \in CallIds : StageNumber[c[1]] \in Nat /\ c[1] \in Stages /\ c[2] \in Nat \ {0}
    BY CallNames, StageNumbers
  <1>3. StageNumber[s] \in Nat /\ \A c \in CallIds : StageNumber[c[1]] = StageNumber[s] => c[1] = s
    BY <1>2, StageNumbers
  <1>4. \A c \in CallIds : StageNumber[c[1]] >= StageNumber[s] => Completions(c) = {}
    BY DEF EventsInv, NotYetCompleted
  <1>5. \A c \in CallIds : Completions(c)' = IF c[1] = s /\ c[2] <= k
                                            THEN Completions(c) \cup {n + c[2]}
                                            ELSE Completions(c)
    BY <1>1, CompletionsGrow, NoCompletionIn
  <1>6. ASSUME NEW c \in CallIds, StageNumber[c[1]] <= StageNumber[s]
        PROVE  Starts(c)' = Starts(c)
    <2>1. CASE Silent(batch)
      BY <1>1, <2>1, StartsGrow
    <2>2. ASSUME NEW t \in Stages, NEW o \in Nat, Announces(batch, o, t),
                 StageNumber[t] > StageNumber[s]
          PROVE  Starts(c)' = Starts(c)
      <3>1. c[1] # t
        BY <1>6, <2>2, StageNumbers
      <3> QED BY <1>1, <2>2, <3>1, StartsGrow
    <2> QED BY <2>1, <2>2
  <1>7. \A c \in CallIds : \A i \in Starts(c) : i \in 1 .. n
    BY DEF Starts
  <1>8. ASSUME NEW c \in CallIds, StageNumber[c[1]] > StageNumber[s]
        PROVE  Completions(c)' = {}
    BY <1>2, <1>3, <1>4, <1>5, <1>8
  <1>9. ASSUME NEW c \in CallIds, c[1] = s
        PROVE  Completions(c)' = IF c[2] <= k THEN {n + c[2]} ELSE {}
    BY <1>2, <1>3, <1>4, <1>5, <1>9
  <1>10. ASSUME NEW c \in CallIds, StageNumber[c[1]] < StageNumber[s]
         PROVE  Completions(c)' = Completions(c)
    BY <1>2, <1>3, <1>5, <1>10
  <1> HIDE DEF n
  <1>11. \A c \in CallIds : \/ StageNumber[c[1]] > StageNumber[s]
                            \/ c[1] = s
                            \/ StageNumber[c[1]] < StageNumber[s]
    BY <1>2, <1>3
  <1>12. CompletedOnce'
    <2> SUFFICES ASSUME NEW c \in CallIds, NEW i \in Completions(c)', NEW j \in Completions(c)'
                 PROVE  i = j
      BY DEF CompletedOnce
    <2>1. CASE c[1] = s
      BY <2>1, <1>9
    <2>2. CASE StageNumber[c[1]] < StageNumber[s]
      BY <2>2, <1>10 DEF EventsInv, CompletedOnce
    <2> QED BY <2>1, <2>2, <1>8, <1>11
  <1>13. CompletedLater'
    <2> SUFFICES ASSUME NEW c \in CallIds, NEW j \in Completions(c)'
                 PROVE  /\ call'[c] = "returned" /\ reply'[c].valid
                        /\ \E i \in Starts(c)' : i < j
      BY DEF CompletedLater
    <2>1. CASE c[1] = s
      <3>1. c[2] <= k /\ j = n + c[2]
        BY <2>1, <1>9
      <3>2. c[2] \in 1 .. k /\ c = <<s, c[2]>>
        BY <3>1, <2>1, <1>1, <1>2, CallNames
      <3>3. call[c] = "returned" /\ reply[c].valid
        BY <3>2
      <3>4. PICK i \in 1 .. n : Starts(c) = {i}
        BY <3>3 DEF EventsInv, Announced, n
      <3>5. i < j
        BY <3>1, <3>4, <1>1, <1>2
      <3>6. Starts(c)' = {i}
        BY <3>4, <2>1, <1>3, <1>6
      <3> QED BY <3>3, <3>5, <3>6
    <2>2. CASE StageNumber[c[1]] < StageNumber[s]
      <3>1. Starts(c)' = Starts(c)
        BY <2>2, <1>2, <1>3, <1>6
      <3> QED BY <3>1, <2>2, <1>10 DEF EventsInv, CompletedLater
    <2> QED BY <2>1, <2>2, <1>8, <1>11
  <1>14. ParticipantOrder'
    <2> SUFFICES ASSUME NEW c \in CallIds, NEW d \in CallIds, c[1] = d[1],
                        NEW j \in Completions(d)'
                 PROVE  /\ \A i \in Starts(c)' : i < j
                        /\ c[2] < d[2] => \E i \in Completions(c)' : i < j
      BY DEF ParticipantOrder
    <2>1. CASE d[1] = s
      <3>1. d[2] <= k /\ j = n + d[2] /\ Starts(c)' = Starts(c)
        BY <2>1, <1>3, <1>6, <1>9
      <3>2. \A i \in Starts(c)' : i < j
        BY <3>1, <1>1, <1>2, <1>7
      <3>3. c[2] < d[2] => Completions(c)' = {n + c[2]} /\ n + c[2] < j
        BY <3>1, <2>1, <1>1, <1>2, <1>9
      <3> QED BY <3>2, <3>3
    <2>2. CASE StageNumber[d[1]] < StageNumber[s]
      <3>1. /\ Starts(c)' = Starts(c) /\ Completions(c)' = Completions(c)
            /\ Completions(d)' = Completions(d)
        BY <2>2, <1>2, <1>3, <1>6, <1>10
      <3> QED BY <3>1 DEF EventsInv, ParticipantOrder
    <2> QED BY <2>1, <2>2, <1>8, <1>11
  <1>15. \A c \in CallIds : c[1] = s => (Completions(c)' # {} <=> c[2] <= k)
    BY <1>9
  <1> QED BY <1>8, <1>12, <1>13, <1>14, <1>15

(* The run goes on to stage t: its calls are announced as they are issued. *)
LEMMA StageAnnounced ==
  ASSUME TypeOK, Announced, NEW s \in Stages, NEW k \in 0 .. Width(s),
         NEW batch \in Seq(Events), Extends(s, k, batch),
         NEW t \in Stages, NEW o \in Nat, Announces(batch, o, t), Await(t),
         \A c \in CallIds : c[1] = t => call[c] = "idle"
  PROVE  Announced'
  <1> SUFFICES ASSUME NEW c \in CallIds
               PROVE  /\ call'[c] = "idle" => Starts(c)' = {}
                      /\ call'[c] # "idle" => \E j \in 1 .. Len(log') : Starts(c)' = {j}
    BY DEF Announced
  <1>1. call'[c] = IF c[1] = t THEN "inflight" ELSE call[c]
    BY DEF Await, Issued
  <1>2. Starts(c)' = IF c[1] = t THEN Starts(c) \cup {Len(log) + k + o + c[2]}
                     ELSE Starts(c)
    BY StartsGrow
  <1>3. Starts(c)' \subseteq 1 .. Len(log')
    BY DEF Starts
  <1>4. /\ call[c] = "idle" => Starts(c) = {}
        /\ call[c] # "idle" => \E j \in 1 .. Len(log) : Starts(c) = {j}
    BY DEF Announced
  <1> QED BY <1>1, <1>2, <1>3, <1>4

LEMMA SilentAnnounced ==
  ASSUME TypeOK, Announced, NEW s \in Stages, NEW k \in 0 .. Width(s),
         NEW batch \in Seq(Events), Extends(s, k, batch), Silent(batch), call' = call
  PROVE  Announced'
  <1> SUFFICES ASSUME NEW c \in CallIds
               PROVE  /\ call[c] = "idle" => Starts(c)' = {}
                      /\ call[c] # "idle" => \E j \in 1 .. Len(log') : Starts(c)' = {j}
    BY DEF Announced
  <1>1. Starts(c)' = Starts(c)
    BY StartsGrow
  <1>2. Starts(c)' \subseteq 1 .. Len(log')
    BY DEF Starts
  <1> QED BY <1>1, <1>2 DEF Announced

(* The four ways a stage ends in the stream.                               *)
LEMMA BeginEvents ==
  ASSUME ControlInv, EventsInv, BeginRun
  PROVE  EventsInv'
  <1> DEFINE batch == <<Say("command_received"), Say("run_started")>> \o Opening("task_framing")
  <1>1. /\ log = <<>> /\ TypeOK /\ "task_framing" \in Stages
        /\ 0 \in 0 .. Width("task_framing") /\ batch \in Seq(Events)
    BY CallersAreCalls, BatchTypes
    DEF EventsInv, NotYetCompleted, BeginRun, ControlInv, Stages
  <1>2. Announces(batch, 2, "task_framing") /\ Await("task_framing") /\ log' = batch
    BY BatchShapes DEF BeginRun
  <1>3. Extends("task_framing", 0, batch)
    <2>1. CompletedEvents("task_framing", 0) = <<>>
      <3>1. CompletedEvents("task_framing", 0) \in Seq(Events)
        BY <1>1, RecordedType
      <3>2. DOMAIN CompletedEvents("task_framing", 0) = 1 .. 0
        BY DEF CompletedEvents
      <3>3. Len(CompletedEvents("task_framing", 0)) = 0
        BY <3>1, <3>2, LenProperties
      <3> QED BY <3>1, <3>3, EmptySeq
    <2> HIDE DEF batch
    <2>2. <<>> \o <<>> \o batch = batch
      BY <1>1, ConcatEmptySeq, EmptySeq
    <2> QED BY <1>1, <1>2, <2>1, <2>2 DEF Extends
  <1>4. \A c \in CallIds : call[c] = "idle"
    BY DEF BeginRun, ControlInv, FrontierInv
  <1> HIDE DEF batch
  <1>5. Announced'
    BY <1>1, <1>2, <1>3, <1>4, StageAnnounced DEF EventsInv
  <1>6. \A c \in CallIds : Completions(c)' = {}
    <2>1. \A c \in CallIds : Completions(c) = {}
      BY <1>1 DEF Completions
    <2>2. \A c \in CallIds : c[2] \in Nat \ {0}
      BY CallNames
    <2> SUFFICES ASSUME NEW c \in CallIds PROVE Completions(c)' = {}
      OBVIOUS
    <2>3. \A j \in 1 .. Len(batch) :
            ~ (batch[j].call = c /\ batch[j].type = CompletedType(c[1]))
      BY <1>1, <1>2, NoCompletionIn
    <2>4. ~ (c[2] <= 0)
      BY <2>2
    <2> QED BY <1>1, <1>3, <2>1, <2>3, <2>4, CompletionsGrow
  <1>7. pc' # "new"
    BY <1>2 DEF Await
  <1> QED BY <1>5, <1>6, <1>7
          DEF EventsInv, CompletedOnce, CompletedLater, ParticipantOrder, NotYetCompleted

LEMMA AwaitEvents ==
  ASSUME ControlInv, EventsInv, NEW s \in Stages, NEW t \in Stages,
         StageNumber[t] = StageNumber[s] + 1, NEW batch \in Seq(Events),
         NEW o \in Nat, Announces(batch, o, t), Accept(s, batch), Await(t)
  PROVE  EventsInv'
  <1>1. /\ TypeOK /\ Width(s) \in 0 .. Width(s) /\ Extends(s, Width(s), batch) /\ pc = s
        /\ pc' = t /\ t \notin {"new"} \cup Ended
    BY CallersAreCalls, StagesAreNotEnds DEF ControlInv, Accept, Extends, Await, Ended
  <1>2. StageNumber[t] > StageNumber[s] /\ StageNumber[t] \in Nat /\ StageNumber[s] \in Nat
    BY StageNumbers
  <1>3. \A c \in CallIds : c[1] = t => call[c] = "idle"
    BY <1>1, <1>2 DEF ControlInv, FrontierInv, Frontier
  <1>4. \A i \in 1 .. Width(s) : call[<<s, i>>] = "returned" /\ reply[<<s, i>>].valid
    BY DEF Accept, AllReturned, CallsOf, Callers, Gather
  <1>5. \A c \in CallIds : call[c] = "returned" => call'[c] = "returned" /\ reply'[c] = reply[c]
    BY <1>3 DEF Await, Issued
  <1>6. /\ CompletedOnce' /\ CompletedLater' /\ ParticipantOrder'
        /\ \A c \in CallIds : StageNumber[c[1]] > StageNumber[s] => Completions(c)' = {}
    BY <1>1, <1>2, <1>4, <1>5, CompletionsPublished
  <1>7. Announced'
    BY <1>1, <1>3, StageAnnounced DEF EventsInv
  <1>8. NotYetCompleted'
    <2>1. \A c \in CallIds : StageNumber[c[1]] \in Nat
      BY CallNames, StageNumbers
    <2> QED BY <2>1, <1>1, <1>2, <1>6 DEF NotYetCompleted
  <1> QED BY <1>6, <1>7, <1>8 DEF EventsInv

LEMMA DeliverEvents ==
  ASSUME ControlInv, EventsInv, NEW s \in Stages, NEW batch \in Seq(Events), Silent(batch),
         Accept(s, batch), NEW c, NEW executed, NEW decision, Deliver(c, executed, decision)
  PROVE  EventsInv'
  <1>1. /\ TypeOK /\ Width(s) \in 0 .. Width(s) /\ Extends(s, Width(s), batch) /\ pc = s
        /\ pc' = "returned" /\ call' = call /\ reply' = reply
    BY CallersAreCalls DEF ControlInv, Accept, Extends, Deliver
  <1>2. \A i \in 1 .. Width(s) : call[<<s, i>>] = "returned" /\ reply[<<s, i>>].valid
    BY DEF Accept, AllReturned, CallsOf, Callers, Gather
  <1>3. CompletedOnce' /\ CompletedLater' /\ ParticipantOrder'
    BY <1>1, <1>2, CompletionsPublished
  <1>4. Announced'
    BY <1>1, SilentAnnounced DEF EventsInv
  <1>5. NotYetCompleted'
    BY <1>1, StagesAreNotEnds DEF NotYetCompleted
  <1> QED BY <1>3, <1>4, <1>5 DEF EventsInv

(* An invalid reply leaves the completions of the replies before it.       *)
LEMMA InvalidEvents ==
  ASSUME ControlInv, EventsInv, NEW s \in Stages, RaiseInvalidReply(s)
  PROVE  /\ EventsInv'
         /\ error'.kind = "validation" /\ error'.call \in CallsOf(s)
         /\ ~ reply[error'.call].valid
         /\ \A c \in CallsOf(s) : Completions(c)' # {} <=> c[2] < error'.call[2]
  <1>1. PICK i \in Callers(s) :
          /\ \A j \in 1 .. i - 1 : Gather(s)[j].valid
          /\ ~ Gather(s)[i].valid
          /\ log' = log \o CompletedEvents(s, i - 1)
          /\ Raise("validation", <<s, i>>)
    BY DEF RaiseInvalidReply
  <1>2. /\ Width(s) \in Nat /\ i \in 1 .. Width(s) /\ i - 1 \in 0 .. Width(s)
        /\ 1 .. i - 1 \subseteq Callers(s) /\ TypeOK /\ pc = s /\ pc' = "raised"
        /\ call' = call /\ reply' = reply /\ AllReturned(s)
    BY <1>1, CallersAreCalls DEF Callers, ControlInv, RaiseInvalidReply, Raise
  <1>3. <<>> \in Seq(Events) /\ Silent(<<>>)
    BY EmptySeq DEF Silent
  <1>4. Extends(s, i - 1, <<>>)
    <2>1. log \in Seq(Events) /\ CompletedEvents(s, i - 1) \in Seq(Events)
      BY <1>2, RecordedType DEF TypeOK
    <2>2. log \o CompletedEvents(s, i - 1) \in Seq(Events)
      BY <2>1, ConcatProperties
    <2> QED BY <1>1, <2>2, ConcatEmptySeq DEF Extends
  <1>5. \A j \in 1 .. i - 1 : call[<<s, j>>] = "returned" /\ reply[<<s, j>>].valid
    BY <1>1, <1>2 DEF AllReturned, CallsOf, Gather
  <1>6. /\ CompletedOnce' /\ CompletedLater' /\ ParticipantOrder'
        /\ \A c \in CallIds : c[1] = s => (Completions(c)' # {} <=> c[2] <= i - 1)
    BY <1>2, <1>3, <1>4, <1>5, CompletionsPublished
  <1>7. Announced'
    BY <1>2, <1>3, <1>4, SilentAnnounced DEF EventsInv
  <1>8. NotYetCompleted'
    BY <1>2, StagesAreNotEnds DEF NotYetCompleted
  <1>9. error'.kind = "validation" /\ error'.call = <<s, i>> /\ <<s, i>> \in CallsOf(s)
    BY <1>1 DEF Raise, CallsOf
  <1>10. ~ reply[<<s, i>>].valid
    BY <1>1 DEF Gather
  <1>11. \A c \in CallsOf(s) : c \in CallIds /\ c[1] = s /\ c[2] \in Nat
    BY CallersAreCalls DEF CallsOf, Callers
  <1> QED BY <1>2, <1>6, <1>7, <1>8, <1>9, <1>10, <1>11 DEF EventsInv

(* A step that publishes nothing.                                          *)
LEMMA SettleIsQuiet ==
  ASSUME TypeOK, EventsInv, NEW c \in CallIds, Settle(c)
  PROVE  EventsInv'
  <1>1. log' = log /\ pc' = pc /\ call[c] = "inflight" /\ call'[c] \in {"returned", "failed"}
    BY DEF Settle, CallReturns, CallFails, TypeOK
  <1>2. \A d \in CallIds : d # c => call'[d] = call[d] /\ reply'[d] = reply[d]
    BY DEF Settle, CallReturns, CallFails, TypeOK
  <1> QED BY <1>1, <1>2, QuietEvents

LEMMA CancelIsQuiet ==
  ASSUME TypeOK, EventsInv, NEW s \in Stages, Cancel(s)
  PROVE  EventsInv'
  <1>1. log' = log /\ pc' \in Ended /\ reply' = reply
    BY DEF Cancel, Raise, Ended
  <1>2. \A c \in CallIds : call'[c] = call[c]
                           \/ (call[c] = "inflight" /\ call'[c] = "cancelled")
    BY DEF Cancel, TypeOK
  <1> QED BY <1>1, <1>2, QuietEvents

LEMMA ProviderErrorIsQuiet ==
  ASSUME EventsInv, NEW s \in Stages, RaiseProviderError(s)
  PROVE  EventsInv'
  <1>1. log' = log /\ pc' \in Ended /\ reply' = reply /\ call' = call
    BY DEF RaiseProviderError, Raise, Ended
  <1> QED BY <1>1, QuietEvents

LEMMA EventsStep == ControlInv /\ EventsInv /\ [Next]_vars => EventsInv'
  <1> SUFFICES ASSUME ControlInv, EventsInv, [Next]_vars
               PROVE  EventsInv'
    OBVIOUS
  <1>0. TypeOK /\ 0 \in Nat /\ 3 \in Nat
    BY DEF ControlInv
  <1>1. CASE BeginRun
    BY <1>1, BeginEvents
  <1>2. CASE FrameTask
    BY <1>0, <1>2, AwaitEvents, BatchShapes, OpeningShape DEF FrameTask, Stages, StageNumber
  <1>3. CASE CollectContributions
    BY <1>0, <1>3, AwaitEvents, BatchShapes, OpeningShape
    DEF CollectContributions, Stages, StageNumber
  <1>4. CASE OpenReviews
    <2> DEFINE batch == <<Say("candidate_created"), Say("round_started"),
                          Say("review_started")>> \o Opening("candidate_review")
    <2>1. batch \in Seq(Events) /\ Announces(batch, 3, "candidate_review")
      BY BatchTypes, BatchShapes
    <2>2. Accept("candidate_synthesis", batch) /\ Await("candidate_review")
      BY <1>4 DEF OpenReviews
    <2> HIDE DEF batch
    <2> QED BY <1>0, <2>1, <2>2, AwaitEvents DEF Stages, StageNumber
  <1>5. CASE FinishUngated
    BY <1>5, DeliverEvents, BatchTypes, BatchShapes DEF FinishUngated, Stages
  <1>6. CASE OpenGate
    <2> DEFINE batch == Verdict \o Opening("release_gate")
    <2>1. batch \in Seq(Events) /\ Announces(batch, 3, "release_gate")
      BY BatchTypes, BatchShapes
    <2>2. Accept("candidate_review", batch) /\ Await("release_gate")
      BY <1>6 DEF OpenGate
    <2> HIDE DEF batch
    <2> QED BY <1>0, <2>1, <2>2, AwaitEvents DEF Stages, StageNumber
  <1>7. CASE FinishGated
    BY <1>7, DeliverEvents, BatchTypes, BatchShapes DEF FinishGated, Stages
  <1>8. ASSUME NEW s \in Stages, RaiseProviderError(s)
        PROVE  EventsInv'
    BY <1>8, ProviderErrorIsQuiet
  <1>9. ASSUME NEW s \in Stages, RaiseInvalidReply(s)
        PROVE  EventsInv'
    BY <1>9, InvalidEvents
  <1>10. ASSUME NEW s \in Stages, Cancel(s)
         PROVE  EventsInv'
    BY <1>0, <1>10, CancelIsQuiet
  <1>11. ASSUME NEW c \in CallIds, Settle(c)
         PROVE  EventsInv'
    BY <1>0, <1>11, SettleIsQuiet
  <1>12. CASE UNCHANGED vars
    BY <1>12, QuietEvents DEF vars
  <1> QED
    BY <1>1, <1>2, <1>3, <1>4, <1>5, <1>6, <1>7, <1>8, <1>9, <1>10, <1>11, <1>12
    DEF Next, Resume, Rest

LEMMA EventsHold == Spec => []EventsInv
  <1>1. Init => EventsInv
    <2> SUFFICES ASSUME Init PROVE EventsInv
      OBVIOUS
    <2>1. /\ log = <<>> /\ pc = "new" /\ \A c \in CallIds : call[c] = "idle"
      BY DEF Init
    <2>2. \A c \in CallIds : Starts(c) = {} /\ Completions(c) = {}
      BY <2>1 DEF Starts, Completions
    <2> QED BY <2>1, <2>2, StagesAreNotEnds
            DEF EventsInv, Announced, CompletedOnce, CompletedLater, NotYetCompleted,
                ParticipantOrder
  <1> QED BY <1>1, EventsStep, ControlInvHolds, PTL DEF Spec

(* Every provider call is announced exactly once, when it is issued, and   *)
(* reported complete at most once, later, and only with a valid payload.   *)
THEOREM EventsBracketCallsHolds == Spec => []EventsBracketCalls
  <1>1. EventsInv => EventsBracketCalls
    <2> SUFFICES ASSUME EventsInv, NEW c \in CallIds
                 PROVE  /\ Cardinality(Starts(c)) = (IF call[c] = "idle" THEN 0 ELSE 1)
                        /\ Cardinality(Completions(c)) <= 1
                        /\ \A j \in Completions(c) :
                             /\ call[c] = "returned" /\ reply[c].valid
                             /\ \E i \in Starts(c) : i < j
      BY DEF EventsBracketCalls
    <2>1. Cardinality(Starts(c)) = (IF call[c] = "idle" THEN 0 ELSE 1)
      BY FS_EmptySet, FS_Singleton DEF EventsInv, Announced
    <2>2. Cardinality(Completions(c)) <= 1
      <3>1. CASE Completions(c) = {}
        BY <3>1, FS_EmptySet
      <3>2. ASSUME NEW j \in Completions(c)
            PROVE  Cardinality(Completions(c)) <= 1
        <4>1. Completions(c) = {j}
          BY <3>2 DEF EventsInv, CompletedOnce
        <4>2. Cardinality({j}) = 1
          BY FS_Singleton
        <4> QED BY <4>1, <4>2
      <3> QED BY <3>1, <3>2
    <2> QED BY <2>1, <2>2 DEF EventsInv, CompletedLater
  <1> QED BY <1>1, EventsHold, PTL

(* However the gathered calls of a stage settle, its events come in the    *)
(* same order: all announcements, then completions by participant.         *)
THEOREM ParticipantOrderHolds == Spec => []ParticipantOrder
  <1>1. EventsInv => ParticipantOrder
    BY DEF EventsInv
  <1> QED BY <1>1, EventsHold, PTL

--------------------------------------------------------------------------------

(* A call is in the history only once it has settled, and an await's       *)
(* future holds the failure that comes first in it.                        *)
SettledInv ==
  /\ \A i \in 1 .. Len(settled) : call[settled[i]] \in {"returned", "failed"}
  /\ \A s \in Stages : failure[s] # NoCall =>
       \E i \in 1 .. Len(settled) :
         /\ settled[i] = failure[s]
         /\ \A j \in 1 .. i - 1 : settled[j][1] = s => call[settled[j]] # "failed"

(* What the exception of a run that raised says.                           *)
ErrorInv ==
  /\ error.kind # "none" => pc = "raised"
  /\ error.kind = "provider" =>
       \E s \in Stages : failure[s] # NoCall /\ error.call = failure[s]
  /\ error.kind = "validation" =>
       /\ error.call \in CallIds
       /\ AllReturned(error.call[1]) /\ ~ reply[error.call].valid
       /\ \A c \in CallsOf(error.call[1]) : Completions(c) # {} <=> c[2] < error.call[2]

LEMMA SettledStep ==
  ASSUME ControlInv, SettledInv, [Next]_vars
  PROVE  SettledInv'
  <1>0. TypeOK /\ FailureInv
    BY DEF ControlInv
  <1>1. ASSUME NEW c \in CallIds, Settle(c)
        PROVE  SettledInv'
    <2> DEFINE n == Len(settled)
    <2>1. /\ n \in Nat /\ settled \in Seq(CallIds) /\ settled' = Append(settled, c)
          /\ call[c] = "inflight" /\ call'[c] \in {"returned", "failed"}
      BY <1>0, <1>1 DEF TypeOK, Settle, CallReturns, CallFails
    <2>2. Len(settled') = n + 1 /\ settled'[n + 1] = c /\ \A i \in 1 .. n : settled'[i] = settled[i]
      BY <2>1, AppendProperties
    <2>3. \A d \in CallIds : d # c => call'[d] = call[d]
      BY <1>0, <1>1 DEF TypeOK, Settle, CallReturns, CallFails
    <2>4. \A i \in 1 .. n : settled[i] \in CallIds /\ settled[i] # c
                            /\ call[settled[i]] \in {"returned", "failed"}
      BY <2>1 DEF SettledInv
    <2>5. \A i \in 1 .. n : call'[settled[i]] = call[settled[i]]
      BY <2>3, <2>4
    <2>6. ASSUME NEW s \in Stages, failure'[s] # NoCall
          PROVE  \E i \in 1 .. n + 1 :
                   /\ settled'[i] = failure'[s]
                   /\ \A j \in 1 .. i - 1 : settled'[j][1] = s => call'[settled'[j]] # "failed"
      <3>1. CASE failure[s] # NoCall
        <4>1. failure'[s] = failure[s]
          BY <3>1, <1>0, <1>1 DEF TypeOK, Settle, CallReturns, CallFails
        <4>2. PICK i \in 1 .. n :
                /\ settled[i] = failure[s]
                /\ \A j \in 1 .. i - 1 : settled[j][1] = s => call[settled[j]] # "failed"
          BY <3>1 DEF SettledInv
        <4>3. \A j \in 1 .. i - 1 : j \in 1 .. n
          BY <2>1
        <4> QED BY <4>1, <4>2, <4>3, <2>1, <2>2, <2>5, SMTT(20)
      <3>2. CASE failure[s] = NoCall
        <4>1. failure'[s] = c /\ c[1] = s
          BY <3>2, <2>6, <1>0, <1>1 DEF TypeOK, Settle, CallReturns, CallFails
        <4>2. \A d \in CallsOf(s) : call[d] # "failed"
          BY <3>2, <1>0 DEF FailureInv
        <4>3. \A j \in 1 .. n : settled[j][1] = s => settled[j] \in CallsOf(s)
          BY <2>4, CallParts
        <4>4. \A j \in 1 .. n : settled'[j][1] = s => call'[settled'[j]] # "failed"
          BY <4>2, <4>3, <2>2, <2>5
        <4> QED BY <4>1, <4>4, <2>1, <2>2
      <3> QED BY <3>1, <3>2
    <2>7. \A i \in 1 .. n + 1 : call'[settled'[i]] \in {"returned", "failed"}
      BY <2>1, <2>2, <2>4, <2>5
    <2> QED BY <2>2, <2>6, <2>7 DEF SettledInv
  <1>2. CASE /\ settled' = settled /\ failure' = failure
             /\ \A c \in CallIds : call[c] \in {"returned", "failed"} => call'[c] = call[c]
    <2>1. \A i \in 1 .. Len(settled) : settled[i] \in CallIds
      BY <1>0 DEF TypeOK
    <2>2. \A i \in 1 .. Len(settled) : call'[settled[i]] = call[settled[i]]
      BY <2>1, <1>2 DEF SettledInv
    <2>3. \A i \in 1 .. Len(settled) : \A j \in 1 .. i - 1 : j \in 1 .. Len(settled)
      OBVIOUS
    <2> QED BY <1>2, <2>2, <2>3 DEF SettledInv
  <1>3. ASSUME NEW s \in Stages, Await(s), \A c \in CallIds : c[1] = s => call[c] = "idle"
        PROVE  SettledInv'
    BY <1>2, <1>3 DEF Await, Issued
  <1>4. CASE BeginRun
    BY <1>3, <1>4 DEF BeginRun, ControlInv, FrontierInv, Stages
  <1>5. ASSUME NEW s \in Stages, NEW t \in Stages, StageNumber[t] = StageNumber[s] + 1,
               pc = s, Await(t)
        PROVE  SettledInv'
    <2>1. \A c \in CallIds : c[1] = t => call[c] = "idle"
      BY <1>5, StageNumbers DEF ControlInv, FrontierInv, Frontier
    <2> QED BY <1>3, <1>5, <2>1
  <1>6. CASE FrameTask \/ CollectContributions \/ OpenReviews \/ OpenGate
    BY <1>5, <1>6 DEF FrameTask, CollectContributions, OpenReviews, OpenGate, Accept, Stages,
       StageNumber
  <1>7. CASE FinishUngated \/ FinishGated
    BY <1>2, <1>7 DEF FinishUngated, FinishGated, Deliver
  <1>8. ASSUME NEW s \in Stages, RaiseProviderError(s) \/ RaiseInvalidReply(s) \/ Cancel(s)
        PROVE  SettledInv'
    BY <1>0, <1>2, <1>8 DEF RaiseProviderError, RaiseInvalidReply, Cancel, Raise, TypeOK
  <1>9. CASE UNCHANGED vars
    BY <1>2, <1>9 DEF vars
  <1> QED BY <1>1, <1>4, <1>6, <1>7, <1>8, <1>9 DEF Next, Resume, Rest

LEMMA ErrorStep ==
  ASSUME ControlInv, EventsInv, ErrorInv, [Next]_vars
  PROVE  ErrorInv'
  <1>0. TypeOK /\ FailureInv
    BY DEF ControlInv
  <1>1. CASE error' = error /\ error.kind = "none"
    BY <1>1 DEF ErrorInv
  <1>2. CASE /\ error' = error /\ pc' = pc /\ log' = log
             /\ \A s \in Stages : failure[s] # NoCall => failure'[s] = failure[s]
             /\ \A c \in CallIds : call[c] = "returned" =>
                                     call'[c] = "returned" /\ reply'[c] = reply[c]
    <2>1. \A c : Completions(c)' = Completions(c)
      BY <1>2 DEF Completions
    <2>2. \A c \in CallIds : /\ c[1] \in Stages /\ CallsOf(c[1]) \subseteq CallIds
                             /\ c \in CallsOf(c[1])
      BY CallParts, CallersAreCalls
    <2> QED BY <1>2, <2>1, <2>2 DEF ErrorInv, AllReturned
  <1>3. CASE pc # "raised" /\ error' = error
    BY <1>1, <1>3 DEF ErrorInv
  <1>4. ASSUME NEW s \in Stages, RaiseProviderError(s)
        PROVE  ErrorInv'
    BY <1>4 DEF RaiseProviderError, Raise, ErrorInv
  <1>5. ASSUME NEW s \in Stages, Cancel(s)
        PROVE  ErrorInv'
    BY <1>5 DEF Cancel, Raise, ErrorInv
  <1>6. ASSUME NEW s \in Stages, RaiseInvalidReply(s)
        PROVE  ErrorInv'
    <2>1. /\ error'.kind = "validation" /\ error'.call \in CallsOf(s)
          /\ ~ reply[error'.call].valid
          /\ \A c \in CallsOf(s) : Completions(c)' # {} <=> c[2] < error'.call[2]
      BY <1>6, InvalidEvents
    <2>2. /\ AllReturned(s) /\ call' = call /\ reply' = reply /\ pc' = "raised"
      BY <1>6 DEF RaiseInvalidReply, Raise
    <2>3. error'.call \in CallIds /\ error'.call[1] = s
      BY <2>1, CallersAreCalls DEF CallsOf
    <2>4. AllReturned(s)'
      BY <2>2 DEF AllReturned
    <2> QED BY <2>1, <2>2, <2>3, <2>4 DEF ErrorInv
  <1>7. ASSUME NEW c \in CallIds, Settle(c)
        PROVE  ErrorInv'
    <2>1. /\ error' = error /\ pc' = pc /\ log' = log
          /\ \A s \in Stages : failure[s] # NoCall => failure'[s] = failure[s]
          /\ \A d \in CallIds : call[d] = "returned" =>
                                  call'[d] = "returned" /\ reply'[d] = reply[d]
      BY <1>0, <1>7 DEF TypeOK, Settle, CallReturns, CallFails
    <2> QED BY <1>2, <2>1
  <1>8. CASE BeginRun \/ FrameTask \/ CollectContributions \/ OpenReviews \/ OpenGate
    BY <1>3, <1>8 DEF BeginRun, FrameTask, CollectContributions, OpenReviews, OpenGate, Accept,
       Await
  <1>9. CASE FinishUngated \/ FinishGated
    BY <1>3, <1>9 DEF FinishUngated, FinishGated, Accept, Deliver
  <1>10. CASE UNCHANGED vars
    BY <1>2, <1>10 DEF vars
  <1> QED BY <1>4, <1>5, <1>6, <1>7, <1>8, <1>9, <1>10 DEF Next, Resume, Rest

LEMMA ErrorsHold == Spec => [](SettledInv /\ ErrorInv)
  <1>1. Init => SettledInv /\ ErrorInv
    <2> SUFFICES ASSUME Init PROVE SettledInv /\ ErrorInv
      OBVIOUS
    <2>1. /\ settled = <<>> /\ \A s \in Stages : failure[s] = NoCall
          /\ error.kind = "none"
      BY DEF Init, NoError
    <2> QED BY <2>1 DEF SettledInv, ErrorInv
  <1>2. ControlInv /\ EventsInv /\ SettledInv /\ ErrorInv /\ [Next]_vars
          => SettledInv' /\ ErrorInv'
    BY SettledStep, ErrorStep
  <1> QED BY <1>1, <1>2, ControlInvHolds, EventsHold, PTL DEF Spec

(* The exception a run's caller sees is the earliest provider error of its *)
(* stage, or the first invalid reply in participant order, with only the   *)
(* replies before it published.                                            *)
THEOREM SurfacedErrorHolds == Spec => []SurfacedError
  <1>1. ControlInv /\ SettledInv /\ ErrorInv => SurfacedError
    <2> SUFFICES ASSUME ControlInv, SettledInv, ErrorInv PROVE SurfacedError
      OBVIOUS
    <2>1. ASSUME error.kind = "provider"
          PROVE  \E i \in 1 .. Len(settled) :
                   /\ settled[i] = error.call /\ call[error.call] = "failed"
                   /\ \A j \in 1 .. i - 1 :
                        settled[j][1] = error.call[1] => call[settled[j]] # "failed"
      <3>1. PICK s \in Stages : failure[s] # NoCall /\ error.call = failure[s]
        BY <2>1 DEF ErrorInv
      <3>2. error.call \in CallsOf(s) /\ call[error.call] = "failed"
        BY <3>1 DEF ControlInv, FailureInv
      <3>3. error.call[1] = s
        BY <3>2 DEF CallsOf
      <3> QED BY <3>1, <3>2, <3>3 DEF SettledInv
    <2> QED BY <2>1 DEF SurfacedError, ErrorInv
  <1> QED BY <1>1, ControlInvHolds, ErrorsHold, PTL

--------------------------------------------------------------------------------

(* Where the coroutine gets to: a stage none of whose calls has been made, *)
(* or its end.                                                             *)
LEMMA ResumeShape ==
  ASSUME ControlInv, Resume
  PROVE  /\ \/ /\ pc' \in Stages /\ call' = Issued(pc')
               /\ \A c \in CallIds : c[1] = pc' => call[c] = "idle"
               /\ pc = "new" \/ (pc \in Stages /\ StageNumber[pc'] > StageNumber[pc])
            \/ /\ pc \in Stages /\ pc' \in Ended /\ call' = call
               /\ AllReturned(pc) \/ failure[pc] # NoCall
         /\ reply' = reply /\ failure' = failure /\ settled' = settled
         /\ \/ error' = error
            \/ error'.kind = "validation"
            \/ pc \in Stages /\ error'.call = failure[pc] /\ failure[pc] # NoCall
  <1>1. CASE BeginRun
    BY <1>1 DEF BeginRun, Await, Stages, ControlInv, FrontierInv
  <1>2. CASE FrameTask \/ CollectContributions \/ OpenReviews \/ OpenGate
    <2>1. /\ pc \in Stages /\ pc' \in Stages /\ StageNumber[pc'] > StageNumber[pc]
          /\ call' = Issued(pc')
          /\ UNCHANGED <<reply, failure, settled, error>>
      BY <1>2 DEF FrameTask, CollectContributions, OpenReviews, OpenGate, Accept, Await,
                  Stages, StageNumber
    <2> QED BY <2>1 DEF ControlInv, FrontierInv, Frontier
  <1>3. CASE FinishUngated \/ FinishGated
    BY <1>3 DEF FinishUngated, FinishGated, Accept, Deliver, Stages, Ended
  <1>4. ASSUME NEW s \in Stages, RaiseProviderError(s) \/ RaiseInvalidReply(s)
        PROVE  /\ pc \in Stages /\ pc' \in Ended /\ call' = call
               /\ AllReturned(pc) \/ failure[pc] # NoCall
               /\ reply' = reply /\ failure' = failure /\ settled' = settled
               /\ \/ error'.kind = "validation"
                  \/ pc \in Stages /\ error'.call = failure[pc] /\ failure[pc] # NoCall
    BY <1>4 DEF RaiseProviderError, RaiseInvalidReply, Raise, Ended
  <1> QED BY <1>1, <1>2, <1>3, <1>4 DEF Resume

LEMMA ResumeAdvances ==
  ASSUME ControlInv, Resume
  PROVE  StagesPast < StagesPast'
  <1>1. pc = "new" => StagesPast = 0
    BY DEF StagesPast, Stages, Ended
  <1>2. pc \in Stages => StagesPast = StageNumber[pc] /\ StagesPast \in 1 .. 5
    BY StageNumbers, StagesAreNotEnds DEF StagesPast, Ended
  <1>3. pc' \in Stages => StagesPast' = StageNumber[pc'] /\ StagesPast' \in 1 .. 5
    BY StageNumbers, StagesAreNotEnds DEF StagesPast, Ended
  <1>4. pc' \in Ended => StagesPast' = 6
    BY StagesAreNotEnds DEF StagesPast, Ended
  <1>5. \/ pc' \in Stages /\ (pc = "new" \/ (pc \in Stages /\ StageNumber[pc'] > StageNumber[pc]))
        \/ pc' \in Ended /\ pc \in Stages
    BY ResumeShape
  <1> QED BY <1>1, <1>2, <1>3, <1>4, <1>5

LEMMA StepAdvances ==
  ASSUME ControlInv, [Next]_vars
  PROVE  [StepsTaken < StepsTaken']_vars
  <1>1. StagesPast \in 0 .. 6 /\ Len(settled) \in Nat /\ settled \in Seq(CallIds)
    BY StageNumbers, LenProperties DEF StagesPast, ControlInv, TypeOK
  <1>2. CASE Resume
    <2>1. settled' = settled
      BY <1>2, ResumeShape
    <2>2. StagesPast < StagesPast' /\ StagesPast' \in Int
      BY <1>2, ResumeAdvances, StageNumbers DEF StagesPast
    <2> QED BY <1>1, <2>1, <2>2 DEF StepsTaken
  <1>3. ASSUME NEW s \in Stages, Cancel(s)
        PROVE  StepsTaken < StepsTaken'
    <2>1. settled' = settled /\ pc = s /\ pc' \in Ended
      BY <1>3 DEF Cancel, Raise, Ended
    <2>2. StagesPast \in 1 .. 5 /\ StagesPast' = 6
      BY <2>1, StageNumbers, StagesAreNotEnds DEF StagesPast, Ended
    <2> QED BY <1>1, <2>1, <2>2 DEF StepsTaken
  <1>4. ASSUME NEW c \in CallIds, Settle(c)
        PROVE  StepsTaken < StepsTaken'
    <2>1. settled' = Append(settled, c) /\ pc' = pc
      BY <1>4 DEF Settle, CallReturns, CallFails
    <2>2. Len(settled') = Len(settled) + 1
      BY <1>1, <2>1, AppendProperties
    <2>3. StagesPast' = StagesPast
      BY <2>1 DEF StagesPast
    <2> QED BY <1>1, <2>2, <2>3 DEF StepsTaken
  <1> QED BY <1>2, <1>3, <1>4 DEF Next, Rest

(* No call settles twice.                                                  *)
SettledOnce ==
  \A i, j \in 1 .. Len(settled) : settled[i] = settled[j] => i = j

LEMMA SettledOnceStep ==
  ASSUME ControlInv, SettledInv, SettledOnce, [Next]_vars
  PROVE  SettledOnce'
  <1>1. ASSUME NEW c \in CallIds, Settle(c)
        PROVE  SettledOnce'
    <2> DEFINE n == Len(settled)
    <2>1. /\ n \in Nat /\ settled \in Seq(CallIds) /\ settled' = Append(settled, c)
          /\ call[c] = "inflight"
      BY <1>1, LenProperties DEF ControlInv, TypeOK, Settle, CallReturns, CallFails
    <2>2. Len(settled') = n + 1 /\ settled'[n + 1] = c /\ \A i \in 1 .. n : settled'[i] = settled[i]
      BY <2>1, AppendProperties
    <2>3. \A i \in 1 .. n : settled[i] # c
      BY <2>1 DEF SettledInv
    <2> HIDE DEF n
    <2>4. \A i \in 1 .. n + 1 : i \in 1 .. n \/ i = n + 1
      BY <2>1
    <2>5. \A i, j \in 1 .. n : settled[i] = settled[j] => i = j
      BY DEF SettledOnce, n
    <2> QED BY <2>2, <2>3, <2>4, <2>5 DEF SettledOnce
  <1>2. CASE settled' = settled
    BY <1>2 DEF SettledOnce
  <1>3. Resume => settled' = settled
    BY ResumeShape
  <1> QED BY <1>1, <1>2, <1>3 DEF Next, Cancel, Raise, Rest, vars

LEMMA CallsAreFinite == IsFiniteSet(CallIds)
  <1>1. IsFiniteSet(Stages)
    <2>1. IsFiniteSet({}) /\ Stages = (((({} \cup {"task_framing"}) \cup {"initial_contribution"})
             \cup {"candidate_synthesis"}) \cup {"candidate_review"}) \cup {"release_gate"}
      BY FS_EmptySet DEF Stages
    <2> QED BY <2>1, FS_AddElement
  <1>2. IsFiniteSet(Participants)
    BY FS_Interval DEF Participants
  <1>3. IsFiniteSet(Stages \X Participants)
    BY <1>1, <1>2, FS_Product
  <1>4. CallIds \subseteq Stages \X Participants
    BY DEF CallIds
  <1> QED BY <1>3, <1>4, FS_Subset

LEMMA SettledIsBounded ==
  ASSUME TypeOK, SettledOnce
  PROVE  /\ Len(settled) \in 0 .. Cardinality(CallIds)
         /\ Cardinality(CallIds) \in Nat
  <1> DEFINE n == Len(settled)
             picks == [i \in 1 .. n |-> settled[i]]
  <1>1. n \in Nat /\ \A i \in 1 .. n : settled[i] \in CallIds
    BY LenProperties DEF TypeOK
  <1>2. Cardinality(CallIds) \in Nat
    BY CallsAreFinite, FS_CardinalityType
  <1>3. picks \in [1 .. n -> CallIds]
    BY <1>1
  <1>4. IsFiniteSet(1 .. n) /\ Cardinality(1 .. n) = n
    <2>1. 1 \in Int /\ n \in Int /\ (1 > n => n = 0) /\ n - 1 + 1 = n
      BY <1>1
    <2> HIDE DEF n
    <2> QED BY <2>1, FS_Interval
  <1>5. \A i, j \in 1 .. n : picks[i] = picks[j] => i = j
    BY DEF SettledOnce
  <1> HIDE DEF n, picks
  <1>6. ~ (Cardinality(CallIds) < n)
    <2> SUFFICES ASSUME Cardinality(CallIds) < Cardinality(1 .. n) PROVE FALSE
      BY <1>4
    <2> DEFINE places == 1 .. n
    <2>1. IsFiniteSet(places) /\ Cardinality(CallIds) < Cardinality(places)
          /\ picks \in [places -> CallIds]
      BY <1>3, <1>4
    <2> HIDE DEF places
    <2>2. \E i, j \in places : i # j /\ picks[i] = picks[j]
      BY <2>1, CallsAreFinite, FS_PigeonHole
    <2> QED BY <1>5, <2>2 DEF places
  <1>7. n \in 0 .. Cardinality(CallIds)
    BY <1>1, <1>2, <1>6
  <1> QED BY <1>2, <1>7 DEF n

(* What an awaiting coroutine waits for: a call still in flight, or nothing*)
(* but its turn.                                                           *)
NeverStuck ==
  pc \in Stages => \/ \E c \in CallsOf(pc) : call[c] = "inflight"
                   \/ failure[pc] # NoCall
                   \/ AllReturned(pc)

(* The calls of the awaited stage have been made, and none is cancelled.   *)
AwaitedInv ==
  pc \in Stages => \A c \in CallsOf(pc) : call[c] \in {"inflight", "returned", "failed"}

LEMMA AwaitedStep ==
  ASSUME ControlInv, AwaitedInv, [Next]_vars
  PROVE  AwaitedInv'
  <1>1. CASE Resume
    <2>1. pc' \in Stages => call' = Issued(pc')
      BY <1>1, ResumeShape, StagesAreNotEnds DEF Ended
    <2>2. \A s \in Stages : \A c \in CallsOf(s) : c \in CallIds /\ c[1] = s
      BY CallersAreCalls DEF CallsOf
    <2> QED BY <2>1, <2>2 DEF AwaitedInv, Issued
  <1>2. ASSUME NEW s \in Stages, Cancel(s)
        PROVE  AwaitedInv'
    <2>1. pc' \notin Stages
      BY <1>2, StagesAreNotEnds DEF Cancel, Raise, Ended
    <2> QED BY <2>1 DEF AwaitedInv
  <1>3. ASSUME NEW c \in CallIds, Settle(c)
        PROVE  AwaitedInv'
    <2>1. /\ pc' = pc /\ call'[c] \in {"returned", "failed"}
          /\ \A d \in CallIds : d # c => call'[d] = call[d]
      BY <1>3 DEF Settle, CallReturns, CallFails, ControlInv, TypeOK
    <2>2. pc \in Stages => CallsOf(pc) \subseteq CallIds
      BY CallersAreCalls
    <2> QED BY <2>1, <2>2 DEF AwaitedInv
  <1>4. CASE UNCHANGED vars
    BY <1>4 DEF AwaitedInv, vars
  <1> QED BY <1>1, <1>2, <1>3, <1>4 DEF Next, Rest

(* The part of RunEnds that needs no fairness: a run has a bounded number  *)
(* of steps to take, none of which it takes twice, and until it has ended  *)
(* its await is over or waits for a call that is in flight.  What is left  *)
(* is that the provider ends the call and the loop resumes the coroutine.  *)
THEOREM StepsAdvanceHolds ==
  Spec => /\ StepsAdvance
          /\ [](StepsTaken \in 0 .. Cardinality(CallIds) + 6)
          /\ []NeverStuck
  <1>1. Init => SettledOnce
    BY DEF Init, SettledOnce
  <1>2. ControlInv /\ SettledInv /\ SettledOnce /\ [Next]_vars => SettledOnce'
    BY SettledOnceStep
  <1>3. ControlInv /\ [Next]_vars => [StepsTaken < StepsTaken']_vars
    BY StepAdvances
  <1>4. ControlInv /\ SettledOnce => StepsTaken \in 0 .. Cardinality(CallIds) + 6
    <2> SUFFICES ASSUME ControlInv, SettledOnce
                 PROVE  StepsTaken \in 0 .. Cardinality(CallIds) + 6
      OBVIOUS
    <2>1. StagesPast \in 0 .. 6
      BY StageNumbers DEF StagesPast
    <2>2. Len(settled) \in 0 .. Cardinality(CallIds) /\ Cardinality(CallIds) \in Nat
      BY SettledIsBounded DEF ControlInv
    <2> QED BY <2>1, <2>2 DEF StepsTaken
  <1>5. Init => AwaitedInv
    BY DEF Init, AwaitedInv, Stages
  <1>6. ControlInv /\ AwaitedInv /\ [Next]_vars => AwaitedInv'
    BY AwaitedStep
  <1>7. ControlInv /\ AwaitedInv => NeverStuck
    BY DEF ControlInv, FailureInv, AwaitedInv, NeverStuck, AllReturned
  <1> QED BY <1>1, <1>2, <1>3, <1>4, <1>5, <1>6, <1>7, ControlInvHolds, ErrorsHold, PTL
             DEF Spec, StepsAdvance
--------------------------------------------------------------------------------

(* A run that has begun has published something.                           *)
HasSpoken == pc # "new" => log # <<>>

LEMMA StreamGrows ==
  ASSUME TypeOK, NEW s \in Stages, NEW k \in 0 .. Width(s), NEW batch \in Seq(Events),
         Extends(s, k, batch), NEW keep \in 0 .. Len(batch),
         \A j \in 1 .. keep : Kind(batch[j]) = "domain"
  PROVE  /\ Len(log) <= Len(log) + k + keep /\ Len(log) + k + keep <= Len(log')
         /\ \A j \in 1 .. Len(log) : Kind(log'[j]) = Kind(log[j])
         /\ \A j \in Len(log) + 1 .. Len(log) + k + keep : Kind(log'[j]) = "domain"
  <1> DEFINE n == Len(log)
  <1>1. /\ n \in Nat /\ k \in Nat /\ Len(batch) \in Nat /\ keep \in Nat /\ keep <= Len(batch)
        /\ Len(log') = n + k + Len(batch)
        /\ \A j \in 1 .. n : log'[j] = log[j]
        /\ \A i \in 1 .. k : log'[n + i] = Event(CompletedType(s), <<s, i>>, NoVotes)
        /\ \A j \in 1 .. Len(batch) : log'[n + k + j] = batch[j]
    BY ExtendedLog
  <1>2. \A i \in 1 .. k : Kind(log'[n + i]) = "domain"
    <2> SUFFICES ASSUME NEW i \in 1 .. k PROVE Kind(log'[n + i]) = "domain"
      OBVIOUS
    <2>1. log'[n + i] = Event(CompletedType(s), <<s, i>>, NoVotes)
      BY <1>1
    <2> QED BY <2>1 DEF Event, Kind, CompletedType
  <1>3. \A i \in 1 .. keep : Kind(log'[n + k + i]) = "domain"
    BY <1>1
  <1>4. \A j \in 1 .. n : Kind(log'[j]) = Kind(log[j])
    BY <1>1
  <1> HIDE DEF n
  <1>5. ASSUME NEW j \in n + 1 .. n + k + keep
        PROVE  Kind(log'[j]) = "domain"
    <2>1. CASE j <= n + k
      <3>1. j - n \in 1 .. k /\ j = n + (j - n)
        BY <2>1, <1>1
      <3> QED BY <3>1, <1>2
    <2>2. CASE j > n + k
      <3>1. j - (n + k) \in 1 .. keep /\ j = n + k + (j - (n + k))
        BY <2>2, <1>1
      <3> QED BY <3>1, <1>3
    <2> QED BY <2>1, <2>2, <1>1
  <1> QED BY <1>1, <1>4, <1>5 DEF n

Kinds(events) == [i \in 1 .. Len(events) |-> Kind(events[i])]

LEMMA KindsOf ==
  ASSUME NEW events \in Seq(Events)
  PROVE  /\ Len(Kinds(events)) = Len(events) /\ Len(events) \in Nat
         /\ \A i \in 1 .. Len(events) : Kinds(events)[i] = Kind(events[i])
         /\ events # <<>> => Kinds(events) # <<>>
  <1>1. Len(events) \in Nat /\ (events # <<>> => Len(events) # 0)
    BY EmptySeq, LenProperties
  <1>2. Len(Kinds(events)) = Len(events)
    BY <1>1 DEF Kinds
  <1>3. Len(<<>>) = 0
    OBVIOUS
  <1> HIDE DEF Kinds
  <1>4. events # <<>> => Kinds(events) # <<>>
    BY <1>1, <1>2, <1>3
  <1> QED BY <1>1, <1>2, <1>4 DEF Kinds

(* A run that goes on, or raises, after a batch of domain events.          *)
LEMMA DomainStep ==
  ASSUME TypeOK, TypeOK', NEW s \in Stages, NEW k \in 0 .. Width(s),
         NEW batch \in Seq(Events), Extends(s, k, batch),
         \A j \in 1 .. Len(batch) : Kind(batch[j]) = "domain",
         log # <<>>, pc \notin Ended, pc' # "returned"
  PROVE  Stream!StreamNext /\ log' # <<>>
  <1> DEFINE old == Kinds(log)
             new == Kinds(log')
  <1>1. /\ Len(log) <= Len(log')
        /\ \A j \in 1 .. Len(log) : Kind(log'[j]) = Kind(log[j])
        /\ \A j \in Len(log) + 1 .. Len(log') : Kind(log'[j]) = "domain"
    <2>1. Len(batch) \in 0 .. Len(batch)
      BY LenProperties
    <2>2. Len(log') = Len(log) + k + Len(batch)
      BY ExtendedLog
    <2> QED BY <2>1, <2>2, StreamGrows, SMTT(20)
  <1>2. /\ Len(old) = Len(log) /\ Len(new) = Len(log') /\ Len(log) \in Nat /\ Len(log') \in Nat
        /\ \A i \in 1 .. Len(log) : old[i] = Kind(log[i])
        /\ \A i \in 1 .. Len(log') : new[i] = Kind(log'[i])
        /\ old # <<>>
    BY KindsOf DEF TypeOK
  <1> HIDE DEF old, new
  <1>3. Stream!GrewBy(old, new, {"domain"})
    <2>1. /\ \A i \in 1 .. Len(log) : i \in 1 .. Len(log')
          /\ \A i \in Len(log) + 1 .. Len(log') : i \in 1 .. Len(log')
      BY <1>1, <1>2
    <2>2. \A i \in 1 .. Len(old) : new[i] = old[i]
      BY <1>1, <1>2, <2>1, Zenon
    <2>3. \A i \in Len(old) + 1 .. Len(new) : new[i] \in {"domain"}
      BY <1>1, <1>2, <2>1, Zenon
    <2>4. Len(old) <= Len(new)
      BY <1>1, <1>2, Zenon
    <2> QED BY <2>2, <2>3, <2>4, Zenon DEF Stream!GrewBy
  <1>4. log' # <<>>
    <2>1. Len(log) # 0
      BY EmptySeq, LenProperties DEF TypeOK
    <2>2. Len(log') # 0
      BY <1>1, <1>2, <2>1
    <2> QED BY <2>2
  <1> QED BY <1>2, <1>3, <1>4
          DEF Stream!StreamNext, Stream!Progress, Stream!Abandon, Ended, old, new, Kinds

(* A run that returns: the terminal event is the last of the batch.        *)
LEMMA ReturnStep ==
  ASSUME TypeOK, TypeOK', NEW s \in Stages, NEW k \in 0 .. Width(s),
         NEW batch \in Seq(Events), Extends(s, k, batch), Len(batch) # 0,
         \A j \in 1 .. Len(batch) - 1 : Kind(batch[j]) = "domain",
         Kind(batch[Len(batch)]) = "completed",
         log # <<>>, pc \notin Ended, pc' = "returned"
  PROVE  Stream!StreamNext /\ log' # <<>>
  <1> DEFINE old == Kinds(log)
             new == Kinds(log')
             m == Len(log')
  <1>1. Len(batch) \in Nat \ {0} /\ Len(batch) - 1 \in 0 .. Len(batch)
    BY LenProperties
  <1>2. m = Len(log) + k + Len(batch) /\ k \in Nat /\ Len(log) \in Nat
        /\ \A j \in 1 .. Len(batch) : log'[Len(log) + k + j] = batch[j]
    BY ExtendedLog
  <1>3. /\ Len(log) <= Len(log) + k + (Len(batch) - 1)
        /\ \A j \in 1 .. Len(log) : Kind(log'[j]) = Kind(log[j])
        /\ \A j \in Len(log) + 1 .. Len(log) + k + (Len(batch) - 1) : Kind(log'[j]) = "domain"
    BY <1>1, StreamGrows
  <1>4. m - 1 = Len(log) + k + (Len(batch) - 1) /\ m \in Nat \ {0} /\ Len(log) <= m - 1
    BY <1>1, <1>2
  <1>5. /\ Len(old) = Len(log) /\ Len(new) = m
        /\ \A i \in 1 .. Len(log) : old[i] = Kind(log[i])
        /\ \A i \in 1 .. m : new[i] = Kind(log'[i])
        /\ old # <<>>
    BY KindsOf DEF TypeOK
  <1>6. Kind(log'[m]) = "completed"
    BY <1>1, <1>2, SMTT(20)
  <1>7. /\ \A j \in 1 .. Len(log) : Kind(log'[j]) = Kind(log[j])
        /\ \A j \in Len(log) + 1 .. m - 1 : Kind(log'[j]) = "domain"
    BY <1>3, <1>4
  <1> DEFINE before == SubSeq(new, 1, m - 1)
  <1>8. Len(before) = m - 1 /\ \A i \in 1 .. m - 1 : before[i] = new[i]
    BY <1>4
  <1> HIDE DEF old, new, m, before
  <1>9. Stream!GrewBy(old, before, {"domain"})
    <2>1. Len(old) <= Len(before)
      BY <1>4, <1>5, <1>8
    <2>2. ASSUME NEW i \in 1 .. Len(old)
          PROVE  before[i] = old[i]
      <3>1. i \in 1 .. Len(log) /\ i \in 1 .. m - 1 /\ i \in 1 .. m
        BY <1>2, <1>4, <1>5
      <3> QED BY <3>1, <1>5, <1>7, <1>8
    <2>3. ASSUME NEW i \in Len(old) + 1 .. Len(before)
          PROVE  before[i] = "domain"
      <3>1. i \in Len(log) + 1 .. m - 1 /\ i \in 1 .. m - 1 /\ i \in 1 .. m
        BY <1>2, <1>4, <1>5, <1>8
      <3> QED BY <3>1, <1>5, <1>7, <1>8
    <2> QED BY <2>1, <2>2, <2>3 DEF Stream!GrewBy
  <1>10. new[Len(new)] = "completed"
    BY <1>4, <1>5, <1>6
  <1>11. log' # <<>>
    BY <1>4 DEF m
  <1>12. before = SubSeq(new, 1, Len(new) - 1)
    BY <1>5 DEF before
  <1> QED BY <1>5, <1>9, <1>10, <1>11, <1>12
          DEF Stream!StreamNext, Stream!Close, Stream!Terminal, Ended, old, new, Kinds

(* A step that publishes nothing.                                          *)
LEMMA QuietStep ==
  ASSUME TypeOK, log' = log, log # <<>>, pc \notin Ended, pc' = "raised"
  PROVE  Stream!StreamNext
  <1> DEFINE old == Kinds(log)
  <1>1. old # <<>> /\ Len(old) \in Nat
    BY KindsOf DEF TypeOK
  <1> HIDE DEF old
  <1>2. Stream!GrewBy(old, old, {"domain"})
    BY <1>1 DEF Stream!GrewBy
  <1> QED BY <1>1, <1>2 DEF Stream!StreamNext, Stream!Abandon, Ended, old, Kinds

(* What each batch is made of.                                             *)
LEMMA OpeningKinds ==
  ASSUME NEW before \in Seq(Events), \A j \in 1 .. Len(before) : Kind(before[j]) = "domain",
         NEW t \in Stages
  PROVE  \A j \in 1 .. Len(before \o Opening(t)) : Kind((before \o Opening(t))[j]) = "domain"
  <1> DEFINE o == Len(before)
             w == Width(t)
             all == before \o Opening(t)
  <1>1. o \in Nat /\ w \in Nat /\ \A i : i \in Callers(t) <=> i \in 1 .. w
    BY CallersAreCalls, LenProperties DEF Callers
  <1>2. /\ Len(all) = o + w
        /\ \A i \in 1 .. o + w : all[i] = IF i <= o THEN before[i] ELSE Opening(t)[i - o]
    BY OpeningShape, ConcatProperties
  <1>3. \A i \in 1 .. w : Kind(Opening(t)[i]) = "domain"
    <2> SUFFICES ASSUME NEW i \in 1 .. w PROVE Kind(Opening(t)[i]) = "domain"
      OBVIOUS
    <2>1. Opening(t)[i] = Event(StartedType(t), <<t, i>>, NoVotes)
      BY <1>1, OpeningShape
    <2> QED BY <2>1 DEF Event, Kind, StartedType
  <1> HIDE DEF o, w, all
  <1>4. \A i \in 1 .. o + w : Kind(all[i]) = "domain"
    <2> SUFFICES ASSUME NEW i \in 1 .. o + w PROVE Kind(all[i]) = "domain"
      OBVIOUS
    <2>1. CASE i <= o
      BY <2>1, <1>1, <1>2 DEF o
    <2>2. CASE i > o
      <3>1. i - o \in 1 .. w
        BY <2>2, <1>1
      <3> QED BY <3>1, <2>2, <1>1, <1>2, <1>3
    <2> QED BY <2>1, <2>2, <1>1
  <1> QED BY <1>2, <1>4 DEF o, w, all

LEMMA BatchKinds ==
  /\ \A t \in Stages : \A j \in 1 .. Len(Opening(t)) : Kind(Opening(t)[j]) = "domain"
  /\ LET batch == <<Say("candidate_created"), Say("round_started"), Say("review_started")>>
                    \o Opening("candidate_review")
     IN \A j \in 1 .. Len(batch) : Kind(batch[j]) = "domain"
  /\ LET batch == Verdict \o Opening("release_gate")
     IN \A j \in 1 .. Len(batch) : Kind(batch[j]) = "domain"
  /\ Len(Closing) = 3 /\ Kind(Closing[3]) = "completed"
  /\ \A j \in 1 .. 2 : Kind(Closing[j]) = "domain"
  /\ LET batch == Verdict \o Closing
     IN /\ Len(batch) = 6 /\ Kind(batch[6]) = "completed"
        /\ \A j \in 1 .. 5 : Kind(batch[j]) = "domain"
  <1>1. \A t \in Stages : \A j \in 1 .. Len(Opening(t)) : Kind(Opening(t)[j]) = "domain"
    <2> SUFFICES ASSUME NEW t \in Stages, NEW j \in 1 .. Len(Opening(t))
                 PROVE  Kind(Opening(t)[j]) = "domain"
      OBVIOUS
    <2>1. Opening(t)[j] = Event(StartedType(t), <<t, j>>, NoVotes)
      BY OpeningShape DEF Callers
    <2> QED BY <2>1 DEF Event, Kind, StartedType
  <1> DEFINE asked == <<Say("candidate_created"), Say("round_started"), Say("review_started")>>
  <1>2. asked \in Seq(Events) /\ Verdict \in Seq(Events) /\ Closing \in Seq(Events)
    BY SayType, BatchTypes DEF EventTypes
  <1>3. "candidate_review" \in Stages /\ "release_gate" \in Stages
    BY DEF Stages
  <1>4. \A j \in 1 .. Len(asked) : Kind(asked[j]) = "domain"
    BY DEF Kind, Say, Event
  <1>5. Len(Verdict) = 3 /\ \A j \in 1 .. 3 : Kind(Verdict[j]) = "domain"
    BY DEF Verdict, Kind, Event
  <1>6. /\ Len(Closing) = 3 /\ Kind(Closing[3]) = "completed"
        /\ \A j \in 1 .. 2 : Kind(Closing[j]) = "domain"
    BY DEF Closing, Kind, Say, Event
  <1> HIDE DEF asked
  <1>7. \A j \in 1 .. Len(asked \o Opening("candidate_review")) :
          Kind((asked \o Opening("candidate_review"))[j]) = "domain"
    BY <1>2, <1>3, <1>4, OpeningKinds
  <1>8. \A j \in 1 .. Len(Verdict \o Opening("release_gate")) :
          Kind((Verdict \o Opening("release_gate"))[j]) = "domain"
    BY <1>2, <1>3, <1>5, OpeningKinds
  <1>9. /\ Len(Verdict \o Closing) = 6
        /\ \A j \in 1 .. 6 : (Verdict \o Closing)[j] = IF j <= 3 THEN Verdict[j] ELSE Closing[j - 3]
    <2>1. /\ Len(Verdict \o Closing) = Len(Verdict) + Len(Closing)
          /\ \A j \in 1 .. Len(Verdict) + Len(Closing) : (Verdict \o Closing)[j] =
               IF j <= Len(Verdict) THEN Verdict[j] ELSE Closing[j - Len(Verdict)]
      BY <1>2, ConcatProperties
    <2> QED BY <2>1, <1>5, <1>6
  <1>10. /\ Kind((Verdict \o Closing)[6]) = "completed"
         /\ \A j \in 1 .. 5 : Kind((Verdict \o Closing)[j]) = "domain"
    BY <1>5, <1>6, <1>9
  <1> QED BY <1>1, <1>6, <1>7, <1>8, <1>9, <1>10 DEF asked

LEMMA SameStream ==
  ASSUME log' = log, pc' = pc
  PROVE  UNCHANGED Stream!streamVars
  BY DEF Stream!streamVars

LEMMA AcceptedStep ==
  ASSUME TypeOK, TypeOK', HasSpoken, NEW s \in Stages, NEW batch \in Seq(Events),
         Accept(s, batch), pc' \notin Ended,
         \A j \in 1 .. Len(batch) : Kind(batch[j]) = "domain"
  PROVE  Stream!StreamNext /\ log' # <<>>
  <1>1. /\ Width(s) \in 0 .. Width(s) /\ Extends(s, Width(s), batch)
        /\ log # <<>> /\ pc \notin Ended /\ pc' # "returned"
    BY CallersAreCalls, StagesAreNotEnds DEF Accept, Extends, HasSpoken, Ended
  <1> QED BY <1>1, DomainStep

LEMMA DeliveredStep ==
  ASSUME TypeOK, TypeOK', HasSpoken, NEW s \in Stages, NEW batch \in Seq(Events),
         NEW m \in Nat \ {0}, Len(batch) = m,
         Accept(s, batch), pc' = "returned", Kind(batch[m]) = "completed",
         \A j \in 1 .. m - 1 : Kind(batch[j]) = "domain"
  PROVE  Stream!StreamNext /\ log' # <<>>
  <1>1. /\ Width(s) \in 0 .. Width(s) /\ Extends(s, Width(s), batch)
        /\ log # <<>> /\ pc \notin Ended
    BY CallersAreCalls, StagesAreNotEnds DEF Accept, Extends, HasSpoken, Ended
  <1> QED BY <1>1, ReturnStep

LEMMA StreamStep ==
  ASSUME ControlInv, ControlInv', EventsInv, HasSpoken, [Next]_vars
  PROVE  [Stream!StreamNext]_(Stream!streamVars) /\ HasSpoken'
  <1>0. TypeOK /\ TypeOK'
    BY DEF ControlInv
  <1>1. CASE BeginRun
    <2>1. /\ log = <<>> /\ pc = "new" /\ pc' = "task_framing"
          /\ log' = <<Say("command_received"), Say("run_started")>> \o Opening("task_framing")
      BY <1>1 DEF BeginRun, EventsInv, NotYetCompleted, Await
    <2> DEFINE said == <<Say("command_received"), Say("run_started")>>
               w == Width("task_framing")
               new == Kinds(log')
    <2>2. /\ said \in Seq(Events) /\ Len(said) = 2 /\ "task_framing" \in Stages
          /\ Kind(said[1]) = "received" /\ Kind(said[2]) = "domain"
      BY SayType DEF EventTypes, Stages, Say, Event, Kind
    <2>3. \A j \in 1 .. Len(Opening("task_framing")) :
            Kind(Opening("task_framing")[j]) = "domain"
      BY <2>2, BatchKinds
    <2>4. Opening("task_framing") \in Seq(Events) /\ Len(Opening("task_framing")) = w /\ w \in Nat
      BY <2>2, OpeningShape, CallersAreCalls
    <2> HIDE DEF said, w
    <2>5. /\ Len(log') = 2 + w
          /\ \A j \in 1 .. 2 + w :
               log'[j] = IF j <= 2 THEN said[j] ELSE Opening("task_framing")[j - 2]
      BY <2>1, <2>2, <2>4, ConcatProperties DEF said
    <2>6. Kind(log'[1]) = "received" /\ \A j \in 2 .. 2 + w : Kind(log'[j]) = "domain"
      <3>1. Kind(log'[1]) = "received" /\ Kind(log'[2]) = "domain"
        BY <2>2, <2>4, <2>5
      <3>2. ASSUME NEW j \in 3 .. 2 + w
            PROVE  Kind(log'[j]) = "domain"
        <4>1. j - 2 \in 1 .. w /\ ~ (j <= 2) /\ j \in 1 .. 2 + w
          BY <2>4
        <4> QED BY <4>1, <2>3, <2>4, <2>5
      <3> QED BY <3>1, <3>2, <2>4
    <2>7. Len(new) = 2 + w /\ \A j \in 1 .. 2 + w : new[j] = Kind(log'[j])
      BY <1>0, <2>5, KindsOf DEF TypeOK
    <2> HIDE DEF new
    <2>8. Stream!GrewBy(<<"received">>, new, {"domain"})
      BY <2>4, <2>6, <2>7 DEF Stream!GrewBy
    <2>9. log' # <<>>
      <3>1. Len(log') # 0
        BY <2>4, <2>5
      <3> QED BY <3>1
    <2>10. Kinds(log) = <<>>
      BY <2>1 DEF Kinds
    <2>11. Stream!Acknowledge
      BY <2>1, <2>8, <2>10 DEF Stream!Acknowledge, new, Kinds
    <2> QED BY <2>9, <2>11 DEF Stream!StreamNext, HasSpoken
  <1>2. CASE FrameTask
    <2>1. /\ Opening("initial_contribution") \in Seq(Events) /\ "task_framing" \in Stages
          /\ "initial_contribution" \in Stages /\ pc' = "initial_contribution"
      BY <1>2, OpeningShape DEF Stages, FrameTask, Await
    <2> QED BY <1>0, <1>2, <2>1, AcceptedStep, BatchKinds DEF FrameTask, HasSpoken, Ended
  <1>3. CASE CollectContributions
    <2>1. /\ Opening("candidate_synthesis") \in Seq(Events) /\ "initial_contribution" \in Stages
          /\ "candidate_synthesis" \in Stages /\ pc' = "candidate_synthesis"
      BY <1>3, OpeningShape DEF Stages, CollectContributions, Await
    <2> QED BY <1>0, <1>3, <2>1, AcceptedStep, BatchKinds DEF CollectContributions, HasSpoken, Ended
  <1>4. CASE OpenReviews
    <2> DEFINE batch == <<Say("candidate_created"), Say("round_started"),
                          Say("review_started")>> \o Opening("candidate_review")
    <2>1. /\ batch \in Seq(Events) /\ "candidate_synthesis" \in Stages
          /\ pc' = "candidate_review" /\ Accept("candidate_synthesis", batch)
          /\ \A j \in 1 .. Len(batch) : Kind(batch[j]) = "domain"
      BY <1>4, BatchTypes, BatchKinds DEF Stages, OpenReviews, Await
    <2> HIDE DEF batch
    <2> QED BY <1>0, <2>1, AcceptedStep DEF HasSpoken, Ended
  <1>5. CASE OpenGate
    <2> DEFINE batch == Verdict \o Opening("release_gate")
    <2>1. /\ batch \in Seq(Events) /\ "candidate_review" \in Stages
          /\ pc' = "release_gate" /\ Accept("candidate_review", batch)
          /\ \A j \in 1 .. Len(batch) : Kind(batch[j]) = "domain"
      BY <1>5, BatchTypes, BatchKinds DEF Stages, OpenGate, Await
    <2> HIDE DEF batch
    <2> QED BY <1>0, <2>1, AcceptedStep DEF HasSpoken, Ended
  <1>6. CASE FinishUngated
    <2> DEFINE batch == Verdict \o Closing
    <2>1. /\ pc' = "returned" /\ Accept("candidate_review", batch)
          /\ "candidate_review" \in Stages
      BY <1>6 DEF Stages, FinishUngated, Deliver
    <2>2. 6 - 1 = 5
      OBVIOUS
    <2>3. /\ batch \in Seq(Events) /\ Len(batch) = 6
          /\ Kind(batch[6]) = "completed" /\ \A j \in 1 .. 6 - 1 : Kind(batch[j]) = "domain"
      BY <2>2, BatchTypes, BatchKinds, Zenon
    <2> HIDE DEF batch
    <2>4. 6 \in Nat \ {0}
      OBVIOUS
    <2>5. Stream!StreamNext /\ log' # <<>>
      BY <1>0, <2>1, <2>3, <2>4, DeliveredStep
    <2> QED BY <2>5 DEF HasSpoken
  <1>7. CASE FinishGated
    <2>1. /\ Closing \in Seq(Events) /\ "release_gate" \in Stages /\ Len(Closing) = 3
          /\ pc' = "returned" /\ Accept("release_gate", Closing)
          /\ Kind(Closing[3]) = "completed" /\ \A j \in 1 .. 3 - 1 : Kind(Closing[j]) = "domain"
      BY <1>7, BatchTypes, BatchKinds DEF Stages, FinishGated, Deliver
    <2>2. 3 \in Nat \ {0}
      OBVIOUS
    <2>3. Stream!StreamNext /\ log' # <<>>
      BY <1>0, <2>1, <2>2, DeliveredStep
    <2> QED BY <2>3 DEF HasSpoken
  <1>8. ASSUME NEW s \in Stages, RaiseProviderError(s) \/ Cancel(s)
        PROVE  [Stream!StreamNext]_(Stream!streamVars) /\ HasSpoken'
    <2>1. log' = log /\ pc = s /\ pc' = "raised"
      BY <1>8 DEF RaiseProviderError, Cancel, Raise
    <2> QED BY <1>0, <2>1, QuietStep, StagesAreNotEnds DEF HasSpoken, Ended
  <1>9. ASSUME NEW s \in Stages, RaiseInvalidReply(s)
        PROVE  [Stream!StreamNext]_(Stream!streamVars) /\ HasSpoken'
    <2>1. PICK i \in Callers(s) : log' = log \o CompletedEvents(s, i - 1)
      BY <1>9 DEF RaiseInvalidReply
    <2>2. /\ Width(s) \in Nat /\ i - 1 \in 0 .. Width(s) /\ pc = s /\ pc' = "raised"
      BY <1>9, CallersAreCalls DEF Callers, RaiseInvalidReply, Raise
    <2>3. <<>> \in Seq(Events) /\ \A j \in 1 .. Len(<<>>) : Kind(<<>>[j]) = "domain"
      BY EmptySeq
    <2>4. Extends(s, i - 1, <<>>)
      <3>1. log \in Seq(Events) /\ CompletedEvents(s, i - 1) \in Seq(Events)
        BY <1>0, <2>2, RecordedType DEF TypeOK
      <3>2. log \o CompletedEvents(s, i - 1) \in Seq(Events)
        BY <3>1, ConcatProperties
      <3> QED BY <2>1, <3>2, ConcatEmptySeq DEF Extends
    <2>5. log # <<>> /\ pc \notin Ended /\ pc' # "returned"
      BY <2>2, StagesAreNotEnds DEF HasSpoken, Ended
    <2> QED BY <1>0, <2>2, <2>3, <2>4, <2>5, DomainStep DEF HasSpoken
  <1>10. ASSUME NEW c \in CallIds, Settle(c)
         PROVE  [Stream!StreamNext]_(Stream!streamVars) /\ HasSpoken'
    <2>1. log' = log /\ pc' = pc
      BY <1>10 DEF Settle, CallReturns, CallFails
    <2> QED BY <2>1, SameStream DEF HasSpoken
  <1>11. CASE UNCHANGED vars
    BY <1>11, SameStream DEF vars, HasSpoken
  <1> QED BY <1>1, <1>2, <1>3, <1>4, <1>5, <1>6, <1>7, <1>8, <1>9, <1>10, <1>11
          DEF Next, Resume, Rest

(* The events of a consensus run implement the abstract command stream,    *)
(* however its calls settle and wherever it raises or is cancelled         *)
(* (run_consensus).                                                        *)
THEOREM ConsensusImplementsStream == Spec => ImplementsStream
  <1>1. Init => Stream!StreamInit /\ HasSpoken
    <2> SUFFICES ASSUME Init PROVE Stream!StreamInit /\ HasSpoken
      OBVIOUS
    <2>1. log = <<>> /\ pc = "new"
      BY DEF Init
    <2> QED BY <2>1 DEF Stream!StreamInit, HasSpoken
  <1>2. ControlInv /\ ControlInv' /\ EventsInv /\ HasSpoken /\ [Next]_vars
          => [Stream!StreamNext]_(Stream!streamVars) /\ HasSpoken'
    BY StreamStep
  <1> QED BY <1>1, <1>2, ControlInvHolds, EventsHold, PTL DEF Spec, ImplementsStream, Stream!StreamSpec
--------------------------------------------------------------------------------

Types(events) == {events[j].type : j \in 1 .. Len(events)}

VerdictTypes == {"review_completed", "consensus_reached", "round_completed"}

EndTypes == {"command_completed", "release_gate_completed"}

LEMMA TypesGrow ==
  ASSUME TypeOK, NEW s \in Stages, NEW k \in 0 .. Width(s), NEW batch \in Seq(Events),
         Extends(s, k, batch)
  PROVE  /\ Types(log) \subseteq Types(log')
         /\ Types(log') \subseteq Types(log) \cup {CompletedType(s)} \cup Types(batch)
         /\ k # 0 => CompletedType(s) \in Types(log')
         /\ \A j \in 1 .. Len(log') : (j \in 1 .. Len(log) /\ log'[j] = log[j])
                                        \/ log'[j].type = CompletedType(s)
                                        \/ \E i \in 1 .. Len(batch) : log'[j] = batch[i]
         /\ Len(batch) # 0 => Len(log') # 0 /\ log'[Len(log')] = batch[Len(batch)]
  <1> DEFINE n == Len(log)
             m == Len(batch)
  <1>1. /\ n \in Nat /\ k \in Nat /\ m \in Nat
        /\ Len(log') = n + k + m
        /\ \A j \in 1 .. n : log'[j] = log[j]
        /\ \A i \in 1 .. k : log'[n + i] = Event(CompletedType(s), <<s, i>>, NoVotes)
        /\ \A j \in 1 .. m : log'[n + k + j] = batch[j]
    BY ExtendedLog
  <1>2. \A i \in 1 .. k : log'[n + i].type = CompletedType(s)
    <2> SUFFICES ASSUME NEW i \in 1 .. k PROVE log'[n + i].type = CompletedType(s)
      OBVIOUS
    <2>1. log'[n + i] = Event(CompletedType(s), <<s, i>>, NoVotes)
      BY <1>1
    <2> QED BY <2>1 DEF Event
  <1> HIDE DEF n, m
  <1>3. \A j \in 1 .. n + k + m : j \in 1 .. n \/ (\E i \in 1 .. k : j = n + i)
                                    \/ (\E i \in 1 .. m : j = n + k + i)
    <2>1. n \in Nat /\ k \in Nat /\ m \in Nat
      BY <1>1
    <2> QED BY <2>1, Places
  <1>4. ASSUME NEW j \in 1 .. Len(log')
        PROVE  (j \in 1 .. n /\ log'[j] = log[j]) \/ log'[j].type = CompletedType(s)
                 \/ \E i \in 1 .. m : log'[j] = batch[i]
    <2>1. CASE j \in 1 .. n
      BY <2>1, <1>1
    <2>2. CASE \E i \in 1 .. k : j = n + i
      BY <2>2, <1>2
    <2>3. CASE \E i \in 1 .. m : j = n + k + i
      BY <2>3, <1>1
    <2> QED BY <2>1, <2>2, <2>3, <1>1, <1>3
  <1>5. Types(log) \subseteq Types(log')
    <2>1. \A j \in 1 .. n : j \in 1 .. Len(log') /\ log'[j].type = log[j].type
      BY <1>1
    <2> QED BY <2>1 DEF Types, n
  <1>6. Types(log') \subseteq Types(log) \cup {CompletedType(s)} \cup Types(batch)
    BY <1>4 DEF Types, n, m
  <1>7. k # 0 => CompletedType(s) \in Types(log')
    <2>1. k # 0 => n + 1 \in 1 .. Len(log') /\ log'[n + 1].type = CompletedType(s)
      BY <1>1, <1>2
    <2> QED BY <2>1 DEF Types
  <1>8. m # 0 => Len(log') # 0 /\ log'[Len(log')] = batch[m]
    BY <1>1
  <1> QED BY <1>4, <1>5, <1>6, <1>7, <1>8 DEF n, m

LEMMA OnlyCompletions ==
  ASSUME TypeOK, NEW s \in Stages, NEW k \in 0 .. Width(s), Extends(s, k, <<>>)
  PROVE  \A j \in 1 .. Len(log') : (j \in 1 .. Len(log) /\ log'[j] = log[j])
                                      \/ log'[j].type = CompletedType(s)
  <1>1. <<>> \in Seq(Events) /\ Len(<<>>) = 0
    BY EmptySeq
  <1> DEFINE none == <<>>
  <1>2. none \in Seq(Events) /\ Extends(s, k, none) /\ ~ \E i \in 1 .. Len(none) : TRUE
    BY <1>1
  <1> HIDE DEF none
  <1>3. \A j \in 1 .. Len(log') : (j \in 1 .. Len(log) /\ log'[j] = log[j])
                                    \/ log'[j].type = CompletedType(s)
                                    \/ \E i \in 1 .. Len(none) : log'[j] = none[i]
    BY <1>2, TypesGrow
  <1> QED BY <1>2, <1>3

LEMMA TypesConcat ==
  ASSUME NEW a \in Seq(Events), NEW b \in Seq(Events)
  PROVE  Types(a \o b) = Types(a) \cup Types(b)
  <1> DEFINE n == Len(a)
             m == Len(b)
             ab == a \o b
  <1>1. n \in Nat /\ m \in Nat /\ Len(ab) = n + m
        /\ \A i \in 1 .. n + m : ab[i] = IF i <= n THEN a[i] ELSE b[i - n]
    BY ConcatProperties, LenProperties
  <1> HIDE DEF n, m, ab
  <1>2. \A i \in 1 .. n : i \in 1 .. n + m /\ ab[i] = a[i]
    BY <1>1
  <1>3. \A i \in 1 .. m : n + i \in 1 .. n + m /\ ab[n + i] = b[i]
    BY <1>1
  <1>4. \A i \in 1 .. n + m : i \in 1 .. n \/ (i - n \in 1 .. m /\ i = n + (i - n))
    BY <1>1
  <1>5. Types(a) \subseteq Types(ab)
    BY <1>1, <1>2 DEF Types, n
  <1>6. Types(b) \subseteq Types(ab)
    <2> SUFFICES ASSUME NEW i \in 1 .. m PROVE b[i].type \in Types(ab)
      BY DEF Types, m
    <2>1. n + i \in 1 .. Len(ab) /\ ab[n + i].type = b[i].type
      BY <1>1, <1>3
    <2> QED BY <2>1 DEF Types
  <1>7. Types(ab) \subseteq Types(a) \cup Types(b)
    <2> SUFFICES ASSUME NEW i \in 1 .. n + m PROVE ab[i].type \in Types(a) \cup Types(b)
      BY <1>1 DEF Types
    <2>1. CASE i \in 1 .. n
      BY <2>1, <1>2 DEF Types, n
    <2>2. CASE i - n \in 1 .. m /\ i = n + (i - n)
      <3>1. ab[i] = b[i - n]
        BY <2>2, <1>3
      <3> QED BY <2>2, <3>1 DEF Types, m
    <2> QED BY <2>1, <2>2, <1>4
  <1> QED BY <1>5, <1>6, <1>7 DEF ab

LEMMA BatchTypeSets ==
  /\ \A t \in Stages : Types(Opening(t)) \subseteq {StartedType(t)}
  /\ Types(<<Say("command_received"), Say("run_started")>> \o Opening("task_framing"))
       \cap (EndTypes \cup VerdictTypes) = {}
  /\ Types(<<Say("candidate_created"), Say("round_started"), Say("review_started")>>
             \o Opening("candidate_review")) \cap (EndTypes \cup VerdictTypes) = {}
  /\ \A t \in Stages : Types(Opening(t)) \cap (EndTypes \cup VerdictTypes) = {}
  /\ Types(Verdict) \cap EndTypes = {}
  /\ Types(Verdict \o Opening("release_gate")) \cap EndTypes = {}
  /\ "release_gate_completed" \notin Types(Closing)
  /\ Types(Closing) \cap VerdictTypes = {}
  /\ "release_gate_completed" \notin Types(Verdict \o Closing)
  <1>1. ASSUME NEW t \in Stages
        PROVE  /\ Types(Opening(t)) \subseteq {StartedType(t)}
               /\ StartedType(t) \notin EndTypes \cup VerdictTypes
               /\ Opening(t) \in Seq(Events)
    <2>1. \A j \in 1 .. Len(Opening(t)) : Opening(t)[j].type = StartedType(t)
      <3> SUFFICES ASSUME NEW j \in 1 .. Len(Opening(t))
                   PROVE  Opening(t)[j].type = StartedType(t)
        OBVIOUS
      <3>1. Opening(t)[j] = Event(StartedType(t), <<t, j>>, NoVotes)
        BY OpeningShape DEF Callers
      <3> QED BY <3>1 DEF Event
    <2> QED BY <2>1, OpeningShape DEF Types, StartedType, EndTypes, VerdictTypes
  <1> DEFINE hello == <<Say("command_received"), Say("run_started")>>
             asked == <<Say("candidate_created"), Say("round_started"), Say("review_started")>>
  <1>2. /\ hello \in Seq(Events) /\ asked \in Seq(Events)
        /\ Verdict \in Seq(Events) /\ Closing \in Seq(Events)
    BY SayType, BatchTypes DEF EventTypes
  <1>3. /\ Types(hello) \cap (EndTypes \cup VerdictTypes) = {}
        /\ Types(asked) \cap (EndTypes \cup VerdictTypes) = {}
    BY DEF Types, Say, Event, EndTypes, VerdictTypes
  <1>4. Types(Verdict) \cap EndTypes = {}
    BY DEF Types, Verdict, Event, EndTypes
  <1>5. "release_gate_completed" \notin Types(Closing) /\ Types(Closing) \cap VerdictTypes = {}
    BY DEF Types, Closing, Say, Event, VerdictTypes
  <1> HIDE DEF hello, asked
  <1>6. {"task_framing", "candidate_review", "release_gate"} \subseteq Stages
    BY DEF Stages
  <1>7. /\ Types(hello \o Opening("task_framing")) \cap (EndTypes \cup VerdictTypes) = {}
        /\ Types(asked \o Opening("candidate_review")) \cap (EndTypes \cup VerdictTypes) = {}
    BY <1>1, <1>2, <1>3, <1>6, TypesConcat
  <1>8. Types(Verdict \o Opening("release_gate")) \cap EndTypes = {}
    BY <1>1, <1>2, <1>4, <1>6, TypesConcat
  <1>9. "release_gate_completed" \notin Types(Verdict \o Closing)
    BY <1>2, <1>4, <1>5, TypesConcat DEF EndTypes
  <1> QED BY <1>1, <1>4, <1>5, <1>7, <1>8, <1>9 DEF hello, asked

(* The votes of the reviews, counted over the calls that made them.        *)
VotesCast ==
  [approve |-> Cardinality({c \in CallsOf("candidate_review") : reply[c].decision = "approve"}),
   minor_revise |->
     Cardinality({c \in CallsOf("candidate_review") : reply[c].decision = "minor_revise"})]

LEMMA VotesAreCast == Votes = VotesCast
  <1> DEFINE ByPosition(d) == {i \in Participants : Gather("candidate_review")[i].decision = d}
             ByCall(d) == {c \in CallsOf("candidate_review") : reply[c].decision = d}
  <1>1. ASSUME NEW d
        PROVE  Cardinality(ByCall(d)) = Cardinality(ByPosition(d))
    <2>1. Callers("candidate_review") = Participants
      BY DEF Callers, Width, Gathered, Participants
    <2>2. \A i \in Participants : Gather("candidate_review")[i] = reply[<<"candidate_review", i>>]
      BY <2>1 DEF Gather
    <2> DEFINE f == [i \in ByPosition(d) |-> <<"candidate_review", i>>]
    <2>3. f \in [ByPosition(d) -> ByCall(d)]
      BY <2>1, <2>2 DEF CallsOf
    <2>4. \A i, j \in ByPosition(d) : f[i] = f[j] => i = j
      OBVIOUS
    <2>5. \A c \in ByCall(d) : \E i \in ByPosition(d) : f[i] = c
      BY <2>1, <2>2 DEF CallsOf
    <2>6. DOMAIN f = ByPosition(d)
      OBVIOUS
    <2>7. IsFiniteSet(ByPosition(d))
      <3>1. IsFiniteSet(Participants)
        BY FS_Interval DEF Participants
      <3> QED BY <3>1, FS_Subset
    <2> HIDE DEF ByPosition, ByCall, f
    <2>8. f \in Bijection(ByPosition(d), ByCall(d))
      BY <2>3, <2>4, <2>5, <2>6 DEF Bijection, Injection, Surjection, IsInjective
    <2>9. ExistsBijection(ByPosition(d), ByCall(d))
      BY <2>8 DEF ExistsBijection
    <2> QED BY <2>7, <2>9, FS_Bijection
  <1> QED BY <1>1 DEF Votes, VotesCast

(* A summary of the votes is only published once every review is in.       *)
VotesInv ==
  \A j \in 1 .. Len(log) : log[j].type \in VerdictTypes =>
    AllReturned("candidate_review") /\ log[j].votes = VotesCast

LEMMA VotesKept ==
  ASSUME VotesInv,
         \A c \in CallIds : call[c] = "returned" => call'[c] = "returned" /\ reply'[c] = reply[c],
         \A j \in 1 .. Len(log') :
           \/ j \in 1 .. Len(log) /\ log'[j] = log[j]
           \/ log'[j].type \notin VerdictTypes
           \/ AllReturned("candidate_review") /\ log'[j].votes = Votes
  PROVE  VotesInv'
  <1> SUFFICES ASSUME NEW j \in 1 .. Len(log'), log'[j].type \in VerdictTypes
               PROVE  AllReturned("candidate_review")' /\ log'[j].votes = VotesCast'
    BY DEF VotesInv
  <1>1. AllReturned("candidate_review") /\ log'[j].votes = VotesCast
    BY VotesAreCast DEF VotesInv
  <1>2. CallsOf("candidate_review") \subseteq CallIds
    BY CallersAreCalls DEF Stages
  <1>3. \A c \in CallsOf("candidate_review") : call'[c] = "returned" /\ reply'[c] = reply[c]
    BY <1>1, <1>2 DEF AllReturned
  <1>4. VotesCast' = VotesCast
    <2>1. ASSUME NEW d
          PROVE  {c \in CallsOf("candidate_review") : reply'[c].decision = d}
                   = {c \in CallsOf("candidate_review") : reply[c].decision = d}
      BY <1>3
    <2> QED BY <2>1 DEF VotesCast
  <1> QED BY <1>1, <1>3, <1>4 DEF AllReturned

(* What the caller is handed, and what the stream says by then.            *)
Told ==
  /\ log # <<>> /\ log[Len(log)].type = "command_completed"
  /\ result.gate_executed <=> "release_gate_completed" \in Types(log)
  /\ result.gate_executed <=> release_gate_mode # "off"
  /\ result.final_answer =
       IF result.gate_executed THEN <<"release_gate", 1>> ELSE <<"candidate_synthesis", 1>>
  /\ result.gate_decision =
       IF result.gate_executed THEN reply[<<"release_gate", 1>>].decision ELSE "skipped"
  /\ result.per_invocation = usages

ResultInv ==
  /\ VotesInv
  /\ pc = "release_gate" => release_gate_mode # "off"
  /\ pc = "returned" => Told
  /\ pc # "returned" => Types(log) \cap EndTypes = {}

(* A step that publishes nothing, of a run that has not returned.          *)
LEMMA QuietResult ==
  ASSUME ResultInv, log' = log, pc # "returned", pc' \notin {"returned", "release_gate"} \/ pc' = pc,
         release_gate_mode' = release_gate_mode,
         \A c \in CallIds : call[c] = "returned" => call'[c] = "returned" /\ reply'[c] = reply[c]
  PROVE  ResultInv'
  <1>1. VotesInv'
    BY VotesKept DEF ResultInv
  <1> QED BY <1>1 DEF ResultInv, Types

(* A batch published on the way to another stage.                          *)
LEMMA AwaitResult ==
  ASSUME TypeOK, ResultInv, NEW s \in Stages \ {"release_gate"}, NEW t \in Stages,
         NEW batch \in Seq(Events), Accept(s, batch), Await(t),
         \A c \in CallIds : c[1] = t => call[c] = "idle",
         t = "release_gate" => release_gate_mode # "off",
         Types(batch) \cap EndTypes = {},
         \A i \in 1 .. Len(batch) : batch[i].type \in VerdictTypes =>
           AllReturned("candidate_review") /\ batch[i].votes = Votes
  PROVE  ResultInv'
  <1>1. /\ Width(s) \in 0 .. Width(s) /\ Extends(s, Width(s), batch) /\ pc = s /\ pc' = t
        /\ release_gate_mode' = release_gate_mode /\ reply' = reply
    BY CallersAreCalls DEF Accept, Extends, Await
  <1>2. CompletedType(s) \notin EndTypes \cup VerdictTypes
    BY DEF CompletedType, EndTypes, VerdictTypes, Stages
  <1>3. \A c \in CallIds : call[c] = "returned" => call'[c] = "returned"
    BY DEF Await, Issued
  <1>4. VotesInv'
    <2>1. \A j \in 1 .. Len(log') :
            \/ j \in 1 .. Len(log) /\ log'[j] = log[j]
            \/ log'[j].type = CompletedType(s)
            \/ \E i \in 1 .. Len(batch) : log'[j] = batch[i]
      BY <1>1, TypesGrow
    <2> QED BY <2>1, <1>1, <1>2, <1>3, VotesKept DEF ResultInv
  <1>5. Types(log') \subseteq Types(log) \cup {CompletedType(s)} \cup Types(batch)
    BY <1>1, TypesGrow
  <1>6. pc # "returned" /\ pc' # "returned"
    BY <1>1, StagesAreNotEnds
  <1> QED BY <1>1, <1>2, <1>4, <1>5, <1>6 DEF ResultInv

(* The run is handed to its caller.                                        *)
LEMMA DeliverResult ==
  ASSUME TypeOK, ResultInv, NEW s \in Stages, NEW batch \in Seq(Events), Accept(s, batch),
         NEW answer, NEW executed \in BOOLEAN, NEW decision, Deliver(answer, executed, decision),
         executed <=> s = "release_gate", executed <=> release_gate_mode # "off",
         answer = IF executed THEN <<"release_gate", 1>> ELSE <<"candidate_synthesis", 1>>,
         decision = IF executed THEN reply[<<"release_gate", 1>>].decision ELSE "skipped",
         Len(batch) # 0, batch[Len(batch)].type = "command_completed",
         "release_gate_completed" \notin Types(batch),
         \A i \in 1 .. Len(batch) : batch[i].type \in VerdictTypes =>
           AllReturned("candidate_review") /\ batch[i].votes = Votes
  PROVE  ResultInv'
  <1>1. /\ Width(s) \in 0 .. Width(s) /\ Width(s) # 0 /\ Extends(s, Width(s), batch) /\ pc = s
        /\ pc' = "returned" /\ release_gate_mode' = release_gate_mode
        /\ reply' = reply /\ call' = call
    BY CallersAreCalls DEF Accept, Extends, Deliver
  <1>2. /\ CompletedType(s) \notin VerdictTypes
        /\ CompletedType(s) = "release_gate_completed" <=> s = "release_gate"
    BY DEF CompletedType, VerdictTypes, Stages
  <1>3. VotesInv'
    <2>1. \A j \in 1 .. Len(log') :
            \/ j \in 1 .. Len(log) /\ log'[j] = log[j]
            \/ log'[j].type = CompletedType(s)
            \/ \E i \in 1 .. Len(batch) : log'[j] = batch[i]
      BY <1>1, TypesGrow
    <2> QED BY <2>1, <1>1, <1>2, VotesKept DEF ResultInv
  <1>4. "release_gate_completed" \notin Types(log)
    BY <1>1, StagesAreNotEnds DEF ResultInv, EndTypes
  <1>5. /\ Types(log') \subseteq Types(log) \cup {CompletedType(s)} \cup Types(batch)
        /\ CompletedType(s) \in Types(log')
        /\ Len(log') # 0 /\ log'[Len(log')] = batch[Len(batch)]
    BY <1>1, TypesGrow
  <1>6. "release_gate_completed" \in Types(log') <=> executed
    BY <1>2, <1>4, <1>5
  <1>7. log' # <<>> /\ log'[Len(log')].type = "command_completed"
    BY <1>5
  <1>8. /\ result'.gate_executed = executed /\ result'.gate_decision = decision
        /\ result'.final_answer = answer /\ result'.per_invocation = usages'
    BY DEF Deliver
  <1>9. Told'
    BY <1>1, <1>6, <1>7, <1>8 DEF Told
  <1> QED BY <1>1, <1>3, <1>9 DEF ResultInv

LEMMA VerdictVotes ==
  /\ \A i \in 1 .. Len(Verdict) : Verdict[i].votes = Votes
  /\ \A b \in Seq(Events) : Types(b) \cap VerdictTypes = {} =>
       \A i \in 1 .. Len(Verdict \o b) :
         (Verdict \o b)[i].type \in VerdictTypes => (Verdict \o b)[i].votes = Votes
  <1>1. Len(Verdict) = 3 /\ \A i \in 1 .. 3 : Verdict[i].votes = Votes
    BY DEF Verdict, Event
  <1>2. ASSUME NEW b \in Seq(Events), Types(b) \cap VerdictTypes = {},
               NEW i \in 1 .. Len(Verdict \o b), (Verdict \o b)[i].type \in VerdictTypes
        PROVE  (Verdict \o b)[i].votes = Votes
    <2>1. /\ Len(Verdict \o b) = 3 + Len(b) /\ Len(b) \in Nat
          /\ \A j \in 1 .. 3 + Len(b) :
               (Verdict \o b)[j] = IF j <= 3 THEN Verdict[j] ELSE b[j - 3]
      <3>1. Verdict \in Seq(Events) /\ b \in Seq(Events)
        BY BatchTypes
      <3>2. /\ Len(Verdict \o b) = Len(Verdict) + Len(b)
            /\ \A j \in 1 .. Len(Verdict) + Len(b) :
                 (Verdict \o b)[j] = IF j <= Len(Verdict) THEN Verdict[j]
                                     ELSE b[j - Len(Verdict)]
        BY <3>1, ConcatProperties
      <3> QED BY <3>1, <3>2, <1>1, LenProperties
    <2>2. i <= 3
      <3> SUFFICES ASSUME ~ (i <= 3) PROVE FALSE
        OBVIOUS
      <3>1. i - 3 \in 1 .. Len(b) /\ (Verdict \o b)[i] = b[i - 3]
        BY <2>1
      <3>2. b[i - 3].type \in Types(b)
        BY <3>1 DEF Types
      <3> QED BY <3>1, <3>2, <1>2
    <2>3. i \in 1 .. 3 /\ (Verdict \o b)[i] = Verdict[i]
      BY <2>1, <2>2
    <2> QED BY <2>3, <1>1
  <1> QED BY <1>1, <1>2

LEMMA NoVerdictIn ==
  ASSUME NEW b, Types(b) \cap VerdictTypes = {}
  PROVE  \A i \in 1 .. Len(b) : b[i].type \notin VerdictTypes
  BY DEF Types

LEMMA NextIsIdle ==
  ASSUME ControlInv, NEW s \in Stages, NEW t \in Stages,
         StageNumber[t] = StageNumber[s] + 1, pc = s
  PROVE  \A c \in CallIds : c[1] = t => call[c] = "idle"
  BY StageNumbers DEF ControlInv, FrontierInv, Frontier

LEMMA ResultStep == ControlInv /\ EventsInv /\ ResultInv /\ [Next]_vars => ResultInv'
  <1> SUFFICES ASSUME ControlInv, EventsInv, ResultInv, [Next]_vars
               PROVE  ResultInv'
    OBVIOUS
  <1>0. TypeOK
    BY DEF ControlInv
  <1>1. CASE BeginRun
    <2> DEFINE batch == <<Say("command_received"), Say("run_started")>> \o Opening("task_framing")
    <2>1. Types(batch) \cap (EndTypes \cup VerdictTypes) = {}
      BY BatchTypeSets
    <2>2. log' = batch /\ pc' = "task_framing"
      BY <1>1 DEF BeginRun, Await
    <2> HIDE DEF batch
    <2>3. \A j \in 1 .. Len(log') : log'[j].type \notin VerdictTypes
      BY <2>1, <2>2, NoVerdictIn
    <2> QED BY <2>1, <2>2, <2>3 DEF ResultInv, VotesInv
  <1>2. CASE FrameTask
    <2> DEFINE batch == Opening("initial_contribution")
    <2>1. /\ Types(batch) \cap (EndTypes \cup VerdictTypes) = {} /\ batch \in Seq(Events)
          /\ "task_framing" \in Stages \ {"release_gate"} /\ "initial_contribution" \in Stages
          /\ pc = "task_framing"
      BY <1>2, BatchTypeSets, OpeningShape DEF Stages, FrameTask, Accept
    <2>2. \A c \in CallIds : c[1] = "initial_contribution" => call[c] = "idle"
      BY <2>1, NextIsIdle DEF StageNumber
    <2>3. \A i \in 1 .. Len(batch) : batch[i].type \notin VerdictTypes
      BY <2>1, NoVerdictIn
    <2>4. Accept("task_framing", batch) /\ Await("initial_contribution")
      BY <1>2 DEF FrameTask
    <2> HIDE DEF batch
    <2> QED BY <1>0, <2>1, <2>2, <2>3, <2>4, AwaitResult
  <1>3. CASE CollectContributions
    <2> DEFINE batch == Opening("candidate_synthesis")
    <2>1. /\ Types(batch) \cap (EndTypes \cup VerdictTypes) = {} /\ batch \in Seq(Events)
          /\ "initial_contribution" \in Stages \ {"release_gate"}
          /\ "candidate_synthesis" \in Stages /\ pc = "initial_contribution"
      BY <1>3, BatchTypeSets, OpeningShape DEF Stages, CollectContributions, Accept
    <2>2. \A c \in CallIds : c[1] = "candidate_synthesis" => call[c] = "idle"
      BY <2>1, NextIsIdle DEF StageNumber
    <2>3. \A i \in 1 .. Len(batch) : batch[i].type \notin VerdictTypes
      BY <2>1, NoVerdictIn
    <2>4. Accept("initial_contribution", batch) /\ Await("candidate_synthesis")
      BY <1>3 DEF CollectContributions
    <2> HIDE DEF batch
    <2> QED BY <1>0, <2>1, <2>2, <2>3, <2>4, AwaitResult
  <1>4. CASE OpenReviews
    <2> DEFINE batch == <<Say("candidate_created"), Say("round_started"),
                          Say("review_started")>> \o Opening("candidate_review")
    <2>1. /\ Types(batch) \cap (EndTypes \cup VerdictTypes) = {} /\ batch \in Seq(Events)
          /\ "candidate_synthesis" \in Stages \ {"release_gate"}
          /\ "candidate_review" \in Stages /\ pc = "candidate_synthesis"
      BY <1>4, BatchTypeSets, BatchTypes DEF Stages, OpenReviews, Accept
    <2>2. \A c \in CallIds : c[1] = "candidate_review" => call[c] = "idle"
      BY <2>1, NextIsIdle DEF StageNumber
    <2>3. \A i \in 1 .. Len(batch) : batch[i].type \notin VerdictTypes
      BY <2>1, NoVerdictIn
    <2>4. Accept("candidate_synthesis", batch) /\ Await("candidate_review")
      BY <1>4 DEF OpenReviews
    <2> HIDE DEF batch
    <2> QED BY <1>0, <2>1, <2>2, <2>3, <2>4, AwaitResult
  <1>5. CASE OpenGate
    <2> DEFINE batch == Verdict \o Opening("release_gate")
    <2>1. /\ Types(batch) \cap EndTypes = {} /\ batch \in Seq(Events)
          /\ "candidate_review" \in Stages \ {"release_gate"}
          /\ "release_gate" \in Stages /\ pc = "candidate_review"
          /\ AllReturned("candidate_review") /\ release_gate_mode # "off"
      BY <1>5, BatchTypeSets, BatchTypes DEF Stages, OpenGate, Accept
    <2>2. \A c \in CallIds : c[1] = "release_gate" => call[c] = "idle"
      BY <2>1, NextIsIdle DEF StageNumber
    <2>3. \A i \in 1 .. Len(batch) : batch[i].type \in VerdictTypes => batch[i].votes = Votes
      BY <2>1, OpeningShape, BatchTypeSets, VerdictVotes
    <2>4. Accept("candidate_review", batch) /\ Await("release_gate")
      BY <1>5 DEF OpenGate
    <2> HIDE DEF batch
    <2> QED BY <1>0, <2>1, <2>2, <2>3, <2>4, AwaitResult
  <1>6. CASE FinishUngated
    <2> DEFINE batch == Verdict \o Closing
    <2>1. /\ batch \in Seq(Events) /\ "candidate_review" \in Stages
          /\ Accept("candidate_review", batch) /\ AllReturned("candidate_review")
          /\ release_gate_mode = "off"
          /\ Deliver(<<"candidate_synthesis", 1>>, FALSE, "skipped")
          /\ "release_gate_completed" \notin Types(batch)
      BY <1>6, BatchTypes, BatchTypeSets DEF Stages, FinishUngated, Accept
    <2>2. Len(batch) = 6 /\ Kind(batch[6]) = "completed"
      BY BatchKinds
    <2>3. \A i \in 1 .. Len(batch) : batch[i].type \in VerdictTypes => batch[i].votes = Votes
      BY BatchTypes, BatchTypeSets, VerdictVotes
    <2> HIDE DEF batch
    <2>4. Len(batch) # 0 /\ batch[Len(batch)].type = "command_completed"
      BY <2>2 DEF Kind
    <2>5. \A i \in 1 .. Len(batch) : batch[i].type \in VerdictTypes =>
            AllReturned("candidate_review") /\ batch[i].votes = Votes
      BY <2>1, <2>3
    <2>6. /\ FALSE \in BOOLEAN /\ (FALSE <=> "candidate_review" = "release_gate")
          /\ (FALSE <=> release_gate_mode # "off")
      BY <2>1
    <2> QED BY <1>0, <2>1, <2>4, <2>5, <2>6, DeliverResult
  <1>7. CASE FinishGated
    <2>1. /\ Closing \in Seq(Events) /\ "release_gate" \in Stages
          /\ Accept("release_gate", Closing) /\ pc = "release_gate"
          /\ Deliver(<<"release_gate", 1>>, TRUE, Gather("release_gate")[1].decision)
          /\ "release_gate_completed" \notin Types(Closing)
          /\ \A i \in 1 .. Len(Closing) : Closing[i].type \notin VerdictTypes
      BY <1>7, BatchTypes, BatchTypeSets, NoVerdictIn DEF Stages, FinishGated, Accept
    <2>2. Len(Closing) = 3 /\ Closing[3].type = "command_completed"
      BY DEF Closing, Say, Event
    <2>3. release_gate_mode # "off"
      BY <2>1 DEF ResultInv
    <2>4. Gather("release_gate")[1] = reply[<<"release_gate", 1>>]
      BY <2>1, CallersAreCalls DEF Gather, Callers
    <2>5. Len(Closing) # 0 /\ Closing[Len(Closing)].type = "command_completed"
      BY <2>2
    <2>6. \A i \in 1 .. Len(Closing) : Closing[i].type \in VerdictTypes =>
            AllReturned("candidate_review") /\ Closing[i].votes = Votes
      BY <2>1
    <2>7. /\ TRUE \in BOOLEAN /\ (TRUE <=> "release_gate" = "release_gate")
          /\ (TRUE <=> release_gate_mode # "off")
      BY <2>3
    <2> QED BY <1>0, <2>1, <2>4, <2>5, <2>6, <2>7, DeliverResult
  <1>8. ASSUME NEW s \in Stages, RaiseProviderError(s) \/ Cancel(s)
        PROVE  ResultInv'
    <2>1. /\ log' = log /\ pc = s /\ pc' = "raised" /\ reply' = reply
          /\ release_gate_mode' = release_gate_mode
      BY <1>8 DEF RaiseProviderError, Cancel, Raise
    <2>2. \A c \in CallIds : call[c] = "returned" => call'[c] = "returned"
      BY <1>0, <1>8 DEF RaiseProviderError, Cancel, TypeOK
    <2> QED BY <2>1, <2>2, QuietResult, StagesAreNotEnds
  <1>9. ASSUME NEW s \in Stages, RaiseInvalidReply(s)
        PROVE  ResultInv'
    <2>1. PICK i \in Callers(s) : /\ log' = log \o CompletedEvents(s, i - 1)
      BY <1>9 DEF RaiseInvalidReply
    <2>2. /\ Width(s) \in Nat /\ i \in 1 .. Width(s) /\ i - 1 \in 0 .. Width(s) /\ pc = s
          /\ pc' = "raised" /\ release_gate_mode' = release_gate_mode
          /\ call' = call /\ reply' = reply
      BY <1>9, CallersAreCalls DEF Callers, RaiseInvalidReply, Raise
    <2>3. <<>> \in Seq(Events) /\ Extends(s, i - 1, <<>>)
      <3>1. log \in Seq(Events) /\ CompletedEvents(s, i - 1) \in Seq(Events)
        BY <1>0, <2>2, RecordedType DEF TypeOK
      <3>2. log \o CompletedEvents(s, i - 1) \in Seq(Events)
        BY <3>1, ConcatProperties
      <3> QED BY <2>1, <3>2, ConcatEmptySeq, EmptySeq DEF Extends
    <2>4. \A j \in 1 .. Len(log') : (j \in 1 .. Len(log) /\ log'[j] = log[j])
                                      \/ log'[j].type = CompletedType(s)
      BY <1>0, <2>2, <2>3, OnlyCompletions
    <2>5. CompletedType(s) \notin VerdictTypes
      BY DEF CompletedType, VerdictTypes, Stages
    <2>6. VotesInv'
      BY <2>2, <2>4, <2>5, VotesKept DEF ResultInv
    <2>7. Types(log) \cap EndTypes = {}
      BY <2>2, StagesAreNotEnds DEF ResultInv
    <2>8. Types(log') \cap EndTypes = {}
      <3>1. CASE s # "release_gate"
        <4>1. CompletedType(s) \notin EndTypes
          BY <3>1 DEF CompletedType, EndTypes, Stages
        <4> QED BY <4>1, <2>4, <2>7 DEF Types
      <3>2. CASE s = "release_gate"
        <4>1. i - 1 = 0
          BY <3>2, <2>2 DEF Width, Gathered
        <4>2. Len(log') = Len(log) /\ \A j \in 1 .. Len(log) : log'[j] = log[j]
          <5> DEFINE none == <<>>
          <5>1. none \in Seq(Events) /\ Extends(s, i - 1, none) /\ Len(none) = 0
            BY <2>3
          <5> HIDE DEF none
          <5>2. /\ Len(log) \in Nat /\ Len(log') = Len(log) + (i - 1) + Len(none)
                /\ \A j \in 1 .. Len(log) : log'[j] = log[j]
            BY <1>0, <2>2, <5>1, ExtendedLog
          <5> QED BY <4>1, <5>1, <5>2
        <4> QED BY <4>2, <2>7 DEF Types
      <3> QED BY <3>1, <3>2
    <2> QED BY <2>2, <2>6, <2>8 DEF ResultInv
  <1>10. ASSUME NEW c \in CallIds, Settle(c)
         PROVE  ResultInv'
    <2>1. /\ log' = log /\ pc' = pc /\ release_gate_mode' = release_gate_mode
          /\ \A d \in CallIds : call[d] = "returned" =>
                                  call'[d] = "returned" /\ reply'[d] = reply[d]
      BY <1>0, <1>10 DEF TypeOK, Settle, CallReturns, CallFails
    <2>2. pc # "returned"
      BY <1>10 DEF ControlInv, OrphansOnlyAfterSiblingFailure, Ended, Settle, CallReturns,
                   CallFails
    <2> QED BY <2>1, <2>2, QuietResult
  <1>11. CASE UNCHANGED vars
    BY <1>11 DEF vars, ResultInv, VotesInv, Told, Types, VotesCast, AllReturned
  <1> QED
    BY <1>1, <1>2, <1>3, <1>4, <1>5, <1>6, <1>7, <1>8, <1>9, <1>10, <1>11
    DEF Next, Resume, Rest

(* There is a result exactly when the stream ends in command_completed; it *)
(* agrees with the events, and the vote summaries count the reviews.       *)
THEOREM ResultMatchesStreamHolds == Spec => []ResultMatchesStream
  <1>1. Init => ResultInv
    <2> SUFFICES ASSUME Init PROVE ResultInv
      OBVIOUS
    <2>1. log = <<>> /\ pc = "new"
      BY DEF Init
    <2> QED BY <2>1 DEF ResultInv, VotesInv, Types
  <1>2. ResultInv => ResultMatchesStream
    <2> SUFFICES ASSUME ResultInv PROVE ResultMatchesStream
      OBVIOUS
    <2>1. pc = "returned" <=> (log # <<>> /\ log[Len(log)].type = "command_completed")
      BY DEF ResultInv, Told, Types, EndTypes
    <2> QED BY <2>1 DEF ResultMatchesStream, Last, ResultInv, Told, Types, VotesInv, VotesCast,
                        VerdictTypes
  <1> QED BY <1>1, <1>2, ResultStep, ControlInvHolds, EventsHold, PTL DEF Spec
================================================================================
