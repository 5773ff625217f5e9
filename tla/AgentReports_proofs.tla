------------------------- MODULE AgentReports_proofs -------------------------
(***************************************************************************)
(* The theorems of AgentReports: what is left out of the updates can be    *)
(* told from former ones, and a snapshot of performance comes once, for    *)
(* any number of fetches awaited together, losses, models and counts.      *)
(*                                                                         *)
(* What the controller will know of a state is what the youngest update    *)
(* about it says.  Updates are on their way in the order of their ages,    *)
(* because the simulation answers fetches in their order and at most one   *)
(* of them at an instant (ReadingsInOrder); so the youngest one is what    *)
(* the core noted last as sent (SentIsTold), which is what was read last   *)
(* (ReadIsSent).                                                           *)
(***************************************************************************)
EXTENDS AgentReports, SequenceTheorems, FiniteSetTheorems,
        WellFoundedInduction, TLAPS

CountMaps == UNION {[ks -> 0 .. MaxCount] : ks \in SUBSET Keys}

Updates == [age : 0 .. MaxDelay, counts : CountMaps, perf : SUBSET Snapshots]

Fetches == [perf : SUBSET SUBSET Snapshots, state : SUBSET Stats]

TypeInv ==
    /\ models \subseteq Models /\ bots \in [Keys -> 0 .. MaxCount] /\ ring \subseteq Snapshots
    /\ due \in BOOLEAN /\ read \in BOOLEAN
    /\ fetches \in Seq(Fetches) /\ Len(fetches) <= MaxFetches
    /\ last_sent \in [Keys -> Known] /\ view \in [Keys -> Known]
    /\ frames \subseteq Updates
    /\ missed \subseteq Keys /\ losses \in 0 .. MaxLosses

(* The readings awaited, oldest first, are younger than what was sent. *)
ReadingsInOrder ==
    /\ \A i \in DOMAIN fetches : \A r, q \in fetches[i].state : r = q
    /\ \A i, j \in DOMAIN fetches : i < j =>
          /\ fetches[j].state # {} => fetches[i].state # {}
          /\ \A r \in fetches[i].state, q \in fetches[j].state : q.age < r.age
    /\ \A u \in frames : \A i \in DOMAIN fetches : \A r \in fetches[i].state : r.age < u.age
    /\ \A u, v \in frames : u.age = v.age => u = v
    /\ ~read =>
          /\ \A u \in frames : u.age > 0
          /\ \A i \in DOMAIN fetches : \A r \in fetches[i].state : r.age > 0

(* What the core noted as sent is what the controller knows or will know. *)
SentIsTold ==
    \A k \in Keys : k \notin missed => Youngest(k, view[k], frames).count = last_sent[k].count

(* The last reading agrees with what was noted, whether it was sent or left out. *)
ReadIsSent ==
    \A k \in Keys : k[1] \in reading.models => reading.counts[k] = last_sent[k].count

ReportsInv == TypeInv /\ ReadingsInOrder /\ SentIsTold /\ ReadIsSent

-----------------------------------------------------------------------------
(* Where a snapshot may be. *)

InFetch(p, i) == p \in UNION fetches[i].perf

InFrame(p, u) == p \in u.perf

OnePlace(p) ==
    /\ \A i, j \in DOMAIN fetches : InFetch(p, i) /\ InFetch(p, j) => i = j
    /\ \A u, v \in frames : InFrame(p, u) /\ InFrame(p, v) => u = v
    /\ arrived[p] = 1 => p \notin ring
    /\ \A i \in DOMAIN fetches : InFetch(p, i) => arrived[p] = 0 /\ p \notin ring
    /\ \A u \in frames : InFrame(p, u) =>
          /\ arrived[p] = 0 /\ p \notin ring
          /\ \A i \in DOMAIN fetches : ~InFetch(p, i)

PlacesInv == arrived \in [Snapshots -> {0, 1}] /\ \A p \in Snapshots : OnePlace(p)

-----------------------------------------------------------------------------
(* The youngest update about a state. *)

About(k, updates) == {u \in updates : k \in DOMAIN u.counts}

IsYoungest(u, k, updates) ==
    u \in About(k, updates) /\ \A v \in About(k, updates) : u.age <= v.age

LEMMA YoungestExists ==
    ASSUME NEW updates \in SUBSET Updates, NEW k, About(k, updates) # {}
    PROVE  \E u \in updates : IsYoungest(u, k, updates)
<1> DEFINE R == OpToRel(<, Nat)
           ages == {u.age : u \in About(k, updates)}
<1>1. IsWellFoundedOn(R, Nat)
  BY NatLessThanWellFounded, Zenon
<1>2. \A x, y \in Nat : x < y => <<x, y>> \in R
  BY DEF OpToRel
<1>3. ages \subseteq Nat /\ ages # {}
  BY ReportsAssumption DEF Updates, About
<1> HIDE DEF R
<1>4. PICK x \in ages : \A y \in ages : ~ (<<y, x>> \in R)
  <2> HIDE DEF ages
  <2> QED
    BY <1>1, <1>3, WFMin
<1>5. \A y \in ages : x <= y
  <2> HIDE DEF ages
  <2>1. \A y \in ages : ~ (y < x)
    BY <1>2, <1>3, <1>4, Zenon
  <2> QED
    BY <1>3, <2>1
<1>6. PICK u \in About(k, updates) : u.age = x
  BY <1>4
<1> QED
  BY <1>5, <1>6 DEF IsYoungest, About

LEMMA YoungestIsIt ==
    ASSUME NEW updates \in SUBSET Updates, NEW k, NEW known,
           \A u, v \in updates : u.age = v.age => u = v
    PROVE  /\ About(k, updates) = {} => Youngest(k, known, updates) = known
           /\ \A u : IsYoungest(u, k, updates) =>
                 Youngest(k, known, updates) = [count |-> u.counts[k], age |-> u.age]
<1>1. About(k, updates) = {} => Youngest(k, known, updates) = known
  BY DEF Youngest, About
<1>2. ASSUME NEW u, IsYoungest(u, k, updates)
      PROVE  Youngest(k, known, updates) = [count |-> u.counts[k], age |-> u.age]
  <2> DEFINE c == CHOOSE w \in About(k, updates) : \A v \in About(k, updates) : w.age <= v.age
  <2>1. c \in About(k, updates) /\ \A v \in About(k, updates) : c.age <= v.age
    BY <1>2 DEF IsYoungest
  <2>2. Youngest(k, known, updates) = [count |-> c.counts[k], age |-> c.age]
    BY <1>2 DEF Youngest, About, IsYoungest
  <2> HIDE DEF c
  <2>3. \A v \in About(k, updates) : v.age \in Nat /\ v \in updates
    BY ReportsAssumption DEF About, Updates
  <2>4. c.age = u.age /\ c \in updates /\ u \in updates
    BY <1>2, <2>1, <2>3 DEF IsYoungest
  <2>5. c = u
    BY <2>4
  <2> QED
    BY <2>2, <2>5
<1> QED
  BY <1>1, <1>2

-----------------------------------------------------------------------------
(* What steps do to the fetches awaited. *)

LEMMA FetchesAreRecords ==
    ASSUME TypeInv
    PROVE  /\ Len(fetches) \in Nat /\ DOMAIN fetches = 1 .. Len(fetches)
           /\ \A i \in DOMAIN fetches :
                 /\ fetches[i] \in Fetches
                 /\ \A r \in fetches[i].state : r \in Stats /\ r.age \in 0 .. MaxDelay
<1>1. /\ Len(fetches) \in Nat /\ DOMAIN fetches = 1 .. Len(fetches)
      /\ \A i \in DOMAIN fetches : fetches[i] \in Fetches
  BY LenProperties, ElementOfSeq DEF TypeInv
<1> QED
  BY <1>1 DEF Fetches, Stats

(* An answer is put into the fetch that is next. *)
LEMMA AnsweredFetch ==
    ASSUME TypeInv, NEW i \in DOMAIN fetches, NEW reply \in Fetches,
           fetches' = [fetches EXCEPT ![i] = reply]
    PROVE  /\ fetches' \in Seq(Fetches) /\ Len(fetches') <= MaxFetches
           /\ DOMAIN fetches' = DOMAIN fetches
           /\ \A j \in DOMAIN fetches : fetches'[j] = IF j = i THEN reply ELSE fetches[j]
<1>1. fetches \in Seq(Fetches) /\ i \in 1 .. Len(fetches) /\ Len(fetches) <= MaxFetches
  BY FetchesAreRecords DEF TypeInv
<1>2. /\ fetches' \in Seq(Fetches) /\ Len(fetches') = Len(fetches)
      /\ \A j \in 1 .. Len(fetches) : fetches'[j] = IF j = i THEN reply ELSE fetches[j]
  BY <1>1, ExceptSeq
<1> QED
  BY <1>1, <1>2, FetchesAreRecords

(* The oldest fetch is complete. *)
LEMMA CompletedFetch ==
    ASSUME TypeInv, fetches # <<>>, fetches' = Tail(fetches)
    PROVE  /\ fetches' \in Seq(Fetches) /\ Len(fetches') <= MaxFetches
           /\ Head(fetches) = fetches[1] /\ 1 \in DOMAIN fetches
           /\ \A i \in DOMAIN fetches' :
                 i + 1 \in DOMAIN fetches /\ 1 < i + 1 /\ fetches'[i] = fetches[i + 1]
<1>1. fetches \in Seq(Fetches) /\ Len(fetches) \in Nat /\ Len(fetches) <= MaxFetches
      /\ DOMAIN fetches = 1 .. Len(fetches) /\ MaxFetches \in Nat
  BY FetchesAreRecords, ReportsAssumption DEF TypeInv
<1>2. /\ fetches' \in Seq(Fetches) /\ Len(fetches') = Len(fetches) - 1
      /\ \A i \in 1 .. Len(fetches') : fetches'[i] = fetches[i + 1]
      /\ Len(fetches) # 0 /\ Head(fetches) = fetches[1]
  BY <1>1, HeadTailProperties, EmptySeq
<1>3. DOMAIN fetches' = 1 .. Len(fetches')
  BY <1>2, LenProperties
<1> QED
  BY <1>1, <1>2, <1>3

(* Another fetch is awaited. *)
LEMMA AwaitedFetch ==
    ASSUME TypeInv, Len(fetches) < MaxFetches, fetches' = Append(fetches, Fetch)
    PROVE  /\ fetches' \in Seq(Fetches) /\ Len(fetches') <= MaxFetches
           /\ \A i \in DOMAIN fetches' :
                 \/ i \in DOMAIN fetches /\ fetches'[i] = fetches[i]
                 \/ /\ \A j \in DOMAIN fetches' : j <= i
                    /\ fetches'[i] = Fetch
<1>1. fetches \in Seq(Fetches) /\ Len(fetches) \in Nat /\ MaxFetches \in Nat
      /\ DOMAIN fetches = 1 .. Len(fetches)
  BY FetchesAreRecords, ReportsAssumption DEF TypeInv
<1>2. Fetch \in Fetches
  BY DEF Fetch, Fetches, NoAnswer
<1>3. /\ fetches' \in Seq(Fetches) /\ Len(fetches') = Len(fetches) + 1
      /\ \A i \in 1 .. Len(fetches) : fetches'[i] = fetches[i]
      /\ fetches'[Len(fetches) + 1] = Fetch
  BY <1>1, <1>2, AppendProperties
<1>4. DOMAIN fetches' = 1 .. (Len(fetches) + 1)
  BY <1>3, LenProperties
<1> QED
  BY <1>1, <1>3, <1>4

-----------------------------------------------------------------------------
(* What time does to what is on its way, and to what is known. *)

LEMMA OlderUpdate ==
    ASSUME NEW u \in Updates, u.age < MaxDelay
    PROVE  /\ Aged(u) \in Updates
           /\ Aged(u).age = u.age + 1 /\ Aged(u).counts = u.counts /\ Aged(u).perf = u.perf
<1>1. u.age \in 0 .. MaxDelay /\ u.age < Old /\ u.age + 1 \in 0 .. MaxDelay
  BY ReportsAssumption DEF Updates, Old
<1>2. Aged(u) = [u EXCEPT !.age = u.age + 1]
  BY <1>1 DEF Aged, Older
<1> QED
  BY <1>1, <1>2 DEF Updates

LEMMA OlderReading ==
    ASSUME NEW r \in Stats, r.age < MaxDelay
    PROVE  Aged(r) \in Stats /\ Aged(r).age = r.age + 1
<1>1. r.age \in 0 .. MaxDelay /\ r.age < Old /\ r.age + 1 \in 0 .. MaxDelay
  BY ReportsAssumption DEF Stats, Old
<1>2. Aged(r) = [r EXCEPT !.age = r.age + 1]
  BY <1>1 DEF Aged, Older
<1> QED
  BY <1>1, <1>2 DEF Stats

LEMMA NeverIsKnown == Never \in Known /\ Never.count = 0
BY DEF Never, Known

LEMMA KnownCounts ==
    ASSUME NEW e \in Known
    PROVE  e.count \in 0 .. MaxCount /\ e.age \in Nat
BY ReportsAssumption DEF Known, Never, Old

LEMMA OlderKnown ==
    ASSUME NEW known \in [Keys -> Known]
    PROVE  /\ AllAged(known) \in [Keys -> Known]
           /\ \A k \in Keys : AllAged(known)[k].count = known[k].count
<1> SUFFICES ASSUME NEW k \in Keys
             PROVE  AllAged(known)[k] \in Known /\ AllAged(known)[k].count = known[k].count
  BY DEF AllAged
<1>1. CASE known[k] = Never
  BY <1>1, NeverIsKnown DEF AllAged
<1>2. CASE known[k] # Never
  <2>1. known[k] \in [count : 0 .. MaxCount, age : 0 .. Old]
    BY <1>2 DEF Known
  <2>2. Older(known[k].age) \in 0 .. Old
    BY <2>1, ReportsAssumption DEF Older, Old
  <2>3. AllAged(known)[k] = [known[k] EXCEPT !.age = Older(known[k].age)]
    BY <1>2 DEF AllAged, Aged
  <2> QED
    BY <2>1, <2>2, <2>3 DEF Known
<1> QED
  BY <1>1, <1>2

(* All that is on its way is a period older, and not at the bound yet. *)
LEMMA TimeOnTheWay ==
    ASSUME TypeInv, TimePasses
    PROVE  /\ frames' \subseteq Updates
           /\ \A u \in frames : /\ Aged(u) \in frames' /\ Aged(u).age = u.age + 1
                                /\ Aged(u).counts = u.counts /\ Aged(u).perf = u.perf
           /\ \A w \in frames' : \E u \in frames : w = Aged(u)
           /\ fetches' \in Seq(Fetches) /\ Len(fetches') <= MaxFetches
           /\ DOMAIN fetches' = DOMAIN fetches
           /\ \A i \in DOMAIN fetches :
                 /\ fetches'[i].perf = fetches[i].perf
                 /\ fetches'[i].state = {Aged(r) : r \in fetches[i].state}
                 /\ \A r \in fetches[i].state : Aged(r).age = r.age + 1
<1>1. /\ \A u \in frames : u \in Updates /\ u.age < MaxDelay
      /\ frames' = {Aged(u) : u \in frames}
  BY DEF TypeInv, TimePasses, OnTheirWay
<1>2. \A u \in frames : /\ Aged(u) \in Updates /\ Aged(u).age = u.age + 1
                        /\ Aged(u).counts = u.counts /\ Aged(u).perf = u.perf
  BY <1>1, OlderUpdate
<1>3. \A i \in DOMAIN fetches : \A r \in fetches[i].state : r \in Stats /\ r.age < MaxDelay
  BY FetchesAreRecords DEF TimePasses, OnTheirWay
<1>4. \A i \in DOMAIN fetches : \A r \in fetches[i].state :
         Aged(r) \in Stats /\ Aged(r).age = r.age + 1
  BY <1>3, OlderReading
<1> DEFINE older(i) == [fetches[i] EXCEPT !.state = {Aged(r) : r \in fetches[i].state}]
<1>5. fetches' = [i \in DOMAIN fetches |-> older(i)]
  BY DEF TimePasses
<1>6. \A i \in DOMAIN fetches :
         /\ older(i) \in Fetches /\ older(i).perf = fetches[i].perf
         /\ older(i).state = {Aged(r) : r \in fetches[i].state}
  <2> TAKE i \in DOMAIN fetches
  <2>1. fetches[i] \in [perf : SUBSET SUBSET Snapshots, state : SUBSET Stats]
    BY FetchesAreRecords DEF Fetches
  <2>2. {Aged(r) : r \in fetches[i].state} \in SUBSET Stats
    BY <1>4
  <2> QED
    BY <2>1, <2>2 DEF Fetches
<1> HIDE DEF older
<1>7. fetches' \in [1 .. Len(fetches) -> Fetches] /\ Len(fetches) \in Nat
      /\ DOMAIN fetches = 1 .. Len(fetches)
  BY <1>5, <1>6, FetchesAreRecords
<1>8. fetches' \in Seq(Fetches)
  BY <1>7, SeqDef
<1>9. Len(fetches') = Len(fetches)
  BY <1>7, <1>8, LenProperties
<1> QED
  BY <1>1, <1>2, <1>4, <1>5, <1>6, <1>7, <1>8, <1>9 DEF TypeInv

-----------------------------------------------------------------------------
(* The actions keep the order of readings and what is told. *)

LEMMA FramesAreUpdates ==
    ASSUME TypeInv
    PROVE  \A u \in frames : u \in Updates /\ u.age \in Nat
BY ReportsAssumption DEF TypeInv, Updates

LEMMA ReadingsAges ==
    ASSUME TypeInv
    PROVE  \A i \in DOMAIN fetches : \A r \in fetches[i].state : r.age \in Nat
BY FetchesAreRecords, ReportsAssumption

LEMMA TimeStep ==
    ASSUME ReportsInv, TimePasses
    PROVE  ReportsInv'
<1>1. /\ frames' \subseteq Updates
      /\ \A u \in frames : /\ Aged(u) \in frames' /\ Aged(u).age = u.age + 1
                           /\ Aged(u).counts = u.counts
      /\ \A w \in frames' : \E u \in frames : w = Aged(u)
      /\ fetches' \in Seq(Fetches) /\ Len(fetches') <= MaxFetches
      /\ DOMAIN fetches' = DOMAIN fetches
      /\ \A i \in DOMAIN fetches :
            /\ fetches'[i].state = {Aged(r) : r \in fetches[i].state}
            /\ \A r \in fetches[i].state : Aged(r).age = r.age + 1
  BY TimeOnTheWay DEF ReportsInv
<1>2. /\ last_sent' = AllAged(last_sent) /\ view' = AllAged(view)
      /\ last_sent' \in [Keys -> Known] /\ view' \in [Keys -> Known]
      /\ \A k \in Keys : /\ last_sent'[k].count = last_sent[k].count
                         /\ view'[k].count = view[k].count
  BY OlderKnown DEF ReportsInv, TypeInv, TimePasses
<1>3. TypeInv'
  BY <1>1, <1>2 DEF ReportsInv, TypeInv, TimePasses, agent, history
<1>4. /\ \A u \in frames : u.age \in Nat
      /\ \A i \in DOMAIN fetches : \A r \in fetches[i].state : r.age \in Nat
  BY FramesAreUpdates, ReadingsAges DEF ReportsInv
<1>5. ReadingsInOrder'
  <2>1. \A i \in DOMAIN fetches : \A r \in fetches'[i].state :
           \E q \in fetches[i].state : r = Aged(q) /\ r.age = q.age + 1
    BY <1>1
  <2>2. \A w \in frames' : \E u \in frames : w = Aged(u) /\ w.age = u.age + 1
    BY <1>1
  <2>3. \A i \in DOMAIN fetches' : \A r, q \in fetches'[i].state : r = q
    BY <1>1, <2>1 DEF ReportsInv, ReadingsInOrder
  <2>4. ASSUME NEW i \in DOMAIN fetches', NEW j \in DOMAIN fetches', i < j
        PROVE  /\ fetches'[j].state # {} => fetches'[i].state # {}
               /\ \A r \in fetches'[i].state, q \in fetches'[j].state : q.age < r.age
    <3>1. /\ fetches[j].state # {} => fetches[i].state # {}
          /\ \A r \in fetches[i].state, q \in fetches[j].state : q.age < r.age
      BY <1>1, <2>4 DEF ReportsInv, ReadingsInOrder
    <3>2. fetches'[j].state # {} => fetches'[i].state # {}
      <4>1. /\ fetches'[i].state = {Aged(r) : r \in fetches[i].state}
            /\ fetches'[j].state = {Aged(r) : r \in fetches[j].state}
        BY <1>1
      <4>2. fetches'[j].state # {} => fetches[j].state # {}
        BY <4>1, Zenon
      <4>3. ASSUME NEW r \in fetches[i].state PROVE fetches'[i].state # {}
        <5>1. Aged(r) \in fetches'[i].state
          BY <4>1
        <5> QED
          BY <5>1
      <4> QED
        BY <3>1, <4>2, <4>3
    <3> QED
      BY <1>1, <1>4, <2>1, <3>1, <3>2
  <2>5. \A w \in frames' : \A i \in DOMAIN fetches' : \A r \in fetches'[i].state : r.age < w.age
    BY <1>1, <1>4, <2>1, <2>2 DEF ReportsInv, ReadingsInOrder
  <2>6. \A w, x \in frames' : w.age = x.age => w = x
    BY <1>4, <2>2 DEF ReportsInv, ReadingsInOrder
  <2>7. /\ \A w \in frames' : w.age > 0
        /\ \A i \in DOMAIN fetches' : \A r \in fetches'[i].state : r.age > 0
    BY <1>1, <1>4, <2>1, <2>2
  <2> QED
    BY <2>3, <2>4, <2>5, <2>6, <2>7 DEF ReadingsInOrder
<1>6. SentIsTold'
  <2> SUFFICES ASSUME NEW k \in Keys, k \notin missed
               PROVE  Youngest(k, view'[k], frames').count = last_sent'[k].count
    BY DEF SentIsTold, TimePasses, history
  <2>1. Youngest(k, view[k], frames).count = last_sent[k].count
    BY DEF ReportsInv, SentIsTold
  <2>2. /\ frames \in SUBSET Updates /\ \A u, v \in frames : u.age = v.age => u = v
        /\ frames' \in SUBSET Updates /\ \A u, v \in frames' : u.age = v.age => u = v
    BY <1>1, <1>5 DEF ReportsInv, TypeInv, ReadingsInOrder
  <2>3. CASE About(k, frames) = {}
    <3>1. About(k, frames') = {}
      BY <1>1, <2>3 DEF About
    <3>2. Youngest(k, view[k], frames) = view[k] /\ Youngest(k, view'[k], frames') = view'[k]
      BY <2>2, <2>3, <3>1, YoungestIsIt
    <3> QED
      BY <1>2, <2>1, <3>2
  <2>4. CASE About(k, frames) # {}
    <3>1. PICK u \in frames : IsYoungest(u, k, frames)
      BY <2>2, <2>4, YoungestExists
    <3>2. IsYoungest(Aged(u), k, frames')
      <4>1. Aged(u) \in About(k, frames')
        BY <1>1, <3>1 DEF IsYoungest, About
      <4>2. ASSUME NEW w \in About(k, frames')
            PROVE  Aged(u).age <= w.age
        <5>1. PICK v \in frames : w = Aged(v)
          BY <1>1 DEF About
        <5>2. v \in About(k, frames) /\ w.age = v.age + 1
          BY <1>1, <5>1 DEF About
        <5> QED
          BY <1>1, <1>4, <3>1, <5>2 DEF IsYoungest
      <4> QED
        BY <4>1, <4>2 DEF IsYoungest
    <3>3. /\ Youngest(k, view[k], frames).count = u.counts[k]
          /\ Youngest(k, view'[k], frames').count = Aged(u).counts[k]
      BY <2>2, <3>1, <3>2, YoungestIsIt
    <3> QED
      BY <1>1, <1>2, <2>1, <3>3
  <2> QED
    BY <2>3, <2>4
<1>7. ReadIsSent'
  BY <1>2 DEF ReportsInv, ReadIsSent, TimePasses, history
<1> QED
  BY <1>3, <1>5, <1>6, <1>7 DEF ReportsInv

(* The simulation answers the first fetch that has no answer, at an instant of its own. *)
LEMMA SimulationAnswers ==
    ASSUME ReportsInv, NEW i \in DOMAIN fetches, FetchSimulationStats(i)
    PROVE  ReportsInv'
<1> DEFINE stats == [models |-> models, counts |-> bots, age |-> 0]
           reply == [fetches[i] EXCEPT !.state = {stats}]
<1>1. /\ ~read /\ read' = TRUE
      /\ fetches[i].state = {}
      /\ \A j \in 1 .. (i - 1) : fetches[j].state # {}
      /\ fetches' = [fetches EXCEPT ![i] = reply]
      /\ UNCHANGED <<agent, due, last_sent, frames, view, arrived, history>>
  BY DEF FetchSimulationStats, Unanswered, NoAnswer
<1>2. stats \in Stats
  BY ReportsAssumption DEF ReportsInv, TypeInv, Stats
<1>3. reply \in Fetches /\ reply.state = {stats} /\ stats.age = 0
  BY <1>2, FetchesAreRecords DEF ReportsInv, Fetches
<1> HIDE DEF stats, reply
<1>4. /\ fetches' \in Seq(Fetches) /\ Len(fetches') <= MaxFetches
      /\ DOMAIN fetches' = DOMAIN fetches
      /\ \A j \in DOMAIN fetches : fetches'[j] = IF j = i THEN reply ELSE fetches[j]
  BY <1>1, <1>3, AnsweredFetch DEF ReportsInv
<1>5. TypeInv'
  BY <1>1, <1>4 DEF ReportsInv, TypeInv, agent, history
<1>6. /\ \A u \in frames : u.age \in Nat /\ u.age > 0
      /\ \A j \in DOMAIN fetches : \A r \in fetches[j].state : r.age \in Nat /\ r.age > 0
  BY <1>1, FramesAreUpdates, ReadingsAges DEF ReportsInv, ReadingsInOrder
<1>7. \A j \in DOMAIN fetches : j \in Nat \ {0}
  BY FetchesAreRecords DEF ReportsInv
<1>8. \A j \in DOMAIN fetches : j # i => fetches'[j].state = fetches[j].state
  BY <1>4
<1>9. fetches'[i].state = {stats}
  BY <1>3, <1>4
<1>10. ReadingsInOrder'
  <2>1. \A j \in DOMAIN fetches' : \A r, q \in fetches'[j].state : r = q
    BY <1>4, <1>8, <1>9 DEF ReportsInv, ReadingsInOrder
  <2>2. ASSUME NEW h \in DOMAIN fetches', NEW j \in DOMAIN fetches', h < j
        PROVE  /\ fetches'[j].state # {} => fetches'[h].state # {}
               /\ \A r \in fetches'[h].state, q \in fetches'[j].state : q.age < r.age
    <3>1. CASE h # i /\ j # i
      BY <1>4, <1>8, <2>2, <3>1 DEF ReportsInv, ReadingsInOrder
    <3>2. CASE h = i
      <4>1. fetches[j].state = {} /\ j # i
        BY <1>1, <1>4, <2>2, <3>2, <1>7 DEF ReportsInv, ReadingsInOrder
      <4> QED
        BY <1>4, <1>8, <4>1
    <3>3. CASE j = i
      <4>1. h \in 1 .. (i - 1) /\ h # i
        BY <1>4, <1>7, <2>2, <3>3
      <4>2. fetches'[h].state # {} /\ \A r \in fetches'[h].state : r.age > 0
        BY <1>1, <1>4, <1>6, <1>8, <4>1
      <4> QED
        BY <1>3, <1>9, <3>3, <4>2
    <3> QED
      BY <3>1, <3>2, <3>3
  <2>3. \A u \in frames' : \A j \in DOMAIN fetches' : \A r \in fetches'[j].state : r.age < u.age
    <3>1. frames' = frames
      BY <1>1
    <3>2. \A u \in frames, r \in fetches'[i].state : r.age < u.age
      BY <1>3, <1>6, <1>9
    <3> QED
      BY <1>4, <1>8, <3>1, <3>2 DEF ReportsInv, ReadingsInOrder
  <2> QED
    BY <1>1, <2>1, <2>2, <2>3 DEF ReportsInv, ReadingsInOrder
<1>11. SentIsTold' /\ ReadIsSent'
  BY <1>1 DEF ReportsInv, SentIsTold, ReadIsSent, Youngest, history
<1> QED
  BY <1>5, <1>10, <1>11 DEF ReportsInv

(* Steps at which no reading and no update moves. *)
LEMMA QuietStep ==
    ASSUME ReportsInv, TypeInv',
           DOMAIN fetches' = DOMAIN fetches,
           \A i \in DOMAIN fetches : fetches'[i].state = fetches[i].state,
           UNCHANGED <<read, last_sent, frames, view, history>>
    PROVE  ReportsInv'
<1>1. ReadingsInOrder'
  BY DEF ReportsInv, ReadingsInOrder
<1>2. SentIsTold' /\ ReadIsSent'
  BY DEF ReportsInv, SentIsTold, ReadIsSent, Youngest, history
<1> QED
  BY <1>1, <1>2 DEF ReportsInv

(* The metrics manager answers with the snapshots in the rings. *)
LEMMA MetricsAnswer ==
    ASSUME TypeInv, NEW i \in DOMAIN fetches, FetchActionMetrics(i)
    PROVE  /\ TypeInv' /\ ring' = {}
           /\ DOMAIN fetches' = DOMAIN fetches
           /\ \A j \in DOMAIN fetches :
                 /\ fetches'[j].state = fetches[j].state
                 /\ fetches'[j].perf = IF j = i THEN {ring} ELSE fetches[j].perf
<1> DEFINE reply == [fetches[i] EXCEPT !.perf = {ring}]
<1>1. /\ fetches' = [fetches EXCEPT ![i] = reply]
      /\ ring' = {}
      /\ UNCHANGED <<models, bots, due, read, last_sent, frames, view, arrived, history>>
  BY DEF FetchActionMetrics, Drained
<1>2. reply \in Fetches /\ reply.state = fetches[i].state /\ reply.perf = {ring}
  BY FetchesAreRecords DEF Fetches, TypeInv
<1> HIDE DEF reply
<1>3. /\ fetches' \in Seq(Fetches) /\ Len(fetches') <= MaxFetches
      /\ DOMAIN fetches' = DOMAIN fetches
      /\ \A j \in DOMAIN fetches : fetches'[j] = IF j = i THEN reply ELSE fetches[j]
  BY <1>1, <1>2, AnsweredFetch
<1>4. TypeInv'
  BY <1>1, <1>3 DEF TypeInv, history
<1> QED
  BY <1>1, <1>2, <1>3, <1>4

(* The core's interval: one more fetch, without answers. *)
LEMMA SendDataStep ==
    ASSUME ReportsInv, send_data
    PROVE  ReportsInv'
<1>1. /\ Len(fetches) < MaxFetches /\ fetches' = Append(fetches, Fetch) /\ due' = FALSE
      /\ UNCHANGED <<agent, read, last_sent, frames, view, arrived, history>>
  BY DEF send_data
<1>2. /\ fetches' \in Seq(Fetches) /\ Len(fetches') <= MaxFetches
      /\ \A i \in DOMAIN fetches' :
            \/ i \in DOMAIN fetches /\ fetches'[i] = fetches[i]
            \/ /\ \A j \in DOMAIN fetches' : j <= i
               /\ fetches'[i] = Fetch
  BY <1>1, AwaitedFetch DEF ReportsInv
<1>3. TypeInv'
  BY <1>1, <1>2 DEF ReportsInv, TypeInv, agent, history
<1>4. Fetch.state = {}
  BY DEF Fetch, NoAnswer
<1>5. \A i \in DOMAIN fetches' :
         \/ i \in DOMAIN fetches /\ fetches'[i].state = fetches[i].state
         \/ /\ \A j \in DOMAIN fetches' : j <= i
            /\ fetches'[i].state = {}
  BY <1>2, <1>4
<1>6. ReadingsInOrder'
  <2>1. \A i \in DOMAIN fetches' : i \in Nat
    BY <1>2, LenProperties
  <2>2. ASSUME NEW i \in DOMAIN fetches', NEW j \in DOMAIN fetches', i < j
        PROVE  /\ fetches'[j].state # {} => fetches'[i].state # {}
               /\ \A r \in fetches'[i].state, q \in fetches'[j].state : q.age < r.age
    <3>1. i \in DOMAIN fetches /\ fetches'[i].state = fetches[i].state
      BY <1>5, <2>1, <2>2
    <3>2. CASE fetches'[j].state = {}
      BY <3>2
    <3>3. CASE j \in DOMAIN fetches /\ fetches'[j].state = fetches[j].state
      BY <2>2, <3>1, <3>3 DEF ReportsInv, ReadingsInOrder
    <3> QED
      BY <1>5, <3>2, <3>3
  <2>3. \A i \in DOMAIN fetches' : \A r, q \in fetches'[i].state : r = q
    BY <1>5 DEF ReportsInv, ReadingsInOrder
  <2>4. \A u \in frames : \A i \in DOMAIN fetches' : \A r \in fetches'[i].state : r.age < u.age
    BY <1>5 DEF ReportsInv, ReadingsInOrder
  <2>5. ~read => \A i \in DOMAIN fetches' : \A r \in fetches'[i].state : r.age > 0
    BY <1>5 DEF ReportsInv, ReadingsInOrder
  <2> QED
    BY <1>1, <2>2, <2>3, <2>4, <2>5 DEF ReportsInv, ReadingsInOrder
<1>7. SentIsTold' /\ ReadIsSent'
  BY <1>1 DEF ReportsInv, SentIsTold, ReadIsSent, Youngest, history
<1> QED
  BY <1>3, <1>6, <1>7 DEF ReportsInv

-----------------------------------------------------------------------------
(* What an update leaves out. *)

LEMMA UpdateOfReading ==
    ASSUME TypeInv, NEW stats \in Stats, NEW perf \in SUBSET Snapshots
    PROVE  /\ Kept(stats) \in SUBSET Keys
           /\ Update(stats, perf) \in Updates
           /\ Update(stats, perf).age = stats.age
           /\ Update(stats, perf).perf \subseteq perf
           /\ DOMAIN Update(stats, perf).counts = Kept(stats)
           /\ \A k \in Kept(stats) : Update(stats, perf).counts[k] = stats.counts[k]
<1>1. Kept(stats) \in SUBSET Keys
  BY DEF Kept, Reported
<1> DEFINE counts == ModelStateSnapshots(stats)
           kept == to_protobuf(perf, stats)
<1>2. /\ counts \in [Kept(stats) -> 0 .. MaxCount]
      /\ \A k \in Kept(stats) : counts[k] = stats.counts[k]
  BY <1>1 DEF ModelStateSnapshots, Stats
<1>3. counts \in CountMaps
  BY <1>1, <1>2 DEF CountMaps
<1>4. kept \subseteq perf
  BY DEF to_protobuf
<1>5. stats.age \in 0 .. MaxDelay
  BY DEF Stats
<1>6. Update(stats, perf) = [age |-> stats.age, counts |-> counts, perf |-> kept]
  BY DEF Update
<1> HIDE DEF counts, kept
<1>7. Update(stats, perf) \in Updates
  BY <1>3, <1>4, <1>5, <1>6 DEF Updates
<1>8. DOMAIN counts = Kept(stats)
  BY <1>2
<1> QED
  BY <1>1, <1>2, <1>4, <1>6, <1>7, <1>8

(* A count that is left out is the one noted as sent, or 0 and never sent. *)
LEMMA LeftOutIsSent ==
    ASSUME TypeInv, NEW stats \in Stats, NEW k \in Keys,
           k[1] \in stats.models, k \notin Kept(stats)
    PROVE  stats.counts[k] = last_sent[k].count
<1>1. stats.counts[k] \in 0 .. MaxCount
  BY DEF Stats
<1>2. CASE k \notin Reported(stats)
  <2>1. ~ (stats.counts[k] > 0) /\ last_sent[k] = Never
    BY <1>2 DEF Reported
  <2>2. stats.counts[k] = 0
    BY <1>1, <2>1, ReportsAssumption
  <2> QED
    BY <2>1, <2>2, NeverIsKnown
<1>3. CASE k \in Reported(stats)
  <2>1. ~Changed(k, stats)
    BY <1>3 DEF Kept
  <2> QED
    BY <2>1 DEF Changed
<1> QED
  BY <1>2, <1>3

(* Both answers of the oldest fetch are there. *)
LEMMA CompleteFacts ==
    ASSUME TypeInv, NEW lost \in BOOLEAN, Complete(lost)
    PROVE  \E stats \in Stats, perf \in SUBSET Snapshots :
              /\ stats \in fetches[1].state /\ perf \in fetches[1].perf
              /\ last_sent' = [k \in Keys |->
                    IF k \in Kept(stats) THEN [count |-> stats.counts[k], age |-> stats.age]
                    ELSE last_sent[k]]
              /\ frames' = IF lost THEN frames ELSE frames \cup {Update(stats, perf)}
              /\ missed' = IF lost THEN missed \cup Kept(stats) ELSE missed \ Kept(stats)
              /\ reading' = [models |-> stats.models, counts |-> stats.counts]
<1>1. /\ fetches # <<>> /\ fetches' = Tail(fetches)
      /\ \E stats \in Head(fetches).state, perf \in Head(fetches).perf :
            /\ last_sent' = [k \in Keys |->
                  IF k \in Kept(stats) THEN [count |-> stats.counts[k], age |-> stats.age]
                  ELSE last_sent[k]]
            /\ frames' = IF lost THEN frames ELSE frames \cup {Update(stats, perf)}
            /\ missed' = IF lost THEN missed \cup Kept(stats) ELSE missed \ Kept(stats)
            /\ reading' = [models |-> stats.models, counts |-> stats.counts]
  BY DEF Complete
<1>2. Head(fetches) = fetches[1] /\ 1 \in DOMAIN fetches
  BY <1>1, CompletedFetch
<1>3. fetches[1].state \subseteq Stats /\ fetches[1].perf \subseteq SUBSET Snapshots
  BY <1>2, FetchesAreRecords DEF Fetches
<1> QED
  BY <1>1, <1>2, <1>3

LEMMA CompleteStep ==
    ASSUME ReportsInv, NEW lost \in BOOLEAN, Complete(lost)
    PROVE  ReportsInv'
<1>1. PICK stats \in Stats, perf \in SUBSET Snapshots :
        /\ stats \in fetches[1].state
        /\ last_sent' = [k \in Keys |->
              IF k \in Kept(stats) THEN [count |-> stats.counts[k], age |-> stats.age]
              ELSE last_sent[k]]
        /\ frames' = IF lost THEN frames ELSE frames \cup {Update(stats, perf)}
        /\ missed' = IF lost THEN missed \cup Kept(stats) ELSE missed \ Kept(stats)
        /\ reading' = [models |-> stats.models, counts |-> stats.counts]
  BY CompleteFacts DEF ReportsInv
<1> DEFINE new == Update(stats, perf)
           kept == Kept(stats)
<1>2. /\ kept \in SUBSET Keys /\ new \in Updates /\ new.age = stats.age
      /\ DOMAIN new.counts = kept
      /\ \A k \in kept : new.counts[k] = stats.counts[k]
  BY UpdateOfReading DEF ReportsInv
<1>3. /\ frames' = IF lost THEN frames ELSE frames \cup {new}
      /\ missed' = IF lost THEN missed \cup kept ELSE missed \ kept
      /\ \A k \in Keys : last_sent'[k] =
            IF k \in kept THEN [count |-> stats.counts[k], age |-> stats.age] ELSE last_sent[k]
  BY <1>1
<1>4. ASSUME NEW k \in Keys, k[1] \in stats.models, k \notin kept
      PROVE  stats.counts[k] = last_sent[k].count
  BY <1>4, LeftOutIsSent DEF ReportsInv
<1> HIDE DEF new, kept
<1>5. /\ fetches # <<>> /\ fetches' = Tail(fetches) /\ Loses(lost)
      /\ UNCHANGED <<agent, due, read, view, arrived>>
  BY DEF Complete
<1>6. /\ fetches' \in Seq(Fetches) /\ Len(fetches') <= MaxFetches
      /\ 1 \in DOMAIN fetches
      /\ \A i \in DOMAIN fetches' :
            i + 1 \in DOMAIN fetches /\ 1 < i + 1 /\ fetches'[i] = fetches[i + 1]
  BY <1>5, CompletedFetch DEF ReportsInv
<1>7. stats.age \in 0 .. MaxDelay /\ stats.counts \in [Keys -> 0 .. MaxCount]
  BY DEF Stats
<1>8. TypeInv'
  <2>1. last_sent' \in [Keys -> Known]
    <3>1. stats.age \in 0 .. Old
      BY <1>7, ReportsAssumption DEF Old
    <3>2. \A k \in Keys : [count |-> stats.counts[k], age |-> stats.age] \in Known
      BY <1>7, <3>1 DEF Known
    <3> QED
      BY <1>1, <3>2 DEF ReportsInv, TypeInv
  <2>2. losses' \in 0 .. MaxLosses
    BY <1>5, ReportsAssumption DEF ReportsInv, TypeInv, Loses
  <2>3. frames' \subseteq Updates /\ missed' \subseteq Keys
    BY <1>2, <1>3 DEF ReportsInv, TypeInv
  <2> QED
    BY <1>5, <1>6, <2>1, <2>2, <2>3 DEF ReportsInv, TypeInv, agent
<1>9. /\ \A u \in frames : stats.age < u.age /\ u.age \in Nat
      /\ \A i \in DOMAIN fetches' : \A r \in fetches'[i].state : r.age < stats.age
  <2>1. \A u \in frames : stats.age < u.age
    BY <1>1, <1>6 DEF ReportsInv, ReadingsInOrder
  <2>2. \A i \in DOMAIN fetches' : \A r \in fetches'[i].state : r.age < stats.age
    BY <1>1, <1>6 DEF ReportsInv, ReadingsInOrder
  <2> QED
    BY <2>1, <2>2, FramesAreUpdates DEF ReportsInv
<1>10. ReadingsInOrder'
  <2>1. \A i \in DOMAIN fetches' : \A r, q \in fetches'[i].state : r = q
    BY <1>6 DEF ReportsInv, ReadingsInOrder
  <2>2. ASSUME NEW i \in DOMAIN fetches', NEW j \in DOMAIN fetches', i < j
        PROVE  /\ fetches'[j].state # {} => fetches'[i].state # {}
               /\ \A r \in fetches'[i].state, q \in fetches'[j].state : q.age < r.age
    <3>1. i + 1 \in DOMAIN fetches /\ j + 1 \in DOMAIN fetches /\ i + 1 < j + 1
      BY <1>6, <2>2, LenProperties
    <3> QED
      BY <1>6, <3>1 DEF ReportsInv, ReadingsInOrder
  <2>3. \A u \in frames' : \A i \in DOMAIN fetches' : \A r \in fetches'[i].state : r.age < u.age
    <3>1. \A u \in frames : \A i \in DOMAIN fetches' : \A r \in fetches'[i].state : r.age < u.age
      BY <1>6 DEF ReportsInv, ReadingsInOrder
    <3> QED
      BY <1>2, <1>3, <1>9, <3>1
  <2>4. \A u, v \in frames' : u.age = v.age => u = v
    BY <1>2, <1>3, <1>7, <1>9 DEF ReportsInv, ReadingsInOrder
  <2>5. ~read =>
          /\ \A u \in frames' : u.age > 0
          /\ \A i \in DOMAIN fetches' : \A r \in fetches'[i].state : r.age > 0
    BY <1>1, <1>2, <1>3, <1>6 DEF ReportsInv, ReadingsInOrder
  <2> QED
    BY <1>5, <2>1, <2>2, <2>3, <2>4, <2>5 DEF ReadingsInOrder
<1>11. SentIsTold'
  <2> SUFFICES ASSUME NEW k \in Keys, k \notin missed'
               PROVE  Youngest(k, view[k], frames').count = last_sent'[k].count
    BY <1>5 DEF SentIsTold
  <2>1. /\ frames' \in SUBSET Updates /\ \A u, v \in frames' : u.age = v.age => u = v
    BY <1>8, <1>10 DEF TypeInv, ReadingsInOrder
  <2>2. CASE k \in kept
    <3>1. ~lost /\ new \in frames'
      BY <1>3, <2>2
    <3>2. IsYoungest(new, k, frames')
      <4>1. \A v \in frames' : new.age <= v.age
        BY <1>2, <1>3, <1>7, <1>9, <3>1
      <4> QED
        BY <1>2, <2>2, <3>1, <4>1 DEF IsYoungest, About
    <3>3. Youngest(k, view[k], frames').count = new.counts[k]
      BY <2>1, <3>2, YoungestIsIt
    <3>4. last_sent'[k] = [count |-> stats.counts[k], age |-> stats.age]
      BY <1>3, <2>2
    <3>5. new.counts[k] = stats.counts[k]
      BY <1>2, <2>2
    <3> QED
      BY <3>3, <3>4, <3>5
  <2>3. CASE k \notin kept
    <3>1. k \notin missed /\ last_sent'[k] = last_sent[k]
      BY <1>3, <2>3
    <3>2. {u \in frames' : k \in DOMAIN u.counts} = {u \in frames : k \in DOMAIN u.counts}
      BY <1>2, <1>3, <2>3
    <3>3. Youngest(k, view[k], frames') = Youngest(k, view[k], frames)
      BY <3>2 DEF Youngest
    <3> QED
      BY <3>1, <3>3 DEF ReportsInv, SentIsTold
  <2> QED
    BY <2>2, <2>3
<1>12. ReadIsSent'
  <2> SUFFICES ASSUME NEW k \in Keys, k[1] \in stats.models
               PROVE  stats.counts[k] = last_sent'[k].count
    BY <1>1 DEF ReadIsSent
  <2>1. CASE k \in kept
    <3>1. last_sent'[k] = [count |-> stats.counts[k], age |-> stats.age]
      BY <1>3, <2>1
    <3> QED
      BY <3>1
  <2>2. CASE k \notin kept
    BY <1>3, <1>4, <2>2
  <2> QED
    BY <2>1, <2>2
<1> QED
  BY <1>8, <1>10, <1>11, <1>12 DEF ReportsInv

(* The notifier drains its frames: what they say is known, or is missed. *)
LEMMA NotifyStep ==
    ASSUME ReportsInv, NEW lost \in BOOLEAN, Notify(lost)
    PROVE  ReportsInv'
<1>1. /\ frames' = {} /\ Loses(lost)
      /\ UNCHANGED <<agent, due, fetches, read, last_sent, reading>>
      /\ lost => /\ missed' = missed \cup UNION {DOMAIN u.counts : u \in frames}
                 /\ view' = view
      /\ ~lost => /\ view' = [k \in Keys |-> Youngest(k, view[k], frames)]
                  /\ missed' = missed
  BY DEF Notify
<1>2. frames \in SUBSET Updates /\ \A u, v \in frames : u.age = v.age => u = v
  BY DEF ReportsInv, TypeInv, ReadingsInOrder
<1>3. ASSUME NEW k \in Keys
      PROVE  Youngest(k, view[k], frames) \in Known
  <2>1. CASE About(k, frames) = {}
    <3>1. Youngest(k, view[k], frames) = view[k]
      BY <1>2, <2>1, YoungestIsIt
    <3> QED
      BY <3>1 DEF ReportsInv, TypeInv
  <2>2. CASE About(k, frames) # {}
    <3>1. PICK u \in frames : IsYoungest(u, k, frames)
      BY <1>2, <2>2, YoungestExists
    <3>2. Youngest(k, view[k], frames) = [count |-> u.counts[k], age |-> u.age]
      BY <1>2, <3>1, YoungestIsIt
    <3>3. u \in Updates /\ k \in DOMAIN u.counts
      BY <1>2, <3>1 DEF IsYoungest, About
    <3>4. u.counts[k] \in 0 .. MaxCount /\ u.age \in 0 .. Old
      BY <3>3, ReportsAssumption DEF Updates, CountMaps, Old
    <3> QED
      BY <3>2, <3>4 DEF Known
  <2> QED
    BY <2>1, <2>2
<1>4. view' \in [Keys -> Known]
  BY <1>1, <1>3 DEF ReportsInv, TypeInv
<1>5. missed' \subseteq Keys
  <2>1. \A u \in frames : DOMAIN u.counts \subseteq Keys
    BY <1>2 DEF Updates, CountMaps
  <2> QED
    BY <1>1, <2>1 DEF ReportsInv, TypeInv
<1>6. losses' \in 0 .. MaxLosses
  BY <1>1, ReportsAssumption DEF ReportsInv, TypeInv, Loses
<1>7. TypeInv'
  BY <1>1, <1>4, <1>5, <1>6 DEF ReportsInv, TypeInv, agent
<1>8. ReadingsInOrder'
  BY <1>1 DEF ReportsInv, ReadingsInOrder
<1>9. SentIsTold'
  <2> SUFFICES ASSUME NEW k \in Keys, k \notin missed'
               PROVE  Youngest(k, view'[k], {}).count = last_sent[k].count
    BY <1>1 DEF SentIsTold
  <2>1. Youngest(k, view'[k], {}) = view'[k]
    BY DEF Youngest
  <2>2. k \notin missed
    BY <1>1
  <2>3. view'[k] = Youngest(k, view[k], frames)
    <3>1. CASE lost
      <4>1. {u \in frames : k \in DOMAIN u.counts} = {}
        BY <1>1, <3>1
      <4> QED
        BY <1>1, <3>1, <4>1 DEF Youngest
    <3>2. CASE ~lost
      BY <1>1, <3>2
    <3> QED
      BY <3>1, <3>2
  <2> QED
    BY <2>1, <2>2, <2>3 DEF ReportsInv, SentIsTold
<1>10. ReadIsSent'
  BY <1>1 DEF ReportsInv, ReadIsSent
<1> QED
  BY <1>7, <1>8, <1>9, <1>10 DEF ReportsInv

-----------------------------------------------------------------------------
(* The invariant of the updates. *)

LEMMA ReportsInit == Init => ReportsInv
<1> SUFFICES ASSUME Init
             PROVE  ReportsInv
  OBVIOUS
<1> USE DEF Init
<1>1. TypeInv
  <2>1. bots \in [Keys -> 0 .. MaxCount] /\ losses \in 0 .. MaxLosses
    BY ReportsAssumption DEF NoBots
  <2>2. last_sent \in [Keys -> Known] /\ view \in [Keys -> Known]
    BY NeverIsKnown
  <2>3. fetches \in Seq(Fetches) /\ Len(fetches) <= MaxFetches
    BY ReportsAssumption
  <2> QED
    BY <2>1, <2>2, <2>3 DEF TypeInv
<1>2. DOMAIN fetches = {}
  OBVIOUS
<1>3. ReadingsInOrder
  BY <1>2 DEF ReadingsInOrder
<1>4. SentIsTold
  BY DEF SentIsTold, Youngest
<1>5. ReadIsSent
  BY DEF ReadIsSent
<1> QED
  BY <1>1, <1>3, <1>4, <1>5 DEF ReportsInv

LEMMA ReportsNext == ReportsInv /\ [Next]_vars => ReportsInv'
<1> SUFFICES ASSUME ReportsInv, [Next]_vars
             PROVE  ReportsInv'
  OBVIOUS
<1>1. ASSUME NEW k \in Keys, BotsChange(k)
      PROVE  ReportsInv'
  <2>1. TypeInv'
    BY <1>1 DEF BotsChange, ReportsInv, TypeInv, history
  <2> QED
    BY <1>1, <2>1, QuietStep DEF BotsChange, ReportsInv
<1>2. CASE ModelsChange
  <2>1. TypeInv'
    BY <1>2, ReportsAssumption DEF ModelsChange, ReportsInv, TypeInv, history, NoBots
  <2> QED
    BY <1>2, <2>1, QuietStep DEF ModelsChange, ReportsInv
<1>3. ASSUME NEW p \in Snapshots, AddSnapshot(p)
      PROVE  ReportsInv'
  <2>1. TypeInv'
    BY <1>3 DEF AddSnapshot, ReportsInv, TypeInv, history
  <2> QED
    BY <1>3, <2>1, QuietStep DEF AddSnapshot, ReportsInv
<1>4. CASE TimePasses
  BY <1>4, TimeStep
<1>5. CASE send_data
  BY <1>5, SendDataStep
<1>6. ASSUME NEW i \in DOMAIN fetches, FetchActionMetrics(i)
      PROVE  ReportsInv'
  <2>1. UNCHANGED <<read, last_sent, frames, view, history>>
    BY <1>6 DEF FetchActionMetrics
  <2>2. /\ TypeInv' /\ DOMAIN fetches' = DOMAIN fetches
        /\ \A j \in DOMAIN fetches : fetches'[j].state = fetches[j].state
    BY <1>6, MetricsAnswer DEF ReportsInv
  <2> QED
    BY <2>1, <2>2, QuietStep
<1>7. ASSUME NEW i \in DOMAIN fetches, FetchSimulationStats(i)
      PROVE  ReportsInv'
  BY <1>7, SimulationAnswers
<1>8. ASSUME NEW lost \in BOOLEAN, Complete(lost)
      PROVE  ReportsInv'
  BY <1>8, CompleteStep
<1>9. ASSUME NEW lost \in BOOLEAN, Notify(lost)
      PROVE  ReportsInv'
  BY <1>9, NotifyStep
<1>10. CASE UNCHANGED vars
  <2>1. TypeInv'
    BY <1>10 DEF vars, ReportsInv, TypeInv, agent, history
  <2> QED
    BY <1>10, <2>1, QuietStep DEF vars
<1> QED
  BY <1>1, <1>2, <1>3, <1>4, <1>5, <1>6, <1>7, <1>8, <1>9, <1>10 DEF Next

LEMMA ReportsAlways == Spec => []ReportsInv
BY ReportsInit, ReportsNext, PTL DEF Spec

(***************************************************************************)
(* Every variable has its type.                                            *)
(***************************************************************************)
THEOREM ReportsTypes == Spec => []TypeOK
<1>1. ReportsInv => TypeOK
  <2> SUFFICES ASSUME TypeInv
               PROVE  TypeOK
    BY DEF ReportsInv
  <2>1. \A i \in DOMAIN fetches :
           fetches[i].perf \subseteq SUBSET Snapshots /\ fetches[i].state \subseteq Stats
    BY FetchesAreRecords DEF Fetches
  <2>2. \A u \in frames :
          /\ u.age \in 0 .. MaxDelay
          /\ u.counts \in [DOMAIN u.counts -> 0 .. MaxCount] /\ DOMAIN u.counts \subseteq Keys
          /\ u.perf \subseteq Snapshots
    BY FramesAreUpdates DEF Updates, CountMaps
  <2> QED
    BY <2>1, <2>2 DEF TypeInv, TypeOK
<1> QED
  BY <1>1, ReportsAlways, PTL

(***************************************************************************)
(* Of each state of a model in the last reading, the youngest count that   *)
(* the controller has or will get is the one read, unless it was lost:     *)
(* update_simulation_stats leaves out only what can be told from former    *)
(* updates.                                                                *)
(***************************************************************************)
THEOREM LeftOutCountsCanBeTold == Spec => []DeltasAddUp
<1>1. ReportsInv => DeltasAddUp
  BY DEF ReportsInv, SentIsTold, ReadIsSent, DeltasAddUp
<1> QED
  BY <1>1, ReportsAlways, PTL

-----------------------------------------------------------------------------
(* The actions keep every snapshot in one place. *)

LEMMA PlacesStay ==
    ASSUME PlacesInv,
           DOMAIN fetches' = DOMAIN fetches,
           \A i \in DOMAIN fetches : fetches'[i].perf = fetches[i].perf,
           UNCHANGED <<ring, arrived, frames>>
    PROVE  PlacesInv'
BY DEF PlacesInv, OnePlace, InFetch, InFrame

LEMMA PlacesWithTime ==
    ASSUME TypeInv, PlacesInv, TimePasses
    PROVE  PlacesInv'
<1>1. /\ \A w \in frames' : \E u \in frames : w = Aged(u) /\ Aged(u).perf = u.perf
      /\ DOMAIN fetches' = DOMAIN fetches
      /\ \A i \in DOMAIN fetches : fetches'[i].perf = fetches[i].perf
  BY TimeOnTheWay
<1>2. ring' = ring /\ arrived' = arrived
  BY DEF TimePasses, agent
<1> SUFFICES ASSUME NEW p \in Snapshots
             PROVE  OnePlace(p)'
  BY <1>2 DEF PlacesInv
<1>3. \A w \in frames' : InFrame(p, w) => \E u \in frames : w = Aged(u) /\ InFrame(p, u)
  BY <1>1 DEF InFrame
<1>4. \A i \in DOMAIN fetches : InFetch(p, i)' <=> InFetch(p, i)
  BY <1>1 DEF InFetch
<1>5. OnePlace(p)
  BY DEF PlacesInv
<1>6. \A w, v \in frames' : InFrame(p, w) /\ InFrame(p, v) => w = v
  BY <1>3, <1>5 DEF OnePlace
<1>7. \A w \in frames' : InFrame(p, w) =>
         arrived[p] = 0 /\ p \notin ring /\ \A i \in DOMAIN fetches : ~InFetch(p, i)
  BY <1>3, <1>5 DEF OnePlace
<1> QED
  BY <1>1, <1>2, <1>4, <1>5, <1>6, <1>7 DEF OnePlace, InFetch, InFrame

LEMMA PlacesWithFetch ==
    ASSUME TypeInv, PlacesInv, send_data
    PROVE  PlacesInv'
<1>1. /\ Len(fetches) < MaxFetches /\ fetches' = Append(fetches, Fetch)
      /\ UNCHANGED <<ring, arrived, frames>>
  BY DEF send_data, agent
<1>2. \A i \in DOMAIN fetches' :
         \/ i \in DOMAIN fetches /\ fetches'[i] = fetches[i]
         \/ fetches'[i] = Fetch
  BY <1>1, AwaitedFetch
<1>3. \A p \in Snapshots : p \notin UNION Fetch.perf
  BY DEF Fetch, NoAnswer
<1> SUFFICES ASSUME NEW p \in Snapshots
             PROVE  OnePlace(p)'
  BY <1>1 DEF PlacesInv
<1>4. \A i \in DOMAIN fetches' : InFetch(p, i)' => i \in DOMAIN fetches /\ InFetch(p, i)
  BY <1>2, <1>3 DEF InFetch
<1>5. OnePlace(p)
  BY DEF PlacesInv
<1> QED
  BY <1>1, <1>4, <1>5 DEF OnePlace, InFetch, InFrame

LEMMA PlacesWithAnswer ==
    ASSUME TypeInv, PlacesInv, NEW i \in DOMAIN fetches, FetchActionMetrics(i)
    PROVE  PlacesInv'
<1>1. /\ ring' = {} /\ DOMAIN fetches' = DOMAIN fetches
      /\ \A j \in DOMAIN fetches :
            fetches'[j].perf = IF j = i THEN {ring} ELSE fetches[j].perf
  BY MetricsAnswer
<1>2. UNCHANGED <<arrived, frames>>
  BY DEF FetchActionMetrics
<1> SUFFICES ASSUME NEW p \in Snapshots
             PROVE  OnePlace(p)'
  BY <1>2 DEF PlacesInv
<1>3. /\ InFetch(p, i)' <=> p \in ring
      /\ \A j \in DOMAIN fetches : j # i => (InFetch(p, j)' <=> InFetch(p, j))
  BY <1>1 DEF InFetch
<1> QED
  BY <1>1, <1>2, <1>3 DEF PlacesInv, OnePlace, InFetch, InFrame

LEMMA PlacesWithSnapshot ==
    ASSUME PlacesInv, NEW p \in Snapshots, AddSnapshot(p)
    PROVE  PlacesInv'
<1>1. /\ arrived[p] = 0 /\ \A i \in DOMAIN fetches : ~InFetch(p, i)
      /\ \A u \in frames : ~InFrame(p, u)
      /\ ring' = ring \cup {p} /\ UNCHANGED <<fetches, frames, arrived>>
  BY DEF AddSnapshot, InFetches, InFetch, InFrame
<1> QED
  BY <1>1 DEF PlacesInv, OnePlace, InFetch, InFrame

LEMMA PlacesWithUpdate ==
    ASSUME TypeInv, PlacesInv, NEW lost \in BOOLEAN, Complete(lost)
    PROVE  PlacesInv'
<1>1. PICK stats \in Stats, perf \in SUBSET Snapshots :
        /\ perf \in fetches[1].perf
        /\ frames' = IF lost THEN frames ELSE frames \cup {Update(stats, perf)}
  BY CompleteFacts
<1>2. /\ fetches # <<>> /\ fetches' = Tail(fetches)
      /\ UNCHANGED <<ring, arrived>>
  BY DEF Complete, agent
<1>3. /\ 1 \in DOMAIN fetches
      /\ \A i \in DOMAIN fetches' :
            i + 1 \in DOMAIN fetches /\ 1 < i + 1 /\ fetches'[i] = fetches[i + 1]
  BY <1>2, CompletedFetch
<1> SUFFICES ASSUME NEW p \in Snapshots
             PROVE  OnePlace(p)'
  BY <1>2 DEF PlacesInv
<1>4. OnePlace(p)
  BY DEF PlacesInv
<1>5. \A i \in DOMAIN fetches' : InFetch(p, i)' =>
         i \in Int /\ i + 1 \in DOMAIN fetches /\ i + 1 # 1 /\ InFetch(p, i + 1)
  <2>1. \A i \in DOMAIN fetches' : i \in Int
    BY <1>2, CompletedFetch, LenProperties
  <2> QED
    BY <1>3, <2>1 DEF InFetch
<1>6. \A u \in frames' : InFrame(p, u) =>
         u \in frames \/ (u = Update(stats, perf) /\ InFetch(p, 1))
  BY <1>1, UpdateOfReading DEF InFrame, InFetch
<1>7. \A u, v \in frames' : InFrame(p, u) /\ InFrame(p, v) => u = v
  BY <1>3, <1>4, <1>6 DEF OnePlace
<1>8. \A i, j \in DOMAIN fetches' : InFetch(p, i)' /\ InFetch(p, j)' => i = j
  <2> SUFFICES ASSUME NEW i \in DOMAIN fetches', NEW j \in DOMAIN fetches',
                      InFetch(p, i)', InFetch(p, j)'
               PROVE  i = j
    OBVIOUS
  <2>1. i + 1 = j + 1
    BY <1>4, <1>5 DEF OnePlace
  <2> QED
    BY <1>5, <2>1
<1>9. \A u \in frames' : InFrame(p, u) =>
         arrived[p] = 0 /\ p \notin ring /\ \A i \in DOMAIN fetches' : ~InFetch(p, i)'
  BY <1>3, <1>4, <1>5, <1>6 DEF OnePlace
<1>10. \A i \in DOMAIN fetches' : InFetch(p, i)' => arrived[p] = 0 /\ p \notin ring
  BY <1>4, <1>5 DEF OnePlace
<1> QED
  BY <1>2, <1>4, <1>7, <1>8, <1>9, <1>10 DEF OnePlace, InFetch, InFrame

(* Of no two things that share a property there are at most one. *)
LEMMA AtMostOne ==
    ASSUME NEW S, \A x, y \in S : x = y
    PROVE  \/ S = {} /\ Cardinality(S) = 0
           \/ S # {} /\ Cardinality(S) = 1
<1>1. CASE S = {}
  BY <1>1, FS_EmptySet
<1>2. CASE S # {}
  <2>1. PICK x \in S : S = {x}
    BY <1>2
  <2> QED
    BY <1>2, <2>1, FS_Singleton
<1> QED
  BY <1>1, <1>2

LEMMA PlacesWithMessage ==
    ASSUME PlacesInv, NEW lost \in BOOLEAN, Notify(lost)
    PROVE  PlacesInv'
<1>1. /\ frames' = {} /\ UNCHANGED <<ring, fetches>>
      /\ lost => arrived' = arrived
      /\ ~lost => arrived' = [p \in Snapshots |->
                      arrived[p] + Cardinality({u \in frames : p \in u.perf})]
  BY DEF Notify, agent
<1>2. ASSUME NEW p \in Snapshots
      PROVE  /\ arrived'[p] = arrived[p] \/ (arrived'[p] = 1 /\ \E u \in frames : InFrame(p, u))
             /\ arrived'[p] \in {0, 1} /\ OnePlace(p)
  <2>1. OnePlace(p) /\ arrived[p] \in {0, 1}
    BY DEF PlacesInv
  <2> DEFINE here == {u \in frames : p \in u.perf}
  <2>2. \/ here = {} /\ Cardinality(here) = 0
        \/ here # {} /\ Cardinality(here) = 1
    <3>1. \A u, v \in here : u = v
      BY <2>1 DEF OnePlace, InFrame
    <3> HIDE DEF here
    <3> QED
      BY <3>1, AtMostOne
  <2>3. here # {} => arrived[p] = 0 /\ \E u \in frames : InFrame(p, u)
    BY <2>1 DEF OnePlace, InFrame
  <2>4. arrived'[p] = arrived[p] \/ arrived'[p] = arrived[p] + Cardinality(here)
    BY <1>1
  <2> HIDE DEF here
  <2> QED
    BY <2>1, <2>2, <2>3, <2>4
<1>3. arrived' \in [Snapshots -> {0, 1}]
  <2>1. CASE lost
    BY <1>1, <2>1 DEF PlacesInv
  <2>2. CASE ~lost
    <3>1. DOMAIN arrived' = Snapshots
      BY <1>1, <2>2
    <3>2. arrived' = [p \in Snapshots |-> arrived'[p]]
      BY <1>1, <2>2
    <3> QED
      BY <1>2, <3>2
  <2> QED
    BY <2>1, <2>2
<1>4. ASSUME NEW p \in Snapshots
      PROVE  OnePlace(p)'
  BY <1>1, <1>2, <1>4 DEF OnePlace, InFetch, InFrame
<1> QED
  BY <1>3, <1>4 DEF PlacesInv

LEMMA PlacesNext == TypeInv /\ PlacesInv /\ [Next]_vars => PlacesInv'
<1> SUFFICES ASSUME TypeInv, PlacesInv, [Next]_vars
             PROVE  PlacesInv'
  OBVIOUS
<1>1. ASSUME NEW k \in Keys, BotsChange(k)
      PROVE  PlacesInv'
  BY <1>1, PlacesStay DEF BotsChange
<1>2. CASE ModelsChange
  BY <1>2, PlacesStay DEF ModelsChange
<1>3. ASSUME NEW p \in Snapshots, AddSnapshot(p)
      PROVE  PlacesInv'
  BY <1>3, PlacesWithSnapshot
<1>4. CASE TimePasses
  BY <1>4, PlacesWithTime
<1>5. CASE send_data
  BY <1>5, PlacesWithFetch
<1>6. ASSUME NEW i \in DOMAIN fetches, FetchActionMetrics(i)
      PROVE  PlacesInv'
  BY <1>6, PlacesWithAnswer
<1>7. ASSUME NEW i \in DOMAIN fetches, FetchSimulationStats(i)
      PROVE  PlacesInv'
  <2>1. UNCHANGED <<ring, arrived, frames>>
    BY <1>7 DEF FetchSimulationStats, agent
  <2>2. fetches' = [fetches EXCEPT ![i].state = {[models |-> models, counts |-> bots, age |-> 0]}]
    BY <1>7 DEF FetchSimulationStats
  <2>3. \A j \in DOMAIN fetches : fetches[j] \in Fetches
    BY FetchesAreRecords
  <2>4. /\ DOMAIN fetches' = DOMAIN fetches
        /\ \A j \in DOMAIN fetches : fetches'[j].perf = fetches[j].perf
    BY <2>2, <2>3 DEF Fetches
  <2> QED
    BY <2>1, <2>4, PlacesStay
<1>8. ASSUME NEW lost \in BOOLEAN, Complete(lost)
      PROVE  PlacesInv'
  BY <1>8, PlacesWithUpdate
<1>9. ASSUME NEW lost \in BOOLEAN, Notify(lost)
      PROVE  PlacesInv'
  BY <1>9, PlacesWithMessage
<1>10. CASE UNCHANGED vars
  BY <1>10, PlacesStay DEF vars, agent
<1> QED
  BY <1>1, <1>2, <1>3, <1>4, <1>5, <1>6, <1>7, <1>8, <1>9, <1>10 DEF Next

(***************************************************************************)
(* A snapshot of performance is in the rings, in one answer or in one      *)
(* frame at a time, and comes to the controller at most once: FetchMetrics *)
(* takes what it gives from the rings, the core takes the answers from its *)
(* fetch, and the notifier drains its frames.                              *)
(***************************************************************************)
THEOREM NoSnapshotTwice == Spec => []SnapshotsComeOnce
<1>1. Init => PlacesInv
  BY DEF Init, PlacesInv, OnePlace, InFetch, InFrame
<1>2. TypeInv /\ PlacesInv /\ [Next]_vars => PlacesInv'
  BY PlacesNext
<1>3. ReportsInv => TypeInv
  BY DEF ReportsInv
<1>4. PlacesInv => SnapshotsComeOnce
  <2> SUFFICES ASSUME PlacesInv, NEW p \in Snapshots
               PROVE  arrived[p] + Cardinality({i \in DOMAIN fetches : p \in UNION fetches[i].perf})
                        + Cardinality({u \in frames : p \in u.perf})
                        + (IF p \in ring THEN 1 ELSE 0) <= 1
    BY DEF SnapshotsComeOnce
  <2> DEFINE answers == {i \in DOMAIN fetches : p \in UNION fetches[i].perf}
             updates == {u \in frames : p \in u.perf}
  <2>1. OnePlace(p) /\ arrived[p] \in {0, 1}
    BY DEF PlacesInv
  <2>2. \A i, j \in answers : i = j
    BY <2>1 DEF OnePlace, InFetch
  <2>3. \A u, v \in updates : u = v
    BY <2>1 DEF OnePlace, InFrame
  <2>4. /\ answers # {} => arrived[p] = 0 /\ p \notin ring
        /\ updates # {} => arrived[p] = 0 /\ p \notin ring /\ answers = {}
        /\ arrived[p] = 1 => p \notin ring
    BY <2>1 DEF OnePlace, InFetch, InFrame
  <2> HIDE DEF answers, updates
  <2>5. /\ \/ answers = {} /\ Cardinality(answers) = 0
           \/ answers # {} /\ Cardinality(answers) = 1
        /\ \/ updates = {} /\ Cardinality(updates) = 0
           \/ updates # {} /\ Cardinality(updates) = 1
    BY <2>2, <2>3, AtMostOne
  <2>6. arrived[p] + Cardinality(answers) + Cardinality(updates) + (IF p \in ring THEN 1 ELSE 0) <= 1
    BY <2>1, <2>4, <2>5
  <2> QED
    BY <2>6 DEF answers, updates
<1> QED
  BY <1>1, <1>2, <1>3, <1>4, ReportsAlways, PTL DEF Spec
=============================================================================
