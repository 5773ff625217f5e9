--------------------------- MODULE Upstream_proofs ---------------------------
(***************************************************************************)
(* The theorems of Upstream: the actor never has two streams or attempts,  *)
(* and the core gets the parent's commands in order and once, over any     *)
(* number of breaks and reconnections, with a channel of any capacity.     *)
(***************************************************************************)
EXTENDS Upstream, SequenceTheorems, TLAPS

Numbers == 1 .. MaxCommands

Increasing(s) == \A i, j \in DOMAIN s : i < j => s[i] < s[j]

(* Every element of s comes before every element of t. *)
Before(s, t) == \A i \in DOMAIN s, j \in DOMAIN t : s[i] < t[j]

UpTo(s, n) == \A i \in DOMAIN s : s[i] <= n

-----------------------------------------------------------------------------
(* Sequences of numbers. *)

LEMMA ConcatIncreasing ==
    ASSUME NEW s \in Seq(Int), NEW t \in Seq(Int)
    PROVE  Increasing(s \o t) <=> Increasing(s) /\ Increasing(t) /\ Before(s, t)
<1> DEFINE all == s \o t
           m == Len(s)
           n == Len(t)
<1>1. /\ m \in Nat /\ n \in Nat
      /\ DOMAIN s = 1 .. m /\ DOMAIN t = 1 .. n /\ DOMAIN all = 1 .. (m + n)
      /\ \A i \in 1 .. m : all[i] = s[i]
      /\ \A i \in 1 .. n : all[m + i] = t[i]
  OBVIOUS
<1>2. \A i \in 1 .. (m + n) : i \in 1 .. m \/ \E k \in 1 .. n : i = m + k
  <2> TAKE i \in 1 .. (m + n)
  <2> CASE i > m
    <3>1. i - m \in 1 .. n /\ i = m + (i - m)
      BY <1>1
    <3> QED
      BY <3>1
  <2> CASE i <= m
    BY <1>1
  <2> QED
    BY <1>1
<1> HIDE DEF all, m, n
<1>3. ASSUME Increasing(all)
      PROVE  Increasing(s) /\ Increasing(t) /\ Before(s, t)
  <2>1. \A i, j \in 1 .. m : i < j => s[i] < s[j]
    <3> TAKE i, j \in 1 .. m
    <3>1. i \in 1 .. (m + n) /\ j \in 1 .. (m + n)
      BY <1>1
    <3> QED
      BY <1>1, <1>3, <3>1 DEF Increasing
  <2>2. \A i, j \in 1 .. n : i < j => t[i] < t[j]
    <3> TAKE i, j \in 1 .. n
    <3>1. m + i \in 1 .. (m + n) /\ m + j \in 1 .. (m + n) /\ (i < j => m + i < m + j)
      BY <1>1
    <3> QED
      BY <1>1, <1>3, <3>1 DEF Increasing
  <2>3. \A i \in 1 .. m, j \in 1 .. n : s[i] < t[j]
    <3> TAKE i \in 1 .. m, j \in 1 .. n
    <3>1. i \in 1 .. (m + n) /\ m + j \in 1 .. (m + n) /\ i < m + j
      BY <1>1
    <3> QED
      BY <1>1, <1>3, <3>1 DEF Increasing
  <2> QED
    BY <1>1, <2>1, <2>2, <2>3 DEF Increasing, Before
<1>4. ASSUME Increasing(s) /\ Increasing(t) /\ Before(s, t)
      PROVE  Increasing(all)
  <2> SUFFICES ASSUME NEW i \in 1 .. (m + n), NEW j \in 1 .. (m + n), i < j
               PROVE  all[i] < all[j]
    BY <1>1 DEF Increasing
  <2>1. CASE i \in 1 .. m /\ j \in 1 .. m
    BY <1>1, <1>4, <2>1 DEF Increasing
  <2>2. ASSUME i \in 1 .. m, NEW k \in 1 .. n, j = m + k
        PROVE  all[i] < all[j]
    BY <1>1, <1>4, <2>2 DEF Before
  <2>3. ASSUME NEW h \in 1 .. n, i = m + h, NEW k \in 1 .. n, j = m + k
        PROVE  all[i] < all[j]
    <3>1. h < k
      BY <1>1, <2>3
    <3> QED
      BY <1>1, <1>4, <2>3, <3>1 DEF Increasing
  <2>4. ~ (j \in 1 .. m /\ i \notin 1 .. m)
    BY <1>1
  <2> QED
    BY <1>2, <2>1, <2>2, <2>3, <2>4
<1> QED
  BY <1>3, <1>4 DEF all

(* The history, the channel and the wire, one after the other. *)
LEMMA ThreeIncreasing ==
    ASSUME NEW s \in Seq(Int), NEW t \in Seq(Int), NEW u \in Seq(Int)
    PROVE  Increasing(s \o t \o u) <=>
              /\ Increasing(s) /\ Increasing(t) /\ Increasing(u)
              /\ Before(s, t) /\ Before(s, u) /\ Before(t, u)
<1>1. s \o t \in Seq(Int)
  OBVIOUS
<1>2. Before(s \o t, u) <=> Before(s, u) /\ Before(t, u)
  <2>1. /\ Len(s) \in Nat /\ Len(t) \in Nat
        /\ DOMAIN s = 1 .. Len(s) /\ DOMAIN t = 1 .. Len(t)
        /\ DOMAIN (s \o t) = 1 .. (Len(s) + Len(t))
        /\ \A i \in 1 .. Len(s) : (s \o t)[i] = s[i]
        /\ \A i \in 1 .. Len(t) : (s \o t)[Len(s) + i] = t[i]
    OBVIOUS
  <2>2. \A i \in 1 .. Len(t) : Len(s) + i \in DOMAIN (s \o t)
    BY <2>1
  <2>3. \A i \in DOMAIN (s \o t) :
           i \in DOMAIN s \/ (i - Len(s) \in DOMAIN t /\ (s \o t)[i] = t[i - Len(s)])
    BY <2>1
  <2>4. DOMAIN s \subseteq DOMAIN (s \o t)
    BY <2>1
  <2>5. Before(s, u) /\ Before(t, u) => Before(s \o t, u)
    BY <2>1, <2>3 DEF Before
  <2>6. Before(s \o t, u) => Before(s, u)
    BY <2>1, <2>4 DEF Before
  <2>7. Before(s \o t, u) => Before(t, u)
    <3> HAVE Before(s \o t, u)
    <3> SUFFICES ASSUME NEW i \in DOMAIN t, NEW j \in DOMAIN u PROVE t[i] < u[j]
      BY DEF Before
    <3>1. (s \o t)[Len(s) + i] < u[j]
      BY <2>1, <2>2 DEF Before
    <3> QED
      BY <2>1, <3>1
  <2> QED
    BY <2>5, <2>6, <2>7
<1> QED
  BY <1>1, <1>2, ConcatIncreasing

LEMMA TailInOrder ==
    ASSUME NEW s \in Seq(Int), s # <<>>
    PROVE  /\ Increasing(s) => Increasing(Tail(s)) /\ Before(<<Head(s)>>, Tail(s))
           /\ \A t : Before(t, s) => Before(t, Tail(s)) /\ Before(t, <<Head(s)>>)
           /\ \A t : Before(s, t) => Before(Tail(s), t) /\ Before(<<Head(s)>>, t)
<1>1. /\ Len(s) \in Nat \ {0} /\ DOMAIN s = 1 .. Len(s)
      /\ DOMAIN Tail(s) = 1 .. (Len(s) - 1)
      /\ \A i \in 1 .. (Len(s) - 1) : Tail(s)[i] = s[i + 1]
      /\ Head(s) = s[1]
      /\ DOMAIN <<Head(s)>> = {1} /\ <<Head(s)>>[1] = Head(s)
  OBVIOUS
<1>2. 1 \in DOMAIN s /\ \A i \in DOMAIN Tail(s) : i + 1 \in DOMAIN s
  BY <1>1
<1>3. ASSUME Increasing(s)
      PROVE  Increasing(Tail(s)) /\ Before(<<Head(s)>>, Tail(s))
  <2>1. ASSUME NEW i \in DOMAIN Tail(s), NEW j \in DOMAIN Tail(s), i < j
        PROVE  Tail(s)[i] < Tail(s)[j]
    <3>1. i + 1 \in DOMAIN s /\ j + 1 \in DOMAIN s /\ i + 1 < j + 1
      BY <1>1, <1>2, <2>1
    <3> QED
      BY <1>1, <1>3, <3>1 DEF Increasing
  <2>2. ASSUME NEW j \in DOMAIN Tail(s)
        PROVE  Head(s) < Tail(s)[j]
    <3>1. j + 1 \in DOMAIN s /\ 1 < j + 1
      BY <1>1, <1>2
    <3>2. s[1] < s[j + 1]
      BY <1>2, <1>3, <3>1 DEF Increasing
    <3>3. Tail(s)[j] = s[j + 1] /\ Head(s) = s[1]
      BY <1>1
    <3> QED
      BY <3>2, <3>3
  <2> QED
    BY <1>1, <2>1, <2>2 DEF Increasing, Before
<1>4. ASSUME NEW t, Before(t, s)
      PROVE  Before(t, Tail(s)) /\ Before(t, <<Head(s)>>)
  BY <1>1, <1>2, <1>4 DEF Before
<1>5. ASSUME NEW t, Before(s, t)
      PROVE  Before(Tail(s), t) /\ Before(<<Head(s)>>, t)
  BY <1>1, <1>2, <1>5 DEF Before
<1> QED
  BY <1>3, <1>4, <1>5

LEMMA AppendedInOrder ==
    ASSUME NEW s \in Seq(Int), NEW e \in Int
    PROVE  /\ Increasing(s) /\ Before(s, <<e>>) => Increasing(Append(s, e))
           /\ \A t : Before(t, s) /\ Before(t, <<e>>) => Before(t, Append(s, e))
           /\ \A t : Before(s, t) /\ Before(<<e>>, t) => Before(Append(s, e), t)
<1>1. /\ Len(s) \in Nat /\ DOMAIN s = 1 .. Len(s)
      /\ DOMAIN Append(s, e) = 1 .. (Len(s) + 1)
      /\ \A i \in 1 .. Len(s) : Append(s, e)[i] = s[i]
      /\ Append(s, e)[Len(s) + 1] = e
      /\ DOMAIN <<e>> = {1} /\ <<e>>[1] = e
  OBVIOUS
<1>2. \A i \in DOMAIN Append(s, e) : i \in DOMAIN s \/ i = Len(s) + 1
  BY <1>1
<1>3. Increasing(s) /\ Before(s, <<e>>) => Increasing(Append(s, e))
  BY <1>1, <1>2 DEF Increasing, Before
<1>4. ASSUME NEW t, Before(t, s), Before(t, <<e>>)
      PROVE  Before(t, Append(s, e))
  BY <1>1, <1>2, <1>4 DEF Before
<1>5. ASSUME NEW t, Before(s, t), Before(<<e>>, t)
      PROVE  Before(Append(s, e), t)
  BY <1>1, <1>2, <1>5 DEF Before
<1> QED
  BY <1>3, <1>4, <1>5

(* The start of a sequence, as much as a break leaves of the wire. *)
LEMMA StartInOrder ==
    ASSUME NEW s \in Seq(Int), NEW n \in 0 .. Len(s)
    PROVE  /\ Increasing(s) => Increasing(SubSeq(s, 1, n))
           /\ \A t : Before(t, s) => Before(t, SubSeq(s, 1, n))
           /\ \A e : UpTo(s, e) => UpTo(SubSeq(s, 1, n), e)
<1>1. /\ DOMAIN s = 1 .. Len(s) /\ Len(s) \in Nat
      /\ DOMAIN SubSeq(s, 1, n) = 1 .. n
      /\ \A i \in 1 .. n : SubSeq(s, 1, n)[i] = s[i]
  OBVIOUS
<1>2. DOMAIN SubSeq(s, 1, n) \subseteq DOMAIN s
  BY <1>1
<1> QED
  BY <1>1, <1>2 DEF Increasing, Before, UpTo

-----------------------------------------------------------------------------
(* The inductive invariant: no command under way is newer than the last one sent. *)

InOrder ==
    /\ Increasing(handled) /\ Increasing(channel) /\ Increasing(wire)
    /\ Before(handled, channel) /\ Before(handled, wire) /\ Before(channel, wire)
    /\ UpTo(handled, sent) /\ UpTo(channel, sent) /\ UpTo(wire, sent)

UpstreamInv == TypeOK /\ OneConnectionAtATime /\ InOrder

LEMMA NumbersAreIntegers ==
    ASSUME TypeOK
    PROVE  wire \in Seq(Int) /\ channel \in Seq(Int) /\ handled \in Seq(Int)
<1>1. Numbers \subseteq Int
  BY UpstreamAssumption DEF Numbers
<1>2. wire \in Seq(Numbers) /\ channel \in Seq(Numbers) /\ handled \in Seq(Numbers)
  BY DEF TypeOK, Numbers
<1> QED
  BY <1>1, <1>2, SeqMonotonic

(***************************************************************************)
(* Over all breaks and reconnections the core gets the parent's commands   *)
(* in the order they were sent, and none of them twice, nor will it from   *)
(* what is on its way.                                                     *)
(***************************************************************************)
CommandsInOrder ==
    LET all == handled \o channel \o wire IN
    \A i, j \in DOMAIN all : i < j => all[i] < all[j]

LEMMA InOrderImplies ==
    ASSUME TypeOK, InOrder
    PROVE  CommandsInOrder
<1>1. Increasing(handled \o channel \o wire)
  BY NumbersAreIntegers, ThreeIncreasing DEF InOrder
<1> QED
  BY <1>1 DEF CommandsInOrder, Increasing

LEMMA InitUpstreamInv == Init => UpstreamInv
<1> SUFFICES ASSUME Init PROVE UpstreamInv
  OBVIOUS
<1>1. TypeOK
  <2>1. request \in [Requesters -> Phases] /\ attempt \in [Requesters -> 0 .. MaxAttempt]
    BY UpstreamAssumption DEF Init, Requesters, Phases
  <2>2. parent \in {"up", "down"} /\ sent \in 0 .. MaxCommands /\ breaks \in 0 .. MaxBreaks
    BY UpstreamAssumption DEF Init
  <2>3. wire = <<>> /\ channel = <<>> /\ handled = <<>> /\ Len(channel) <= Channel
    BY UpstreamAssumption, EmptySeq DEF Init
  <2>4. \A S : <<>> \in Seq(S)
    BY EmptySeq
  <2>5. connection \in {"None", "dummy", "core"} /\ stream \in {"none", "open", "ended"}
        /\ joins \in 0 .. 2
    BY DEF Init
  <2>6. registered \in BOOLEAN /\ reported \in BOOLEAN
    BY Zenon DEF Init
  <2> QED
    BY <2>1, <2>2, <2>3, <2>4, <2>5, <2>6 DEF TypeOK
<1>2. OneConnectionAtATime
  BY DEF Init, OneConnectionAtATime, Trying, Requesters
<1>3. InOrder
  BY DEF Init, InOrder, Increasing, Before, UpTo
<1> QED
  BY <1>1, <1>2, <1>3 DEF UpstreamInv

-----------------------------------------------------------------------------
(* The actions keep it. *)

(* Steps of the handlers that establish a connection: no command moves. *)
LEMMA RequestStep ==
    ASSUME UpstreamInv,
           \/ \E r \in Requesters : Connect(r) \/ Fail(r) \/ TryAgain(r)
           \/ RegisterAtCore \/ Finished
    PROVE  UpstreamInv'
<1>1. TypeOK'
  <2>1. request' \in [Requesters -> Phases] /\ attempt' \in [Requesters -> 0 .. MaxAttempt]
    <3>1. request \in [Requesters -> Phases] /\ attempt \in [Requesters -> 0 .. MaxAttempt]
      BY DEF UpstreamInv, TypeOK
    <3>2. request' \in [Requesters -> Phases]
      <4>1. ASSUME NEW r \in Requesters, Connect(r) \/ Fail(r) \/ TryAgain(r)
            PROVE  request' \in [Requesters -> Phases]
        BY <3>1, <4>1 DEF Connect, Fail, TryAgain, Goes, Phases
      <4>2. CASE RegisterAtCore
        BY <3>1, <4>2 DEF RegisterAtCore, Goes, Requesters, Phases
      <4>3. CASE Finished
        BY <3>1, <4>3 DEF Finished, Goes, Requesters, Phases
      <4> QED
        BY <4>1, <4>2, <4>3
    <3>3. CASE attempt' = attempt
      BY <3>1, <3>2, <3>3
    <3>4. CASE Finished
      BY <3>1, <3>2, <3>4, UpstreamAssumption DEF Finished, Requesters
    <3>5. ASSUME NEW r \in Requesters, TryAgain(r)
          PROVE  attempt' \in [Requesters -> 0 .. MaxAttempt]
      <4> DEFINE next == IF attempt[r] < MaxAttempt THEN attempt[r] + 1 ELSE attempt[r]
      <4>1. next \in 0 .. MaxAttempt
        BY <3>1, UpstreamAssumption
      <4>2. attempt' = [attempt EXCEPT ![r] = next]
        BY <3>5 DEF TryAgain
      <4> QED
        BY <3>1, <4>1, <4>2
    <3> QED
      BY <3>2, <3>3, <3>4, <3>5 DEF Connect, Fail, RegisterAtCore
  <2>2. /\ stream' \in {"none", "open", "ended"} /\ connection' \in {"None", "dummy", "core"}
        /\ registered' \in BOOLEAN
        /\ UNCHANGED <<parent, wire, channel, handled, sent, breaks, joins, reported>>
    BY DEF UpstreamInv, TypeOK, Connect, Fail, TryAgain, RegisterAtCore, Finished
  <2> QED
    BY <2>1, <2>2 DEF UpstreamInv, TypeOK
<1>2. OneConnectionAtATime'
  BY DEF UpstreamInv, OneConnectionAtATime, TypeOK, Connect, Fail, TryAgain, RegisterAtCore,
     Finished, Goes, Requesters, Trying
<1>3. UNCHANGED <<handled, channel, wire, sent>>
  BY DEF Connect, Fail, TryAgain, RegisterAtCore, Finished
<1>4. InOrder'
  BY <1>3 DEF UpstreamInv, InOrder
<1> QED
  BY <1>1, <1>2, <1>4 DEF UpstreamInv

(* A connection takes the place of the former one, and of what was on its wire. *)
LEMMA JoinStep ==
    ASSUME UpstreamInv, NEW r \in Requesters, Join(r)
    PROVE  UpstreamInv'
<1>1. TypeOK'
  <2>1. request' \in [Requesters -> Phases] /\ attempt' \in [Requesters -> 0 .. MaxAttempt]
    BY UpstreamAssumption DEF UpstreamInv, TypeOK, Join, Goes, Requesters, Phases
  <2>2. joins' \in 0 .. 2 /\ wire' \in Seq(1 .. MaxCommands)
    BY EmptySeq DEF UpstreamInv, TypeOK, Join
  <2> QED
    BY <2>1, <2>2 DEF UpstreamInv, TypeOK, Join
<1>2. OneConnectionAtATime'
  BY DEF UpstreamInv, OneConnectionAtATime, TypeOK, Join, Goes, Requesters, Trying
<1>3. InOrder'
  BY DEF UpstreamInv, InOrder, Join, Increasing, Before, UpTo
<1> QED
  BY <1>1, <1>2, <1>3 DEF UpstreamInv

(* What is lost with a stream are the last commands on its wire. *)
LEMMA BreakStep ==
    ASSUME UpstreamInv, ParentGoesDown \/ LinkBreaks
    PROVE  UpstreamInv'
<1>1. /\ StreamBreaks
      /\ parent' \in {"up", "down"}
      /\ UNCHANGED <<request, attempt, connection, registered, channel, handled, sent, joins,
                     reported>>
  BY DEF UpstreamInv, TypeOK, ParentGoesDown, LinkBreaks
<1>2. wire \in Seq(Int) /\ wire \in Seq(1 .. MaxCommands)
  BY NumbersAreIntegers DEF UpstreamInv, TypeOK
<1>3. /\ wire' \in Seq(1 .. MaxCommands)
      /\ Increasing(wire) => Increasing(wire')
      /\ Before(handled, wire) => Before(handled, wire')
      /\ Before(channel, wire) => Before(channel, wire')
      /\ UpTo(wire, sent) => UpTo(wire', sent)
  <2>1. CASE wire' = wire
    BY <1>2, <2>1
  <2>2. CASE \E arrived \in 0 .. Len(wire) : wire' = SubSeq(wire, 1, arrived)
    <3>1. PICK arrived \in 0 .. Len(wire) : wire' = SubSeq(wire, 1, arrived)
      BY <2>2
    <3>2. \A i \in 1 .. arrived : wire[i] \in 1 .. MaxCommands
      <4> TAKE i \in 1 .. arrived
      <4>1. i \in 1 .. Len(wire)
        BY <1>2, LenProperties
      <4> QED
        BY <1>2, <4>1, ElementOfSeq
    <3>3. wire' \in Seq(1 .. MaxCommands)
      BY <1>2, <3>1, <3>2, SubSeqProperties
    <3> QED
      BY <1>2, <3>1, <3>3, StartInOrder
  <2> QED
    BY <1>1, <2>1, <2>2 DEF StreamBreaks
<1>4. stream' \in {"none", "open", "ended"} /\ (stream' # "none" <=> stream # "none")
      /\ breaks' \in 0 .. MaxBreaks
  BY <1>1, UpstreamAssumption DEF StreamBreaks, UpstreamInv, TypeOK
<1>5. TypeOK'
  BY <1>1, <1>3, <1>4 DEF UpstreamInv, TypeOK
<1>6. OneConnectionAtATime'
  BY <1>1, <1>4 DEF UpstreamInv, OneConnectionAtATime, Trying
<1>7. InOrder'
  BY <1>1, <1>3 DEF UpstreamInv, InOrder
<1> QED
  BY <1>5, <1>6, <1>7 DEF UpstreamInv

LEMMA SendStep ==
    ASSUME UpstreamInv, ParentSends
    PROVE  UpstreamInv'
<1>1. /\ wire' = Append(wire, sent + 1) /\ sent' = sent + 1 /\ sent < MaxCommands
      /\ sent \in Nat /\ sent' \in 1 .. MaxCommands
      /\ UNCHANGED <<parent, stream, request, attempt, connection, registered, channel, handled,
                     breaks, joins, reported>>
  BY UpstreamAssumption DEF ParentSends, UpstreamInv, TypeOK
<1>2. wire \in Seq(Int) /\ channel \in Seq(Int) /\ handled \in Seq(Int)
  BY NumbersAreIntegers DEF UpstreamInv
<1>3. TypeOK'
  <2>1. wire' \in Seq(1 .. MaxCommands)
    BY <1>1 DEF UpstreamInv, TypeOK
  <2> QED
    BY <1>1, <2>1, UpstreamAssumption DEF UpstreamInv, TypeOK
<1>4. OneConnectionAtATime'
  BY <1>1 DEF UpstreamInv, OneConnectionAtATime, Trying
<1>5. \A s \in Seq(Int) : UpTo(s, sent) => Before(s, <<sent + 1>>) /\ UpTo(s, sent + 1)
  <2> SUFFICES ASSUME NEW s \in Seq(Int), UpTo(s, sent)
               PROVE  Before(s, <<sent + 1>>) /\ UpTo(s, sent + 1)
    OBVIOUS
  <2>1. \A i \in DOMAIN s : s[i] \in Int /\ s[i] <= sent
    BY DEF UpTo
  <2> QED
    BY <1>1, <2>1 DEF UpTo, Before
<1>6. UpTo(wire', sent')
  <2>1. /\ Len(wire) \in Nat /\ DOMAIN wire = 1 .. Len(wire)
        /\ DOMAIN wire' = 1 .. (Len(wire) + 1)
        /\ \A i \in 1 .. Len(wire) : wire'[i] = wire[i] /\ wire[i] \in Int
        /\ wire'[Len(wire) + 1] = sent + 1
    BY <1>1, <1>2
  <2> QED
    BY <1>1, <2>1 DEF UpTo, UpstreamInv, InOrder
<1>7. InOrder'
  BY <1>1, <1>2, <1>5, <1>6, AppendedInOrder DEF UpstreamInv, InOrder
<1> QED
  BY <1>3, <1>4, <1>7 DEF UpstreamInv

(* The first command on the wire goes into the channel or is lost. *)
LEMMA ForwardStep ==
    ASSUME UpstreamInv, ForwardCommand
    PROVE  UpstreamInv'
<1>1. /\ wire # <<>> /\ wire' = Tail(wire)
      /\ \/ channel' = channel
         \/ channel' = Append(channel, Head(wire)) /\ Len(channel) < Channel
      /\ UNCHANGED <<parent, stream, request, attempt, connection, registered, handled, sent,
                     breaks, joins, reported>>
  BY DEF ForwardCommand
<1>2. wire \in Seq(Int) /\ channel \in Seq(Int) /\ handled \in Seq(Int)
  BY NumbersAreIntegers DEF UpstreamInv
<1>3. TypeOK'
  <2>1. wire' \in Seq(1 .. MaxCommands) /\ Head(wire) \in 1 .. MaxCommands
    BY <1>1, HeadTailProperties DEF UpstreamInv, TypeOK
  <2>2. channel' \in Seq(1 .. MaxCommands) /\ Len(channel') <= Channel
    <3>1. channel \in Seq(1 .. MaxCommands) /\ Len(channel) <= Channel
      BY DEF UpstreamInv, TypeOK
    <3> DEFINE more == Append(channel, Head(wire))
    <3>2. more \in Seq(1 .. MaxCommands) /\ Len(more) = Len(channel) + 1 /\ Len(channel) \in Nat
      BY <2>1, <3>1, AppendProperties
    <3>3. \/ channel' = channel
          \/ channel' = more /\ Len(channel) < Channel
      BY <1>1
    <3> HIDE DEF more
    <3> QED
      BY <3>1, <3>2, <3>3, UpstreamAssumption
  <2> QED
    BY <1>1, <2>1, <2>2 DEF UpstreamInv, TypeOK
<1>4. OneConnectionAtATime'
  BY <1>1 DEF UpstreamInv, OneConnectionAtATime, Trying
<1>5. Head(wire) \in Int /\ Tail(wire) \in Seq(Int)
  BY <1>1, <1>2
<1>6. /\ Increasing(wire') /\ Before(<<Head(wire)>>, wire')
      /\ Before(handled, wire') /\ Before(channel, wire')
      /\ Before(handled, <<Head(wire)>>) /\ Before(channel, <<Head(wire)>>)
  BY <1>1, <1>2, TailInOrder DEF UpstreamInv, InOrder
<1>7. /\ Increasing(channel') /\ Before(handled, channel') /\ Before(channel', wire')
  BY <1>1, <1>2, <1>5, <1>6, AppendedInOrder DEF UpstreamInv, InOrder
<1>8. UpTo(wire', sent) /\ UpTo(channel', sent)
  <2>1. /\ \A i \in DOMAIN wire' : i + 1 \in DOMAIN wire /\ wire'[i] = wire[i + 1]
        /\ 1 \in DOMAIN wire /\ Head(wire) = wire[1]
    BY <1>1, <1>2
  <2>2. \A i \in DOMAIN Append(channel, Head(wire)) :
           \/ Append(channel, Head(wire))[i] = Head(wire)
           \/ i \in DOMAIN channel /\ Append(channel, Head(wire))[i] = channel[i]
    BY <1>2, <1>5
  <2> QED
    BY <1>1, <2>1, <2>2 DEF UpTo, UpstreamInv, InOrder
<1>9. InOrder'
  BY <1>1, <1>6, <1>7, <1>8 DEF UpstreamInv, InOrder
<1> QED
  BY <1>3, <1>4, <1>9 DEF UpstreamInv

(* The first command in the channel becomes the last one handled. *)
LEMMA CoreStep ==
    ASSUME UpstreamInv, CoreHandles
    PROVE  UpstreamInv'
<1>1. /\ channel # <<>> /\ channel' = Tail(channel)
      /\ handled' = Append(handled, Head(channel))
      /\ UNCHANGED <<parent, stream, wire, request, attempt, connection, registered, sent, breaks,
                     joins, reported>>
  BY DEF CoreHandles
<1>2. wire \in Seq(Int) /\ channel \in Seq(Int) /\ handled \in Seq(Int)
  BY NumbersAreIntegers DEF UpstreamInv
<1>3. TypeOK'
  <2>1. /\ channel' \in Seq(1 .. MaxCommands) /\ Head(channel) \in 1 .. MaxCommands
        /\ Len(channel') <= Channel
    <3>1. channel \in Seq(1 .. MaxCommands) /\ Len(channel) <= Channel
      BY DEF UpstreamInv, TypeOK
    <3> QED
      BY <1>1, <3>1, UpstreamAssumption, HeadTailProperties
  <2>2. handled' \in Seq(1 .. MaxCommands)
    <3>1. handled \in Seq(1 .. MaxCommands)
      BY DEF UpstreamInv, TypeOK
    <3> QED
      BY <1>1, <2>1, <3>1, AppendProperties
  <2> QED
    BY <1>1, <2>1, <2>2 DEF UpstreamInv, TypeOK
<1>4. OneConnectionAtATime'
  BY <1>1 DEF UpstreamInv, OneConnectionAtATime, Trying
<1>5. Head(channel) \in Int /\ Tail(channel) \in Seq(Int)
  BY <1>1, <1>2
<1>6. /\ Increasing(channel') /\ Before(<<Head(channel)>>, channel')
      /\ Before(handled, channel') /\ Before(channel', wire)
      /\ Before(handled, <<Head(channel)>>) /\ Before(<<Head(channel)>>, wire)
  BY <1>1, <1>2, TailInOrder DEF UpstreamInv, InOrder
<1>7. Increasing(handled') /\ Before(handled', channel') /\ Before(handled', wire)
  BY <1>1, <1>2, <1>5, <1>6, AppendedInOrder DEF UpstreamInv, InOrder
<1>8. UpTo(channel', sent) /\ UpTo(handled', sent)
  <2>1. /\ \A i \in DOMAIN channel' : i + 1 \in DOMAIN channel /\ channel'[i] = channel[i + 1]
        /\ 1 \in DOMAIN channel /\ Head(channel) = channel[1]
    BY <1>1, <1>2
  <2>2. \A i \in DOMAIN handled' :
           \/ handled'[i] = Head(channel)
           \/ i \in DOMAIN handled /\ handled'[i] = handled[i]
    BY <1>1, <1>2, <1>5
  <2>3. UpTo(channel, sent) /\ UpTo(handled, sent) /\ sent' = sent
    BY <1>1 DEF UpstreamInv, InOrder
  <2> QED
    BY <2>1, <2>2, <2>3 DEF UpTo
<1>9. InOrder'
  BY <1>1, <1>6, <1>7, <1>8 DEF UpstreamInv, InOrder
<1> QED
  BY <1>3, <1>4, <1>9 DEF UpstreamInv

LEMMA OtherStep ==
    ASSUME UpstreamInv, ParentComesUp \/ SendUpdate \/ UNCHANGED vars
    PROVE  UpstreamInv'
<1>1. UNCHANGED <<stream, wire, request, attempt, connection, registered, channel, handled, sent,
                  breaks, joins>>
  BY DEF ParentComesUp, SendUpdate, vars
<1>2. parent' \in {"up", "down"} /\ reported' \in BOOLEAN
  BY DEF ParentComesUp, SendUpdate, vars, UpstreamInv, TypeOK
<1> QED
  BY <1>1, <1>2 DEF UpstreamInv, TypeOK, OneConnectionAtATime, Trying, InOrder

LEMMA NextUpstreamInv == UpstreamInv /\ [Next]_vars => UpstreamInv'
<1> SUFFICES ASSUME UpstreamInv, [Next]_vars PROVE UpstreamInv'
  OBVIOUS
<1> QED
  BY RequestStep, JoinStep, BreakStep, SendStep, ForwardStep, CoreStep, OtherStep DEF Next

LEMMA UpstreamAlways == Spec => []UpstreamInv
BY InitUpstreamInv, NextUpstreamInv, PTL DEF Spec

(* The channel never holds more than its capacity, and all else has its type. *)
THEOREM UpstreamTypes == Spec => []TypeOK
<1>1. UpstreamInv => TypeOK
  BY DEF UpstreamInv
<1> QED
  BY <1>1, UpstreamAlways, PTL

(***************************************************************************)
(* The two futures that may establish a connection never both try, and     *)
(* none tries while a stream is read or has an end to be handled.          *)
(***************************************************************************)
THEOREM NeverTwoConnections == Spec => []OneConnectionAtATime
<1>1. UpstreamInv => OneConnectionAtATime
  BY DEF UpstreamInv
<1> QED
  BY <1>1, UpstreamAlways, PTL

(***************************************************************************)
(* The core handles the commands in the order in which the parent sent     *)
(* them, none twice, whatever streams break, connections are made again,   *)
(* and commands are lost.                                                  *)
(***************************************************************************)
THEOREM CommandsStayInOrder == Spec => []CommandsInOrder
<1>1. UpstreamInv => CommandsInOrder
  BY InOrderImplies DEF UpstreamInv
<1> QED
  BY <1>1, UpstreamAlways, PTL

-----------------------------------------------------------------------------
(***************************************************************************)
(* How many connections there were tells where `started' is: it tries      *)
(* until the first is made, then has an answer, and is done before the     *)
(* second, for which `finished' tries from the end of a stream on.         *)
(***************************************************************************)
FirstInv ==
    /\ joins = 0 <=> Trying("started")
    /\ joins = 0 => /\ request["finished"] = "none"
                    /\ stream = "none" /\ connection = "None"
    /\ request["started"] = "answered" => joins = 1
    /\ connection = "core" => joins = 1

(* The channel that `started' makes is never given to a later connection. *)
OnlyFirstConnectionForwards == connection = "core" => joins = 1

LEMMA InitFirstInv == Init => FirstInv
BY DEF Init, FirstInv, Trying, Requesters

LEMMA NextFirstInv == TypeOK /\ FirstInv /\ [Next]_vars => FirstInv'
<1> SUFFICES ASSUME TypeOK, FirstInv, [Next]_vars PROVE FirstInv'
  OBVIOUS
<1>1. /\ request \in [Requesters -> Phases] /\ joins \in 0 .. 2
      /\ "started" \in Requesters /\ "finished" \in Requesters
      /\ \A r \in Requesters : r = "started" \/ r = "finished"
  BY DEF TypeOK, Requesters
<1>2. ASSUME NEW r \in Requesters, Join(r)
      PROVE  FirstInv'
  <2>1. CASE r = "started"
    <3>1. joins = 0 /\ request["finished"] = "none"
      BY <1>2, <2>1 DEF FirstInv, Join, Trying
    <3>2. joins' = 1 /\ request' = [request EXCEPT !["started"] = "answered"] /\ connection' = "dummy"
      BY <1>2, <2>1, <3>1 DEF Join, Goes
    <3> QED
      BY <1>1, <3>2 DEF FirstInv, Trying
  <2>2. CASE r = "finished"
    <3>1. joins # 0 /\ request["started"] # "answered" /\ ~Trying("started")
      BY <1>2, <2>2 DEF FirstInv, Join
    <3>2. joins' \in {1, 2} /\ connection' = "dummy"
          /\ request' = [request EXCEPT !["finished"] = "none"]
      BY <1>1, <1>2, <2>2, <3>1 DEF Join, Goes
    <3> QED
      BY <1>1, <3>1, <3>2 DEF FirstInv, Trying
  <2> QED
    BY <1>1, <2>1, <2>2
<1>3. ASSUME NEW r \in Requesters, Connect(r) \/ Fail(r) \/ TryAgain(r)
      PROVE  FirstInv'
  <2>1. /\ UNCHANGED <<joins, connection, stream>>
        /\ Trying(r)
        /\ \E phase \in {"connecting", "joining", "pause"} :
              request' = [request EXCEPT ![r] = phase]
    BY <1>3 DEF Connect, Fail, TryAgain, Goes, Trying
  <2> QED
    BY <1>1, <2>1 DEF FirstInv, Trying
<1>4. CASE RegisterAtCore
  <2>1. /\ joins = 1 /\ joins' = 1 /\ stream' = stream
        /\ request' = [request EXCEPT !["started"] = "none"]
    BY <1>4 DEF FirstInv, RegisterAtCore, Goes
  <2> QED
    BY <1>1, <2>1 DEF FirstInv, Trying
<1>5. CASE Finished
  <2>1. /\ joins # 0 /\ UNCHANGED <<joins, connection>>
        /\ request' = [request EXCEPT !["finished"] = "connecting"]
    BY <1>5 DEF FirstInv, Finished, Goes
  <2> QED
    BY <1>1, <2>1 DEF FirstInv, Trying
<1>6. CASE ParentGoesDown \/ LinkBreaks
  <2>1. UNCHANGED <<joins, connection, request>> /\ (stream = "none" => stream' = "none")
    BY <1>6 DEF ParentGoesDown, LinkBreaks, StreamBreaks
  <2> QED
    BY <2>1 DEF FirstInv, Trying
<1>7. CASE \/ ParentComesUp \/ ParentSends \/ ForwardCommand \/ CoreHandles \/ SendUpdate
           \/ UNCHANGED vars
  <2>1. UNCHANGED <<joins, connection, request, stream>>
    BY <1>7 DEF ParentComesUp, ParentSends, ForwardCommand, CoreHandles, SendUpdate, vars
  <2> QED
    BY <2>1 DEF FirstInv, Trying
<1> QED
  BY <1>2, <1>3, <1>4, <1>5, <1>6, <1>7, Zenon DEF Next

(***************************************************************************)
(* A connection that was made again has no way to the core, for any order  *)
(* of answers, failures and ends of streams: what the models of the whole  *)
(* cluster take for granted, and why ConnectionForwards does not hold.      *)
(***************************************************************************)
THEOREM FirstConnectionAlone == Spec => []OnlyFirstConnectionForwards
<1>1. FirstInv => OnlyFirstConnectionForwards
  BY DEF FirstInv, OnlyFirstConnectionForwards
<1> QED
  BY <1>1, InitFirstInv, NextFirstInv, UpstreamTypes, PTL DEF Spec

-----------------------------------------------------------------------------
(* What is handled next is the first command of the channel. *)
LEMMA HandleIsHandle ==
    ASSUME UpstreamInv, CoreHandles
    PROVE  Stream!Handle
<1> DEFINE n == Head(channel)
<1>1. /\ channel \in Seq(1 .. MaxCommands) /\ channel # <<>>
      /\ handled' = Append(handled, n) /\ sent' = sent
  BY DEF UpstreamInv, TypeOK, CoreHandles
<1>2. 1 \in DOMAIN channel /\ channel[1] = n /\ n \in 1 .. MaxCommands
  <2>1. 1 \in DOMAIN channel /\ channel[1] = n
    BY <1>1
  <2>2. channel[1] \in 1 .. MaxCommands
    BY <1>1, <2>1, ElementOfSeq, LenProperties
  <2> HIDE DEF n
  <2> QED
    BY <2>1, <2>2
<1>3. n <= sent
  BY <1>2 DEF UpstreamInv, InOrder, UpTo
<1>4. n \in 1 .. sent
  BY <1>2, <1>3, UpstreamAssumption DEF UpstreamInv, TypeOK
<1>5. \A i \in DOMAIN handled : handled[i] < n
  BY <1>2 DEF UpstreamInv, InOrder, Before
<1> HIDE DEF n
<1> QED
  BY <1>1, <1>4, <1>5 DEF Stream!Handle

(***************************************************************************)
(* With all its connections, channels and losses, the upstream actor is    *)
(* one stream of commands to the core: each of its steps is a step of      *)
(* CommandStream, or one that the core and the parent do not see.          *)
(***************************************************************************)
THEOREM IsOneCommandStream == Spec => ImplementsCommandStream
<1>1. Init => Stream!Init
  BY DEF Init, Stream!Init
<1>2. UpstreamInv /\ [Next]_vars => [Stream!Next]_<<sent, handled>>
  <2> SUFFICES ASSUME UpstreamInv, [Next]_vars
               PROVE  [Stream!Next]_<<sent, handled>>
    OBVIOUS
  <2>1. CASE ParentSends
    BY <2>1 DEF ParentSends, Stream!Send, Stream!Next
  <2>2. CASE CoreHandles
    BY <2>2, HandleIsHandle DEF Stream!Next
  <2>3. CASE ParentGoesDown \/ LinkBreaks \/ ParentComesUp
    BY <2>3 DEF ParentGoesDown, LinkBreaks, ParentComesUp
  <2>4. CASE \E r \in Requesters : Connect(r) \/ Join(r) \/ Fail(r) \/ TryAgain(r)
    BY <2>4 DEF Connect, Join, Fail, TryAgain
  <2>5. CASE RegisterAtCore \/ Finished \/ ForwardCommand \/ SendUpdate
    BY <2>5 DEF RegisterAtCore, Finished, ForwardCommand, SendUpdate
  <2>6. CASE UNCHANGED vars
    BY <2>6 DEF vars
  <2> QED
    BY <2>1, <2>2, <2>3, <2>4, <2>5, <2>6, Zenon DEF Next
<1> QED
  BY <1>1, <1>2, UpstreamAlways, PTL DEF Spec, Stream!Spec, ImplementsCommandStream
=============================================================================
