----------------------- MODULE CommandRouting_proofs -----------------------
(***************************************************************************)
(* The theorems of CommandRouting, for chains of agents of any length: its *)
(* structures keep their types, a connection on a way that stands keeps    *)
(* its entry and its actor, no agent handles a list twice, and the last    *)
(* broadcast is not undone by an older list.                               *)
(*                                                                         *)
(* TypeInv is TypeOK by parts: lists, tables, links, news.                 *)
(* StandInv joins it with what the second says, and with NothingBroke: as  *)
(* long as no break or restart happened, all connections stand.            *)
(* TokenInv is about where a list can be. The spots are numbered along     *)
(* the chain: the mailbox of server n is 3n, its sends under way 3n + 1,   *)
(* the simulation of agent n is 3n + 2. A list is before a spot once, or   *)
(* past it (Unique, PastOnce), and of two lists the broadcast keeps its    *)
(* place (Ordered, PastOrdered). Each action moves lists from old places   *)
(* to new ones, which a relation tells; the lemmas on such moves are       *)
(* stated once for all relations.                                          *)
(***************************************************************************)
EXTENDS CommandRouting, OperatorLemmas, TLAPS

(* The connections that an agent, to the m-th, made to server n. *)
ConnsUpTo(n, m) == {c \in Conns : c[1] = n + 1 /\ c[2] <= m}

(* A list with the connections left to serve, none of them twice. *)
AnySend(n, m, issued) == [list : issued, to : Seq(ConnsUpTo(n, m))]
SendsTo(n, m, issued) ==
    {s \in AnySend(n, m, issued) : s.to # <<>> /\ IsInjective(s.to)}

ListsInv ==
    /\ lists \in Seq(Target) /\ Len(lists) <= MaxLists
    /\ mailbox \in [Servers -> Seq(DOMAIN lists)]
    /\ \A n \in Servers : sends[n] \in Seq(SendsTo(n, made[n + 1], DOMAIN lists))
    /\ sends = [n \in Servers |-> sends[n]]
    /\ simulation \in [Agents -> Seq(DOMAIN lists)]
    /\ handled \in [Agents -> Seq(DOMAIN lists)]

(* A connection is in the map of its server no more than once. *)
TableInv ==
    /\ table = [n \in Servers |-> table[n]]
    /\ \A n \in Servers : /\ table[n] \in Seq(ConnsUpTo(n, made[n + 1]))
                          /\ IsInjective(table[n])
    /\ known \in [Conns -> [Agents -> 0 .. Absent]]
    /\ stopped \subseteq Conns /\ \A c \in stopped : c[2] <= made[c[1]]
    /\ dead \in [Servers -> BOOLEAN]

(* Only the connection that was made last may stand. *)
LinkInv ==
    /\ made \in [Agents -> 1 .. (MaxBreaks + 1)]
    /\ link \in [Agents -> Nat] /\ \A a \in Agents : link[a] \in {0, made[a]}
    /\ forwards \in [Agents -> BOOLEAN]
    /\ breaks \in 0 .. MaxBreaks

NewsInv == frames \in [Agents -> SUBSET Agents] /\ late \in [Conns -> SUBSET Agents]

TypeInv == ListsInv /\ TableInv /\ LinkInv /\ NewsInv

(* A connection that stands is in the map; nothing ends before a break. *)
Stands(a) ==
    link[a] # 0 =>
        /\ <<a, link[a]>> \notin stopped
        /\ \E i \in DOMAIN table[a - 1] : table[a - 1][i] = <<a, link[a]>>
        /\ ~dead[a - 1]

NothingBroke ==
    /\ \A a \in Agents : link[a] # 0 /\ ~dead[a - 1]
    /\ \A c \in Conns : late[c] = {}

StandInv ==
    /\ \A a \in Agents : Stands(a)
    /\ breaks = 0 => NothingBroke

-----------------------------------------------------------------------------
(***************************************************************************)
(* Where lists are that may still come to an agent: in the mailbox of      *)
(* server n (3n), with server n on their way to a connection that stands   *)
(* (3n + 1), or with the simulation of agent n + 1 (3n + 2).               *)
(***************************************************************************)
Live(n, to) == \E k \in DOMAIN to : to[k] = <<n + 1, link[n + 1]>>

At(p, i, l) ==
    \E n \in Servers :
        \/ p = 3 * n /\ i \in DOMAIN mailbox[n] /\ l = mailbox[n][i]
        \/ /\ p = 3 * n + 1 /\ i \in DOMAIN sends[n] /\ l = sends[n][i].list
           /\ Live(n, sends[n][i].to)
        \/ p = 3 * n + 2 /\ i \in DOMAIN simulation[n + 1] /\ l = simulation[n + 1][i]

(* The list k at place j of spot q is behind the one at place i of spot p. *)
Behind(q, j, p, i) == q < p \/ (q = p /\ j > i)

(* There is one copy of a list. *)
Unique == \A p, i, q, j, l : At(p, i, l) /\ At(q, j, l) => p = q /\ i = j

(* It is past those who handled it, who did so once. *)
PastOnce ==
    \A a \in Agents :
        /\ \A h \in DOMAIN handled[a] : \A p, i : At(p, i, handled[a][h]) => p > 3 * (a - 1) + 2
        /\ IsInjective(handled[a])

(* The agents up to a never connected again. *)
Unbroken(a) == \A b \in 1 .. a : made[b] = 1

(* No list that is older than a broadcast is behind it. *)
Ordered ==
    \A a \in Agents : Unbroken(a) =>
        \A p, i, l, q, j, g :
            /\ At(p, i, l) /\ At(q, j, g)
            /\ q <= 3 * (a - 1) + 2 /\ l < g /\ lists[g] = All
            => Behind(q, j, p, i)

(* Nor is one that an agent handles after a broadcast. *)
PastOrdered ==
    \A a \in Agents : Unbroken(a) =>
        \A h \in DOMAIN handled[a] : lists[handled[a][h]] = All =>
            /\ \A p, i, l : At(p, i, l) /\ l < handled[a][h] => p > 3 * (a - 1) + 2
            /\ \A k \in DOMAIN handled[a] : k > h => handled[a][k] > handled[a][h]

-----------------------------------------------------------------------------
(* Agents and the servers they connect to. *)
LEMMA Chain ==
    /\ N \in Nat /\ MaxBreaks \in Nat /\ Expiry \in Nat
    /\ \A n \in Servers : n \in Nat /\ n + 1 \in Agents /\ (n + 1) - 1 = n
    /\ \A a \in Agents : a \in Nat /\ a - 1 \in Servers /\ (a - 1) + 1 = a
    /\ \A c \in Conns : c[1] \in Agents /\ c[1] - 1 \in Servers /\ c[2] \in Nat /\ c[2] >= 1
                       /\ c = <<c[1], c[2]>>
BY RoutingAssumption DEF Agents, Servers, Conns

(* What a selection keeps is there no more often than it was. *)
LEMMA SelectInjective ==
    ASSUME NEW X, NEW s \in Seq(X), IsInjective(s), NEW S
    PROVE  IsInjective(Select(s, S))
<1> DEFINE sel == Select(s, S)
<1>1. sel \in Seq(X)
  BY SelectKeeps
<1>2. PICK at : Places(s, Len(s), S, sel, at)
  BY SelectKeeps
<1> HIDE DEF sel
<1>3. /\ \A k \in 1 .. Len(sel) : at[k] \in 1 .. Len(s) /\ sel[k] = s[at[k]]
      /\ \A j, k \in 1 .. Len(sel) : j < k => at[j] < at[k]
  BY <1>2 DEF Places
<1>4. DOMAIN sel = 1 .. Len(sel) /\ DOMAIN s = 1 .. Len(s) /\ Len(sel) \in Nat /\ Len(s) \in Nat
  BY <1>1
<1>5. ASSUME NEW j \in 1 .. Len(sel), NEW k \in 1 .. Len(sel), sel[j] = sel[k]
      PROVE  j = k
  <2>1. at[j] = at[k]
    BY <1>3, <1>4, <1>5 DEF IsInjective
  <2>2. ~(j < k) /\ ~(k < j)
    BY <1>3, <1>4, <2>1
  <2> QED
    BY <1>4, <2>2
<1>6. IsInjective(sel)
  BY <1>4, <1>5 DEF IsInjective
<1> QED
  BY <1>6 DEF sel

(* The lists that are left to send have connections left to go to. *)
LEMMA SendingLeft ==
    ASSUME NEW n, NEW m, NEW issued, NEW s \in Seq(AnySend(n, m, issued)),
           \A i \in DOMAIN s : IsInjective(s[i].to)
    PROVE  Sending(s) \in Seq(SendsTo(n, m, issued))
<1> DEFINE S == {send \in Range(s) : send.to # <<>>}
           X == AnySend(n, m, issued)
           sel == Select(s, S)
<1>0. s \in Seq(X)
  OBVIOUS
<1> HIDE DEF S, X
<1>1. /\ sel \in Seq(X)
      /\ \A k \in 1 .. Len(sel) : sel[k] \in S /\ \E i \in 1 .. Len(s) : s[i] = sel[k]
  BY <1>0, SelectElements
<1>2. \A k \in 1 .. Len(sel) : sel[k] \in SendsTo(n, m, issued)
  BY <1>0, <1>1 DEF SendsTo, S, X
<1> HIDE DEF sel
<1>3. sel \in Seq(SendsTo(n, m, issued))
  BY <1>1, <1>2
<1> QED
  BY <1>3 DEF Sending, sel, S

(* A cleanup leaves the connections in the map that have not ended. *)
LEMMA CleanupLeaves ==
    ASSUME NEW n, NEW m, NEW conns \in Seq(ConnsUpTo(n, m)), IsInjective(conns)
    PROVE  /\ Cleanup(conns) \in Seq(ConnsUpTo(n, m)) /\ IsInjective(Cleanup(conns))
           /\ \A i \in DOMAIN conns :
                 conns[i] \notin stopped => conns[i] \in Range(Cleanup(conns))
<1>1. /\ Cleanup(conns) \in Seq(ConnsUpTo(n, m))
      /\ \A i \in 1 .. Len(conns) :
            conns[i] \in Conns \ stopped
            => \E k \in 1 .. Len(Cleanup(conns)) : Cleanup(conns)[k] = conns[i]
  BY SelectElements DEF Cleanup
<1>2. IsInjective(Cleanup(conns))
  BY SelectInjective DEF Cleanup
<1>3. \A i \in DOMAIN conns : i \in 1 .. Len(conns) /\ conns[i] \in Conns
  BY DEF ConnsUpTo
<1> QED
  BY <1>1, <1>2, <1>3 DEF Range

(* The connections a list goes to are some of those in the map. *)
LEMMA ConnectionsFound ==
    ASSUME NEW n, NEW m, NEW conns \in Seq(ConnsUpTo(n, m)), IsInjective(conns), NEW target
    PROVE  /\ ConnectionsFor(target, conns) \in Seq(ConnsUpTo(n, m))
           /\ IsInjective(ConnectionsFor(target, conns))
BY SelectElements, SelectInjective DEF ConnectionsFor

-----------------------------------------------------------------------------
(* What is in the map of server n when the lists of its mailbox are handled. *)
Cleaned(n) == IF mailbox[n] = <<>> THEN table[n] ELSE Cleanup(table[n])

(* The lists of the mailbox, with the connections they go to. *)
Taken(n) ==
    [i \in DOMAIN mailbox[n] |->
        [list |-> mailbox[n][i], to |-> ConnectionsFor(lists[mailbox[n][i]], Cleaned(n))]]

LEMMA TableCleaned ==
    ASSUME TypeInv, NEW n \in Servers
    PROVE  /\ Cleaned(n) \in Seq(ConnsUpTo(n, made[n + 1])) /\ IsInjective(Cleaned(n))
           /\ \A i \in DOMAIN table[n] : table[n][i] \notin stopped => table[n][i] \in Range(Cleaned(n))
<1>1. table[n] \in Seq(ConnsUpTo(n, made[n + 1])) /\ IsInjective(table[n])
  BY DEF TypeInv, TableInv
<1>2. \A i \in DOMAIN table[n] : table[n][i] \in Range(table[n])
  BY DEF Range
<1> QED
  BY <1>1, <1>2, CleanupLeaves DEF Cleaned

LEMMA ListsTaken ==
    ASSUME TypeInv, NEW n \in Servers
    PROVE  /\ Taken(n) \in Seq(AnySend(n, made[n + 1], DOMAIN lists))
           /\ \A i \in DOMAIN Taken(n) : IsInjective(Taken(n)[i].to)
<1> DEFINE m == made[n + 1]
           len == Len(mailbox[n])
<1>1. mailbox[n] \in Seq(DOMAIN lists) /\ DOMAIN mailbox[n] = 1 .. len /\ len \in Nat
  BY DEF TypeInv, ListsInv
<1>2. Cleaned(n) \in Seq(ConnsUpTo(n, m)) /\ IsInjective(Cleaned(n))
  BY TableCleaned
<1> HIDE DEF m, len
<1>3. ASSUME NEW i \in 1 .. len
      PROVE  /\ ConnectionsFor(lists[mailbox[n][i]], Cleaned(n)) \in Seq(ConnsUpTo(n, m))
             /\ IsInjective(ConnectionsFor(lists[mailbox[n][i]], Cleaned(n)))
             /\ mailbox[n][i] \in DOMAIN lists
  BY <1>1, <1>2, ConnectionsFound
<1>4. /\ Taken(n) = [i \in 1 .. len |-> Taken(n)[i]]
      /\ \A i \in 1 .. len : Taken(n)[i] =
            [list |-> mailbox[n][i], to |-> ConnectionsFor(lists[mailbox[n][i]], Cleaned(n))]
  BY <1>1 DEF Taken
<1>5. \A i \in 1 .. len : /\ Taken(n)[i] \in AnySend(n, m, DOMAIN lists)
                          /\ IsInjective(Taken(n)[i].to)
  BY <1>3, <1>4 DEF AnySend
<1>6. Taken(n) \in [1 .. len -> AnySend(n, m, DOMAIN lists)]
  BY <1>4, <1>5
<1> QED
  BY <1>1, <1>4, <1>5, <1>6 DEF m

(* What a poll does, whichever way it ends. *)
LEMMA PollDoes ==
    ASSUME NEW n \in Servers, NEW came, Poll(n, came)
    PROVE  /\ ~dead[n]
           /\ mailbox' = [mailbox EXCEPT ![n] = <<>>]
           /\ sends' = [sends EXCEPT ![n] = @ \o Sending(Taken(n))]
           /\ late' = [c \in Conns |-> IF c[1] = n + 1 THEN {} ELSE late[c]]
           /\ made' = made /\ breaks' = breaks /\ lists' = lists
           /\ simulation' = simulation /\ handled' = handled /\ stopped' = stopped
           /\ known' = [c \in Conns |-> known'[c]]
           /\ \A c \in Conns : known'[c] \in {known[c], Nobody, Retain([a \in Agents |->
                                           IF a \in came[c] THEN 0 ELSE known[c][a]])}
           /\ \/ /\ \A c \in Conns : c[1] = n + 1 /\ came[c] # {} => c \in Range(Cleaned(n))
                 /\ table' = [table EXCEPT ![n] = Cleaned(n)]
                 /\ link' = link /\ forwards' = forwards /\ dead' = dead
              \/ /\ \E c \in Conns : c[1] = n + 1 /\ came[c] # {} /\ c \notin Range(Cleaned(n))
                 /\ table' = [table EXCEPT ![n] = <<>>]
                 /\ dead' = [dead EXCEPT ![n] = TRUE]
                 /\ link' = [link EXCEPT ![n + 1] = 0]
                 /\ forwards' = [forwards EXCEPT ![n + 1] = FALSE]
<1>1. PICK cleaned \in {Cleaned(n)} :
         LET own == {c \in Conns : c[1] = n + 1}
             reporting == {c \in own : came[c] # {}} IN
         /\ ~dead[n]
         /\ mailbox' = [mailbox EXCEPT ![n] = <<>>]
         /\ sends' = [sends EXCEPT ![n] = @ \o Sending(
                 [i \in DOMAIN mailbox[n] |->
                     [list |-> mailbox[n][i], to |-> ConnectionsFor(lists[mailbox[n][i]], cleaned)]])]
         /\ late' = [c \in Conns |-> IF c \in own THEN {} ELSE late[c]]
         /\ IF reporting \subseteq Range(cleaned)
            THEN /\ table' = [table EXCEPT ![n] = cleaned]
                 /\ known' = [c \in Conns |->
                       IF c \notin own THEN known[c]
                       ELSE IF c \notin Range(cleaned) THEN Nobody
                       ELSE IF reporting = {} THEN known[c]
                       ELSE Retain([a \in Agents |-> IF a \in came[c] THEN 0 ELSE known[c][a]])]
                 /\ UNCHANGED <<links, dead>>
            ELSE /\ table' = [table EXCEPT ![n] = <<>>]
                 /\ dead' = [dead EXCEPT ![n] = TRUE]
                 /\ known' = [c \in Conns |-> IF c \in own THEN Nobody ELSE known[c]]
                 /\ link' = [link EXCEPT ![n + 1] = 0]
                 /\ forwards' = [forwards EXCEPT ![n + 1] = FALSE]
                 /\ UNCHANGED <<made, breaks>>
         /\ UNCHANGED <<lists, simulation, handled, stopped>>
  BY Zenon DEF Poll, Cleaned
<1>2. cleaned = Cleaned(n)
  OBVIOUS
<1> DEFINE own == {c \in Conns : c[1] = n + 1}
           reporting == {c \in own : came[c] # {}}
<1>3. sends' = [sends EXCEPT ![n] = @ \o Sending(Taken(n))]
  BY <1>1, <1>2, Zenon DEF Taken
<1>4. /\ ~dead[n] /\ mailbox' = [mailbox EXCEPT ![n] = <<>>]
      /\ late' = [c \in Conns |-> IF c[1] = n + 1 THEN {} ELSE late[c]]
      /\ lists' = lists /\ simulation' = simulation /\ handled' = handled /\ stopped' = stopped
  BY <1>1
<1>5. CASE reporting \subseteq Range(cleaned)
  <2>1. /\ table' = [table EXCEPT ![n] = cleaned]
        /\ known' = [c \in Conns |->
              IF c \notin own THEN known[c]
              ELSE IF c \notin Range(cleaned) THEN Nobody
              ELSE IF reporting = {} THEN known[c]
              ELSE Retain([a \in Agents |-> IF a \in came[c] THEN 0 ELSE known[c][a]])]
        /\ UNCHANGED <<links, dead>>
    BY <1>1, <1>5
  <2>2. \A c \in Conns : c[1] = n + 1 /\ came[c] # {} => c \in Range(Cleaned(n))
    BY <1>2, <1>5
  <2>3. link' = link /\ forwards' = forwards /\ dead' = dead /\ made' = made /\ breaks' = breaks
    BY <2>1 DEF links
  <2> HIDE DEF own, reporting
  <2>4. /\ known' = [c \in Conns |-> known'[c]]
        /\ \A c \in Conns : known'[c] \in {known[c], Nobody, Retain([a \in Agents |->
                                        IF a \in came[c] THEN 0 ELSE known[c][a]])}
    BY <2>1
  <2> QED
    BY <1>2, <1>3, <1>4, <2>1, <2>2, <2>3, <2>4
<1>6. CASE ~(reporting \subseteq Range(cleaned))
  <2>1. /\ table' = [table EXCEPT ![n] = <<>>]
        /\ dead' = [dead EXCEPT ![n] = TRUE]
        /\ known' = [c \in Conns |-> IF c \in own THEN Nobody ELSE known[c]]
        /\ link' = [link EXCEPT ![n + 1] = 0]
        /\ forwards' = [forwards EXCEPT ![n + 1] = FALSE]
        /\ made' = made /\ breaks' = breaks
    BY <1>1, <1>6
  <2>2. \E c \in Conns : c[1] = n + 1 /\ came[c] # {} /\ c \notin Range(Cleaned(n))
    BY <1>2, <1>6
  <2>3. /\ known' = [c \in Conns |-> known'[c]]
        /\ \A c \in Conns : known'[c] \in {known[c], Nobody, Retain([a \in Agents |->
                                        IF a \in came[c] THEN 0 ELSE known[c][a]])}
    BY <2>1
  <2> QED
    BY <1>3, <1>4, <2>1, <2>2, <2>3
<1> QED
  BY <1>5, <1>6

LEMMA PollTypes ==
    ASSUME TypeInv, NEW n \in Servers, NEW came, Poll(n, came)
    PROVE  ListsInv' /\ TableInv' /\ LinkInv' /\ late' \in [Conns -> SUBSET Agents]
<1>1. /\ mailbox' = [mailbox EXCEPT ![n] = <<>>]
      /\ sends' = [sends EXCEPT ![n] = @ \o Sending(Taken(n))]
      /\ late' = [c \in Conns |-> IF c[1] = n + 1 THEN {} ELSE late[c]]
      /\ made' = made /\ breaks' = breaks /\ lists' = lists
      /\ simulation' = simulation /\ handled' = handled /\ stopped' = stopped
      /\ known' = [c \in Conns |-> known'[c]]
      /\ \A c \in Conns : known'[c] \in {known[c], Nobody, Retain([a \in Agents |->
                                      IF a \in came[c] THEN 0 ELSE known[c][a]])}
      /\ \/ table' = [table EXCEPT ![n] = Cleaned(n)]
         \/ table' = [table EXCEPT ![n] = <<>>]
      /\ dead' = dead \/ dead' = [dead EXCEPT ![n] = TRUE]
      /\ link' = link \/ link' = [link EXCEPT ![n + 1] = 0]
      /\ forwards' = forwards \/ forwards' = [forwards EXCEPT ![n + 1] = FALSE]
  BY PollDoes
<1>2. ListsInv'
  <2>1. Sending(Taken(n)) \in Seq(SendsTo(n, made[n + 1], DOMAIN lists))
    BY ListsTaken, SendingLeft
  <2>2. \A k \in Servers : sends'[k] \in Seq(SendsTo(k, made[k + 1], DOMAIN lists))
    <3> SUFFICES ASSUME NEW k \in Servers
                 PROVE  sends'[k] \in Seq(SendsTo(k, made[k + 1], DOMAIN lists))
      OBVIOUS
    <3>1. sends[k] \in Seq(SendsTo(k, made[k + 1], DOMAIN lists)) /\ DOMAIN sends = Servers
      BY DEF TypeInv, ListsInv
    <3>2. CASE k = n
      <4>1. sends'[k] = sends[k] \o Sending(Taken(n))
        BY <1>1, <3>1, <3>2
      <4> QED
        BY <2>1, <3>1, <3>2, <4>1
    <3>3. CASE k # n
      BY <1>1, <3>1, <3>3
    <3> QED
      BY <3>2, <3>3
  <2>3. mailbox' \in [Servers -> Seq(DOMAIN lists)] /\ sends' = [k \in Servers |-> sends'[k]]
    <3> DEFINE new == sends[n] \o Sending(Taken(n))
    <3>1. mailbox' \in [Servers -> Seq(DOMAIN lists)]
      BY <1>1 DEF TypeInv, ListsInv
    <3>2. sends = [k \in Servers |-> sends[k]] /\ sends' = [sends EXCEPT ![n] = new]
      BY <1>1 DEF TypeInv, ListsInv
    <3> HIDE DEF new
    <3> QED
      BY <3>1, <3>2
  <2> QED
    BY <1>1, <2>2, <2>3 DEF TypeInv, ListsInv
<1>3. TableInv'
  <2>1. \A k \in Servers : /\ table'[k] \in Seq(ConnsUpTo(k, made[k + 1]))
                           /\ IsInjective(table'[k])
    <3>1. Cleaned(n) \in Seq(ConnsUpTo(n, made[n + 1])) /\ IsInjective(Cleaned(n))
      BY TableCleaned
    <3>2. <<>> \in Seq(ConnsUpTo(n, made[n + 1])) /\ IsInjective(<<>>)
      BY DEF IsInjective
    <3>3. \A k \in Servers : table'[k] = table[k] \/ (k = n /\ table'[k] \in {Cleaned(n), <<>>})
      BY <1>1 DEF TypeInv, TableInv
    <3> QED
      BY <3>1, <3>2, <3>3 DEF TypeInv, TableInv
  <2>2. known' \in [Conns -> [Agents -> 0 .. Absent]]
    <3>1. Nobody \in [Agents -> 0 .. Absent] /\ Absent \in Nat
      BY Chain DEF Nobody, Absent
    <3>2. ASSUME NEW c \in Conns
          PROVE  Retain([a \in Agents |-> IF a \in came[c] THEN 0 ELSE known[c][a]])
                 \in [Agents -> 0 .. Absent]
      BY <3>1 DEF Retain, TypeInv, TableInv
    <3>3. \A c \in Conns : known[c] \in [Agents -> 0 .. Absent]
      BY DEF TypeInv, TableInv
    <3>4. \A c \in Conns : known'[c] \in [Agents -> 0 .. Absent]
      <4> SUFFICES ASSUME NEW c \in Conns
                   PROVE  known'[c] \in [Agents -> 0 .. Absent]
        OBVIOUS
      <4> DEFINE r == Retain([a \in Agents |-> IF a \in came[c] THEN 0 ELSE known[c][a]])
      <4>1. known'[c] \in {known[c], Nobody, r}
        BY <1>1
      <4>2. r \in [Agents -> 0 .. Absent]
        BY <3>2
      <4> HIDE DEF r
      <4> QED
        BY <3>1, <3>3, <4>1, <4>2
    <3> QED
      BY <1>1, <3>4
  <2>3. dead' \in [Servers -> BOOLEAN] /\ stopped' \subseteq Conns
        /\ \A c \in stopped' : c[2] <= made'[c[1]]
    BY <1>1 DEF TypeInv, TableInv
  <2>4. table' = [k \in Servers |-> table'[k]]
    BY <1>1 DEF TypeInv, TableInv
  <2> QED
    BY <1>1, <2>1, <2>2, <2>3, <2>4 DEF TableInv
<1>4. LinkInv'
  <2>1. link' \in [Agents -> Nat]
    BY <1>1 DEF TypeInv, LinkInv
  <2>2. \A a \in Agents : link'[a] \in {0, made[a]}
    <3>1. link \in [Agents -> Nat] /\ \A a \in Agents : link[a] \in {0, made[a]}
      BY DEF TypeInv, LinkInv
    <3>2. \A a \in Agents : link'[a] = link[a] \/ link'[a] = 0
      BY <1>1, <3>1
    <3> QED
      BY <3>1, <3>2
  <2>3. forwards' \in [Agents -> BOOLEAN]
    BY <1>1 DEF TypeInv, LinkInv
  <2> QED
    BY <1>1, <2>1, <2>2, <2>3 DEF TypeInv, LinkInv
<1>5. late' \in [Conns -> SUBSET Agents]
  BY <1>1 DEF TypeInv, NewsInv
<1> QED
  BY <1>2, <1>3, <1>4, <1>5

(* What a report or a poll passes on. *)
LEMMA NewsPassedOn ==
    ASSUME TypeInv, NEW n, NEW came \in [Conns -> SUBSET Agents], NEW full
    PROVE  \A b \in Agents : PassedOn(n, came, full)[b] \subseteq Agents
<1>1. \A b \in Agents : PassedOn(n, came, full)[b] =
         IF b = n /\ ~dead'[n] /\ ~full THEN UNION {came[c] : c \in {d \in Conns : d[1] = n + 1}} ELSE {}
  BY DEF PassedOn
<1>2. UNION {came[c] : c \in {d \in Conns : d[1] = n + 1}} \subseteq Agents
  OBVIOUS
<1> QED
  BY <1>1, <1>2

LEMMA PollServerTypes ==
    ASSUME TypeInv, NEW n \in Servers, NEW full \in BOOLEAN, PollServer(n, full)
    PROVE  TypeInv'
<1>1. Poll(n, late) /\ frames' = [a \in Agents |-> frames[a] \cup PassedOn(n, late, full)[a]]
  BY DEF PollServer
<1>2. ListsInv' /\ TableInv' /\ LinkInv' /\ late' \in [Conns -> SUBSET Agents]
  BY <1>1, PollTypes
<1>3. \A b \in Agents : PassedOn(n, late, full)[b] \subseteq Agents
  BY NewsPassedOn DEF TypeInv, NewsInv
<1>4. frames' \in [Agents -> SUBSET Agents]
  BY <1>1, <1>3 DEF TypeInv, NewsInv
<1> QED
  BY <1>2, <1>4 DEF TypeInv, NewsInv

LEMMA ReportTypes ==
    ASSUME TypeInv, NEW a \in Agents, NEW full \in BOOLEAN, Report(a, full)
    PROVE  TypeInv'
<1> DEFINE came == [late EXCEPT ![<<a, link[a]>>] = Frames(a)]
<1>1. CASE link[a] # 0
  <2>1. /\ Poll(a - 1, came)
        /\ frames' = [b \in Agents |->
               (IF b = a THEN {} ELSE frames[b]) \cup PassedOn(a - 1, came, full)[b]]
    BY <1>1 DEF Report
  <2>2. came \in [Conns -> SUBSET Agents]
    BY DEF TypeInv, NewsInv, Frames
  <2> HIDE DEF came
  <2>3. a - 1 \in Servers
    BY Chain
  <2>4. ListsInv' /\ TableInv' /\ LinkInv' /\ late' \in [Conns -> SUBSET Agents]
    BY <2>1, <2>3, PollTypes
  <2>5. \A b \in Agents : PassedOn(a - 1, came, full)[b] \subseteq Agents
    BY <2>2, NewsPassedOn
  <2>6. frames' \in [Agents -> SUBSET Agents]
    BY <2>1, <2>5 DEF TypeInv, NewsInv
  <2> QED
    BY <2>4, <2>6 DEF TypeInv, NewsInv
<1>2. CASE link[a] = 0
  <2>1. /\ frames' = [frames EXCEPT ![a] = {}]
        /\ UNCHANGED <<commands, known, late, links, table, stopped, dead>>
    BY <1>2 DEF Report
  <2> QED
    BY <2>1 DEF TypeInv, ListsInv, TableInv, LinkInv, NewsInv, commands, links
<1> QED
  BY <1>1, <1>2

-----------------------------------------------------------------------------
(* A list stays issued, and more connections can be made. *)
LEMMA TypesGrow ==
    ASSUME NEW n, NEW m \in Nat, NEW k \in Nat, m <= k, NEW issued, NEW more, issued \subseteq more
    PROVE  /\ ConnsUpTo(n, m) \subseteq ConnsUpTo(n, k)
           /\ Seq(ConnsUpTo(n, m)) \subseteq Seq(ConnsUpTo(n, k))
           /\ Seq(SendsTo(n, m, issued)) \subseteq Seq(SendsTo(n, k, more))
<1>1. ConnsUpTo(n, m) \subseteq ConnsUpTo(n, k)
  BY Chain DEF ConnsUpTo
<1>2. Seq(ConnsUpTo(n, m)) \subseteq Seq(ConnsUpTo(n, k))
  BY <1>1
<1>3. SendsTo(n, m, issued) \subseteq SendsTo(n, k, more)
  BY <1>2 DEF SendsTo, AnySend
<1> QED
  BY <1>1, <1>2, <1>3

LEMMA IssueTypes ==
    ASSUME TypeInv, NEW target \in Targets, Issue(target)
    PROVE  TypeInv'
<1> DEFINE len == Len(lists)
<1>1. /\ len < MaxLists /\ lists' = Append(lists, target)
      /\ mailbox' = [mailbox EXCEPT ![0] = IF dead[0] THEN @ ELSE Append(@, Len(lists'))]
      /\ UNCHANGED <<sends, simulation, handled, reports, links, table, stopped, dead>>
  BY DEF Issue
<1>2. lists \in Seq(Target) /\ target \in Target /\ len \in Nat
  BY RoutingAssumption DEF TypeInv, ListsInv
<1>3. /\ lists' \in Seq(Target) /\ Len(lists') = len + 1
      /\ DOMAIN lists' = 1 .. (len + 1) /\ DOMAIN lists = 1 .. len
  BY <1>1, <1>2, AppendProperties, LenProperties
<1> HIDE DEF len
<1>4. DOMAIN lists \subseteq DOMAIN lists' /\ len + 1 \in DOMAIN lists' /\ len + 1 <= MaxLists
  BY <1>1, <1>2, <1>3, RoutingAssumption
<1>5. Seq(DOMAIN lists) \subseteq Seq(DOMAIN lists')
  BY <1>4
<1>6. mailbox' \in [Servers -> Seq(DOMAIN lists')]
  <2>1. mailbox \in [Servers -> Seq(DOMAIN lists)]
    BY DEF TypeInv, ListsInv
  <2>2. mailbox[0] \in Seq(DOMAIN lists') /\ Append(mailbox[0], len + 1) \in Seq(DOMAIN lists')
    <3>1. 0 \in Servers
      BY Chain, RoutingAssumption DEF Servers
    <3>2. mailbox[0] \in Seq(DOMAIN lists')
      BY <1>5, <2>1, <3>1
    <3> QED
      BY <1>4, <3>2
  <2>3. mailbox' = [mailbox EXCEPT ![0] = IF dead[0] THEN mailbox[0] ELSE Append(mailbox[0], len + 1)]
    BY <1>1, <1>3
  <2> QED
    BY <1>5, <2>1, <2>2, <2>3
<1>7. \A n \in Servers : sends'[n] \in Seq(SendsTo(n, made'[n + 1], DOMAIN lists'))
  <2> SUFFICES ASSUME NEW n \in Servers
               PROVE  sends'[n] \in Seq(SendsTo(n, made'[n + 1], DOMAIN lists'))
    OBVIOUS
  <2>1. sends' = sends /\ made' = made
    BY <1>1 DEF links
  <2>2. sends[n] \in Seq(SendsTo(n, made[n + 1], DOMAIN lists)) /\ made[n + 1] \in Nat
    <3>1. sends[n] \in Seq(SendsTo(n, made[n + 1], DOMAIN lists))
      BY DEF TypeInv, ListsInv
    <3>2. n + 1 \in Agents /\ MaxBreaks \in Nat
      BY Chain
    <3>3. made[n + 1] \in Nat
      BY <3>2 DEF TypeInv, LinkInv
    <3> QED
      BY <3>1, <3>3
  <2>3. Seq(SendsTo(n, made[n + 1], DOMAIN lists)) \subseteq Seq(SendsTo(n, made[n + 1], DOMAIN lists'))
    <3> DEFINE m == made[n + 1]
    <3>1. m \in Nat /\ m <= m
      BY <2>2
    <3> HIDE DEF m
    <3>2. Seq(SendsTo(n, m, DOMAIN lists)) \subseteq Seq(SendsTo(n, m, DOMAIN lists'))
      BY <1>4, <3>1, TypesGrow
    <3> QED
      BY <3>2 DEF m
  <2> QED
    BY <2>1, <2>2, <2>3
<1>8. simulation' \in [Agents -> Seq(DOMAIN lists')] /\ handled' \in [Agents -> Seq(DOMAIN lists')]
  BY <1>1, <1>5 DEF TypeInv, ListsInv
<1>9. ListsInv'
  BY <1>1, <1>3, <1>4, <1>6, <1>7, <1>8 DEF TypeInv, ListsInv
<1>10. TableInv' /\ LinkInv' /\ NewsInv'
  BY <1>1 DEF TypeInv, TableInv, LinkInv, NewsInv, links, reports
<1> QED
  BY <1>9, <1>10 DEF TypeInv

(* A list that was given to the agent's server joins its mailbox. *)
LEMMA PassOnTypes ==
    ASSUME TypeInv, NEW a \in Agents, NEW list \in DOMAIN lists, PassOn(a, list)
    PROVE  mailbox' \in [Servers -> Seq(DOMAIN lists)]
<1>1. \A n \in Servers : mailbox[n] \in Seq(DOMAIN lists) /\ Append(mailbox[n], list) \in Seq(DOMAIN lists)
  BY DEF TypeInv, ListsInv
<1>2. mailbox' = [n \in Servers |-> IF n = a /\ ~dead[n] THEN Append(mailbox[n], list) ELSE mailbox[n]]
  BY DEF PassOn
<1> QED
  BY <1>1, <1>2

(* A send that is served, or passed over, loses its first connection. *)
LEMMA ServedTypes ==
    ASSUME TypeInv, NEW n \in Servers, NEW i \in DOMAIN sends[n], Served(n, i)
    PROVE  /\ \A k \in Servers : sends'[k] \in Seq(SendsTo(k, made[k + 1], DOMAIN lists))
           /\ sends' = [k \in Servers |-> sends'[k]]
<1> DEFINE m == made[n + 1]
           issued == DOMAIN lists
           to == sends[n][i].to
           rest == Tail(to)
           one == [sends[n][i] EXCEPT !.to = rest]
           left == [sends[n] EXCEPT ![i] = one]
           new == Sending(left)
<1>1. /\ sends[n] \in Seq(SendsTo(n, m, issued)) /\ sends[n][i] \in SendsTo(n, m, issued)
      /\ sends = [k \in Servers |-> sends[k]]
      /\ \A k \in Servers : sends[k] \in Seq(SendsTo(k, made[k + 1], DOMAIN lists))
  BY DEF TypeInv, ListsInv
<1>2. sends' = [sends EXCEPT ![n] = new]
  <2>1. left = [sends[n] EXCEPT ![i].to = Tail(@)]
    OBVIOUS
  <2>2. sends' = [sends EXCEPT ![n] = Sending([sends[n] EXCEPT ![i].to = Tail(@)])]
    BY Zenon DEF Served
  <2> QED
    BY <2>1, <2>2, Zenon
<1>3. to \in Seq(ConnsUpTo(n, m)) /\ to # <<>> /\ IsInjective(to)
  BY <1>1 DEF SendsTo, AnySend
<1> HIDE DEF m, issued, to
<1>4. rest \in Seq(ConnsUpTo(n, m)) /\ IsInjective(rest)
  <2>1. rest \in Seq(ConnsUpTo(n, m)) /\ Len(rest) = Len(to) - 1
        /\ \A k \in 1 .. Len(rest) : rest[k] = to[k + 1]
    BY <1>3, HeadTailProperties, EmptySeq
  <2>2. DOMAIN rest = 1 .. Len(rest) /\ DOMAIN to = 1 .. Len(to) /\ Len(to) \in Nat
    BY <1>3, <2>1, LenProperties
  <2> HIDE DEF rest
  <2>3. ASSUME NEW j \in DOMAIN rest, NEW k \in DOMAIN rest, rest[j] = rest[k]
        PROVE  j = k
    <3>1. j + 1 \in DOMAIN to /\ k + 1 \in DOMAIN to /\ to[j + 1] = to[k + 1]
      BY <2>1, <2>2, <2>3
    <3>2. j + 1 = k + 1
      BY <1>3, <3>1 DEF IsInjective
    <3> QED
      BY <2>2, <3>2
  <2> QED
    BY <2>1, <2>3 DEF IsInjective
<1> HIDE DEF rest
<1>5. one \in AnySend(n, m, issued) /\ one.to = rest
  BY <1>1, <1>4 DEF SendsTo, AnySend
<1>6. sends[n] \in Seq(AnySend(n, m, issued)) /\ \A j \in DOMAIN sends[n] : IsInjective(sends[n][j].to)
  BY <1>1 DEF SendsTo
<1> HIDE DEF one
<1>7. left \in Seq(AnySend(n, m, issued)) /\ \A j \in DOMAIN left : IsInjective(left[j].to)
  BY <1>4, <1>5, <1>6
<1> HIDE DEF left
<1>8. new \in Seq(SendsTo(n, m, issued))
  BY <1>7, SendingLeft
<1> HIDE DEF new
<1> QED
  BY <1>1, <1>2, <1>8 DEF m, issued

LEMMA CoreTypes ==
    ASSUME TypeInv, NEW a \in Agents, NEW list \in DOMAIN lists, CoreHandles(a, list)
    PROVE  /\ mailbox' \in [Servers -> Seq(DOMAIN lists)]
           /\ simulation' \in [Agents -> Seq(DOMAIN lists)]
<1>1. mailbox \in [Servers -> Seq(DOMAIN lists)] /\ simulation \in [Agents -> Seq(DOMAIN lists)]
  BY DEF TypeInv, ListsInv
<1>2. Append(simulation[a], list) \in Seq(DOMAIN lists)
  BY <1>1
<1>3. CASE mailbox' = mailbox /\ simulation' = [simulation EXCEPT ![a] = Append(@, list)]
  BY <1>1, <1>2, <1>3
<1>4. CASE PassOn(a, list) /\ simulation' = simulation
  BY <1>1, <1>4, PassOnTypes
<1>5. CASE mailbox' = mailbox /\ simulation' = simulation
  BY <1>1, <1>5
<1> QED
  BY <1>3, <1>4, <1>5, Zenon DEF CoreHandles

LEMMA ServeTypes ==
    ASSUME TypeInv, NEW n \in Servers, NEW i \in DOMAIN sends[n], Serve(n, i)
    PROVE  TypeInv'
<1> DEFINE c == Head(sends[n][i].to)
<1>1. sends[n][i] \in SendsTo(n, made[n + 1], DOMAIN lists)
  BY DEF TypeInv, ListsInv
<1>2. c \in ConnsUpTo(n, made[n + 1]) /\ sends[n][i].list \in DOMAIN lists
  BY <1>1 DEF SendsTo, AnySend
<1>3. c \in Conns /\ c[1] = n + 1 /\ c[2] <= made[c[1]] /\ c[1] \in Agents
  BY <1>2, Chain DEF ConnsUpTo
<1>4. UNCHANGED <<lists, handled, reports, links, table, dead>>
  BY DEF Serve
<1>5. NewsInv' /\ LinkInv'
  BY <1>4 DEF TypeInv, NewsInv, LinkInv, reports, links
<1>6. CASE is_closed(c)
  <2>1. stopped' = stopped \cup {c} /\ UNCHANGED <<sends, simulation, mailbox>>
    BY <1>6 DEF Serve
  <2>2. ListsInv'
    BY <1>4, <2>1 DEF TypeInv, ListsInv, links
  <2>3. TableInv'
    BY <1>3, <1>4, <2>1 DEF TypeInv, TableInv, links, reports
  <2> QED
    BY <1>5, <2>2, <2>3 DEF TypeInv
<1>7. CASE ~is_closed(c)
  <2>1. CoreHandles(c[1], sends[n][i].list) /\ Served(n, i) /\ stopped' = stopped
    BY <1>7 DEF Serve
  <2>2. /\ mailbox' \in [Servers -> Seq(DOMAIN lists)]
        /\ simulation' \in [Agents -> Seq(DOMAIN lists)]
    BY <1>2, <1>3, <2>1, CoreTypes
  <2>3. /\ \A k \in Servers : sends'[k] \in Seq(SendsTo(k, made[k + 1], DOMAIN lists))
        /\ sends' = [k \in Servers |-> sends'[k]]
    BY <2>1, ServedTypes
  <2>4. ListsInv'
    BY <1>4, <2>2, <2>3 DEF TypeInv, ListsInv, links
  <2>5. TableInv'
    BY <1>4, <2>1 DEF TypeInv, TableInv, links, reports
  <2> QED
    BY <1>5, <2>4, <2>5 DEF TypeInv
<1> QED
  BY <1>6, <1>7

LEMMA PassOverTypes ==
    ASSUME TypeInv, NEW n \in Servers, NEW i \in DOMAIN sends[n], PassOver(n, i)
    PROVE  TypeInv'
<1>1. /\ Served(n, i)
      /\ UNCHANGED <<lists, mailbox, simulation, handled, reports, links, table, stopped, dead>>
  BY DEF PassOver
<1>2. /\ \A k \in Servers : sends'[k] \in Seq(SendsTo(k, made[k + 1], DOMAIN lists))
      /\ sends' = [k \in Servers |-> sends'[k]]
  BY <1>1, ServedTypes
<1>3. ListsInv'
  BY <1>1, <1>2 DEF TypeInv, ListsInv, links
<1>4. TableInv' /\ LinkInv' /\ NewsInv'
  BY <1>1 DEF TypeInv, TableInv, LinkInv, NewsInv, links, reports
<1> QED
  BY <1>3, <1>4 DEF TypeInv

(* A new connection is not in the map yet. *)
LEMMA ConnectTypes ==
    ASSUME TypeInv, NEW a \in Agents, Connect(a)
    PROVE  TypeInv'
<1> DEFINE m == made[a]
           n == a - 1
<1>1. /\ link[a] = 0 /\ m <= MaxBreaks /\ ~dead[n]
      /\ made' = [made EXCEPT ![a] = m + 1]
      /\ link' = [link EXCEPT ![a] = made'[a]]
      /\ table' = [table EXCEPT ![n] = Append(@, <<a, made'[a]>>)]
      /\ UNCHANGED <<commands, reports, forwards, breaks, stopped, dead>>
  BY DEF Connect, join
<1>2. /\ made \in [Agents -> 1 .. (MaxBreaks + 1)] /\ link \in [Agents -> Nat]
      /\ \A b \in Agents : link[b] \in {0, made[b]}
      /\ m \in Nat /\ m >= 1 /\ MaxBreaks \in Nat /\ n \in Servers /\ n + 1 = a
  BY Chain DEF TypeInv, LinkInv
<1>3. made'[a] = m + 1 /\ \A b \in Agents : b # a => made'[b] = made[b] /\ link'[b] = link[b]
  BY <1>1, <1>2
<1>4. link' = [link EXCEPT ![a] = m + 1]
  BY <1>1, <1>3
<1>5. table' = [table EXCEPT ![n] = Append(@, <<a, m + 1>>)]
  BY <1>1, <1>3
<1>6. LinkInv'
  <2>1. made' \in [Agents -> 1 .. (MaxBreaks + 1)] /\ link' \in [Agents -> Nat]
    BY <1>1, <1>2, <1>4
  <2>2. \A b \in Agents : link'[b] \in {0, made'[b]}
    BY <1>2, <1>3, <1>4
  <2> QED
    BY <1>1, <2>1, <2>2 DEF TypeInv, LinkInv
<1>7. \A b \in Agents : made[b] \in Nat /\ made'[b] \in Nat /\ made[b] <= made'[b]
  BY <1>2, <1>3
<1>8. \A k \in Servers : /\ Seq(ConnsUpTo(k, made[k + 1])) \subseteq Seq(ConnsUpTo(k, made'[k + 1]))
                         /\ Seq(SendsTo(k, made[k + 1], DOMAIN lists))
                            \subseteq Seq(SendsTo(k, made'[k + 1], DOMAIN lists))
  <2> SUFFICES ASSUME NEW k \in Servers
               PROVE  /\ Seq(ConnsUpTo(k, made[k + 1])) \subseteq Seq(ConnsUpTo(k, made'[k + 1]))
                      /\ Seq(SendsTo(k, made[k + 1], DOMAIN lists))
                         \subseteq Seq(SendsTo(k, made'[k + 1], DOMAIN lists))
    OBVIOUS
  <2> DEFINE x == made[k + 1]
             y == made'[k + 1]
  <2>1. x \in Nat /\ y \in Nat /\ x <= y
    BY <1>7, Chain
  <2> HIDE DEF x, y
  <2>2. /\ Seq(ConnsUpTo(k, x)) \subseteq Seq(ConnsUpTo(k, y))
        /\ Seq(SendsTo(k, x, DOMAIN lists)) \subseteq Seq(SendsTo(k, y, DOMAIN lists))
    BY <2>1, TypesGrow
  <2> QED
    BY <2>2 DEF x, y
<1>9. ListsInv'
  <2>1. \A k \in Servers : sends'[k] \in Seq(SendsTo(k, made'[k + 1], DOMAIN lists))
    BY <1>1, <1>8 DEF TypeInv, ListsInv, commands
  <2> QED
    BY <1>1, <2>1 DEF TypeInv, ListsInv, commands
<1>10. TableInv'
  <2> DEFINE c == <<a, m + 1>>
             old == table[n]
             new == Append(old, c)
  <2>1. old \in Seq(ConnsUpTo(n, m)) /\ IsInjective(old)
    BY <1>2 DEF TypeInv, TableInv
  <2>2. c \in ConnsUpTo(n, m + 1) /\ old \in Seq(ConnsUpTo(n, m + 1))
    <3>1. c \in ConnsUpTo(n, m + 1)
      BY <1>1, <1>2 DEF ConnsUpTo, Conns
    <3>2. old \in Seq(ConnsUpTo(n, m + 1))
      BY <1>2, <1>3, <1>8, <2>1
    <3> QED
      BY <3>1, <3>2
  <2>3. new \in Seq(ConnsUpTo(n, m + 1)) /\ IsInjective(new)
    <3>1. new \in Seq(ConnsUpTo(n, m + 1)) /\ DOMAIN new = 1 .. (Len(old) + 1)
          /\ DOMAIN old = 1 .. Len(old) /\ Len(old) \in Nat
          /\ new[Len(old) + 1] = c /\ \A i \in 1 .. Len(old) : new[i] = old[i]
      BY <2>2
    <3>2. \A i \in 1 .. Len(old) : old[i] # c
      BY <2>1, <1>2 DEF ConnsUpTo
    <3> HIDE DEF new, c, old
    <3> DEFINE len == Len(old)
    <3>3. /\ DOMAIN new = 1 .. (len + 1) /\ DOMAIN old = 1 .. len /\ len \in Nat
          /\ new[len + 1] = c /\ \A i \in 1 .. len : new[i] = old[i] /\ old[i] # c
      BY <3>1, <3>2
    <3> HIDE DEF len
    <3>4. ASSUME NEW i \in DOMAIN new, NEW j \in DOMAIN new, new[i] = new[j]
          PROVE  i = j
      <4>1. (i = len + 1) = (j = len + 1)
        BY <3>3, <3>4
      <4>2. CASE i \in 1 .. len /\ j \in 1 .. len
        BY <2>1, <3>3, <3>4, <4>2 DEF IsInjective
      <4> QED
        BY <3>3, <4>1, <4>2
    <3> QED
      BY <3>1, <3>4 DEF IsInjective
  <2> HIDE DEF new, old, c
  <2>4. table' = [table EXCEPT ![n] = new]
    BY <1>5 DEF new, old, c
  <2>5. \A k \in Servers : table'[k] \in Seq(ConnsUpTo(k, made'[k + 1])) /\ IsInjective(table'[k])
    <3> SUFFICES ASSUME NEW k \in Servers
                 PROVE  table'[k] \in Seq(ConnsUpTo(k, made'[k + 1])) /\ IsInjective(table'[k])
      OBVIOUS
    <3>1. CASE k = n
      BY <1>2, <1>3, <2>3, <2>4, <3>1 DEF TypeInv, TableInv
    <3>2. CASE k # n
      BY <1>8, <2>4, <3>2 DEF TypeInv, TableInv
    <3> QED
      BY <3>1, <3>2
  <2>6. table' = [k \in Servers |-> table'[k]]
    BY <2>4 DEF TypeInv, TableInv
  <2>7. stopped' \subseteq Conns /\ \A d \in stopped' : d[2] <= made'[d[1]]
    <3> SUFFICES ASSUME NEW d \in stopped
                 PROVE  d \in Conns /\ d[2] <= made'[d[1]]
      BY <1>1
    <3>1. d \in Conns /\ d[2] <= made[d[1]]
      BY DEF TypeInv, TableInv
    <3>2. d[1] \in Agents /\ d[2] \in Nat
      BY <3>1, Chain
    <3> QED
      BY <1>7, <3>1, <3>2
  <2> QED
    BY <1>1, <2>5, <2>6, <2>7 DEF TypeInv, TableInv, reports
<1>11. NewsInv'
  BY <1>1 DEF TypeInv, NewsInv, reports
<1> QED
  BY <1>6, <1>9, <1>10, <1>11 DEF TypeInv

LEMMA LinkBreaksTypes ==
    ASSUME TypeInv, NEW a \in Agents, LinkBreaks(a)
    PROVE  TypeInv'
<1>1. /\ breaks < MaxBreaks /\ breaks' = breaks + 1
      /\ link' = [b \in Agents |-> IF b \in {a} THEN 0 ELSE link[b]]
      /\ forwards' = [forwards EXCEPT ![a] = FALSE]
      /\ late' = late \/ late' = [late EXCEPT ![<<a, link[a]>>] = Frames(a)]
      /\ frames' = [frames EXCEPT ![a] = {}]
      /\ UNCHANGED <<lists, mailbox, sends, simulation, handled, known, made, table, stopped, dead>>
  BY DEF LinkBreaks, Break, Disconnected
<1>2. ListsInv' /\ TableInv'
  BY <1>1 DEF TypeInv, ListsInv, TableInv
<1>3. LinkInv'
  BY <1>1, Chain DEF TypeInv, LinkInv
<1>4. NewsInv'
  BY <1>1 DEF TypeInv, NewsInv, Frames
<1> QED
  BY <1>2, <1>3, <1>4 DEF TypeInv

LEMMA AgentRestartsTypes ==
    ASSUME TypeInv, NEW a \in Agents, AgentRestarts(a)
    PROVE  TypeInv'
<1> DEFINE behind == {b \in Agents : b = a + 1}
<1>1. /\ breaks < MaxBreaks /\ breaks' = breaks + 1
      /\ link' = [b \in Agents |-> IF b \in {a} \cup behind THEN 0 ELSE link[b]]
      /\ forwards' = [b \in Agents |-> b = a \/ (forwards[b] /\ b \notin behind)]
      /\ simulation' = [simulation EXCEPT ![a] = <<>>]
      /\ frames' = [frames EXCEPT ![a] = {}]
      /\ mailbox' = [n \in Servers |-> IF n = a THEN <<>> ELSE mailbox[n]]
      /\ sends' = [n \in Servers |-> IF n = a THEN <<>> ELSE sends[n]]
      /\ table' = [n \in Servers |-> IF n = a THEN <<>> ELSE table[n]]
      /\ dead' = [n \in Servers |-> n # a /\ dead[n]]
      /\ known' = [c \in Conns |-> IF c[1] \in behind THEN Nobody ELSE known[c]]
      /\ \E lost \in BOOLEAN : late' =
            [c \in Conns |-> IF c[1] \in behind THEN {}
                             ELSE IF c = <<a, link[a]>> /\ ~lost THEN Frames(a) ELSE late[c]]
      /\ UNCHANGED <<lists, handled, made, stopped>>
  BY DEF AgentRestarts, Break, Disconnected
<1> HIDE DEF behind
<1>2. ListsInv'
  <2>1. mailbox' \in [Servers -> Seq(DOMAIN lists)] /\ simulation' \in [Agents -> Seq(DOMAIN lists)]
    <3>1. /\ mailbox \in [Servers -> Seq(DOMAIN lists)] /\ simulation \in [Agents -> Seq(DOMAIN lists)]
          /\ <<>> \in Seq(DOMAIN lists)
      BY DEF TypeInv, ListsInv
    <3> QED
      BY <1>1, <3>1
  <2>2. \A n \in Servers : sends'[n] \in Seq(SendsTo(n, made[n + 1], DOMAIN lists))
    <3> SUFFICES ASSUME NEW n \in Servers
                 PROVE  sends'[n] \in Seq(SendsTo(n, made[n + 1], DOMAIN lists))
      OBVIOUS
    <3>1. sends'[n] = IF n = a THEN <<>> ELSE sends[n]
      BY <1>1
    <3>2. /\ sends[n] \in Seq(SendsTo(n, made[n + 1], DOMAIN lists))
          /\ <<>> \in Seq(SendsTo(n, made[n + 1], DOMAIN lists))
      BY DEF TypeInv, ListsInv
    <3> QED
      BY <3>1, <3>2, Zenon
  <2> QED
    BY <1>1, <2>1, <2>2 DEF TypeInv, ListsInv
<1>3. TableInv'
  <2>1. \A n \in Servers : table'[n] \in Seq(ConnsUpTo(n, made[n + 1])) /\ IsInjective(table'[n])
    <3> SUFFICES ASSUME NEW n \in Servers
                 PROVE  table'[n] \in Seq(ConnsUpTo(n, made[n + 1])) /\ IsInjective(table'[n])
      OBVIOUS
    <3>1. table'[n] = IF n = a THEN <<>> ELSE table[n]
      BY <1>1
    <3>2. table[n] \in Seq(ConnsUpTo(n, made[n + 1])) /\ IsInjective(table[n])
      BY DEF TypeInv, TableInv
    <3>3. <<>> \in Seq(ConnsUpTo(n, made[n + 1])) /\ IsInjective(<<>>)
      BY DEF IsInjective
    <3> QED
      BY <3>1, <3>2, <3>3, Zenon
  <2>2. Nobody \in [Agents -> 0 .. Absent]
    BY Chain DEF Nobody, Absent
  <2>3. known' \in [Conns -> [Agents -> 0 .. Absent]]
    BY <1>1, <2>2 DEF TypeInv, TableInv
  <2> QED
    BY <1>1, <2>1, <2>3 DEF TypeInv, TableInv
<1>4. LinkInv'
  <2>1. link' \in [Agents -> Nat] /\ forwards' \in [Agents -> BOOLEAN] /\ breaks' \in 0 .. MaxBreaks
    BY <1>1, Chain DEF TypeInv, LinkInv
  <2>2. \A b \in Agents : link'[b] \in {0, made[b]}
    BY <1>1 DEF TypeInv, LinkInv
  <2> QED
    BY <1>1, <2>1, <2>2 DEF TypeInv, LinkInv
<1>5. NewsInv'
  BY <1>1 DEF TypeInv, NewsInv, Frames
<1> QED
  BY <1>2, <1>3, <1>4, <1>5 DEF TypeInv

LEMMA SimulationHandlesTypes ==
    ASSUME TypeInv, NEW a \in Agents, SimulationHandles(a)
    PROVE  TypeInv'
<1> DEFINE next == Head(simulation[a])
<1>1. /\ simulation[a] # <<>>
      /\ simulation' = [simulation EXCEPT ![a] = Tail(@)]
      /\ handled' = [handled EXCEPT ![a] = Append(@, next)]
      /\ PassOn(a, next)
      /\ UNCHANGED <<lists, sends, reports, links, table, stopped, dead>>
  BY DEF SimulationHandles
<1>2. simulation[a] \in Seq(DOMAIN lists) /\ handled[a] \in Seq(DOMAIN lists)
  BY DEF TypeInv, ListsInv
<1>3. next \in DOMAIN lists /\ Tail(simulation[a]) \in Seq(DOMAIN lists)
  BY <1>1, <1>2, HeadTailProperties
<1> HIDE DEF next
<1>4. Append(handled[a], next) \in Seq(DOMAIN lists)
  BY <1>2, <1>3
<1>5. mailbox' \in [Servers -> Seq(DOMAIN lists)]
  BY <1>1, <1>3, PassOnTypes
<1>6. simulation' \in [Agents -> Seq(DOMAIN lists)] /\ handled' \in [Agents -> Seq(DOMAIN lists)]
  BY <1>1, <1>3, <1>4 DEF TypeInv, ListsInv
<1>7. ListsInv'
  BY <1>1, <1>5, <1>6 DEF TypeInv, ListsInv, links
<1>8. TableInv' /\ LinkInv' /\ NewsInv'
  BY <1>1 DEF TypeInv, TableInv, LinkInv, NewsInv, links, reports
<1> QED
  BY <1>7, <1>8 DEF TypeInv

LEMMA TimePassesTypes ==
    ASSUME TypeInv, TimePasses
    PROVE  TypeInv'
<1>1. /\ known' = [c \in Conns |-> [a \in Agents |->
              IF known[c][a] < Expiry THEN known[c][a] + 1 ELSE known[c][a]]]
      /\ UNCHANGED <<commands, frames, late, links, table, stopped, dead>>
  BY DEF TimePasses
<1>2. known' \in [Conns -> [Agents -> 0 .. Absent]]
  <2>1. \A c \in Conns : \A a \in Agents :
           (IF known[c][a] < Expiry THEN known[c][a] + 1 ELSE known[c][a]) \in 0 .. Absent
    <3> SUFFICES ASSUME NEW c \in Conns, NEW a \in Agents
                 PROVE  (IF known[c][a] < Expiry THEN known[c][a] + 1 ELSE known[c][a]) \in 0 .. Absent
      OBVIOUS
    <3>1. known[c][a] \in 0 .. Absent
      BY DEF TypeInv, TableInv
    <3> QED
      BY <3>1, Chain DEF Absent
  <2> QED
    BY <1>1, <2>1
<1> QED
  BY <1>1, <1>2 DEF TypeInv, ListsInv, TableInv, LinkInv, NewsInv, commands, links

LEMMA InitTypes ==
    ASSUME Init
    PROVE  TypeInv
<1>1. ListsInv
  <2>1. \A n \in Servers : sends[n] = <<>>
    BY DEF Init
  <2> QED
    BY <2>1, RoutingAssumption DEF Init, ListsInv
<1>2. TableInv
  <2>1. \A n \in Servers : /\ table[n] \in Seq(ConnsUpTo(n, made[n + 1]))
                           /\ IsInjective(table[n])
    <3> SUFFICES ASSUME NEW n \in Servers
                 PROVE  table[n] \in Seq(ConnsUpTo(n, made[n + 1])) /\ IsInjective(table[n])
      OBVIOUS
    <3>1. table[n] = <<<<n + 1, 1>>>> /\ made[n + 1] = 1
      BY Chain DEF Init
    <3>2. <<n + 1, 1>> \in ConnsUpTo(n, 1)
      BY Chain DEF ConnsUpTo, Conns
    <3> QED
      BY <3>1, <3>2 DEF IsInjective
  <2>2. known \in [Conns -> [Agents -> 0 .. Absent]]
    BY Chain DEF Init, Nobody, Absent
  <2> QED
    BY <2>1, <2>2 DEF Init, TableInv
<1>3. LinkInv /\ NewsInv
  BY Chain DEF Init, LinkInv, NewsInv
<1> QED
  BY <1>1, <1>2, <1>3 DEF TypeInv

LEMMA TypesStep ==
    ASSUME TypeInv, [Next]_vars
    PROVE  TypeInv'
<1>1. CASE \E target \in Targets : Issue(target)
  BY <1>1, IssueTypes
<1>2. CASE \E n \in Servers : \E full \in BOOLEAN : PollServer(n, full)
  BY <1>2, PollServerTypes
<1>3. CASE \E n \in Servers : \E i \in DOMAIN sends[n] : Serve(n, i) \/ PassOver(n, i)
  BY <1>3, ServeTypes, PassOverTypes
<1>4. CASE \E a \in Agents : Connect(a) \/ LinkBreaks(a) \/ AgentRestarts(a)
  BY <1>4, ConnectTypes, LinkBreaksTypes, AgentRestartsTypes
<1>5. CASE \E a \in Agents : SimulationHandles(a) \/ \E full \in BOOLEAN : Report(a, full)
  BY <1>5, SimulationHandlesTypes, ReportTypes
<1>6. CASE TimePasses
  BY <1>6, TimePassesTypes
<1>7. CASE UNCHANGED vars
  BY <1>7 DEF TypeInv, ListsInv, TableInv, LinkInv, NewsInv, vars, commands, reports, links
<1> QED
  BY <1>1, <1>2, <1>3, <1>4, <1>5, <1>6, <1>7, Zenon DEF Next

(* The type invariant says less. *)
LEMMA TypesImply ==
    ASSUME TypeInv
    PROVE  TypeOK
<1>1. \A n \in Servers :
         /\ Range(mailbox[n]) \subseteq DOMAIN lists
         /\ \A i \in DOMAIN sends[n] :
               /\ sends[n][i].list \in DOMAIN lists
               /\ sends[n][i].to # <<>> /\ Range(sends[n][i].to) \subseteq {n + 1} \X Nat
         /\ Range(table[n]) \subseteq Conns
  <2> SUFFICES ASSUME NEW n \in Servers
               PROVE  /\ Range(mailbox[n]) \subseteq DOMAIN lists
                      /\ \A i \in DOMAIN sends[n] :
                            /\ sends[n][i].list \in DOMAIN lists
                            /\ sends[n][i].to # <<>> /\ Range(sends[n][i].to) \subseteq {n + 1} \X Nat
                      /\ Range(table[n]) \subseteq Conns
    OBVIOUS
  <2>1. mailbox[n] \in Seq(DOMAIN lists)
    BY DEF TypeInv, ListsInv
  <2>2. \A i \in DOMAIN sends[n] : sends[n][i] \in SendsTo(n, made[n + 1], DOMAIN lists)
    BY DEF TypeInv, ListsInv
  <2>3. \A c \in ConnsUpTo(n, made[n + 1]) : c \in {n + 1} \X Nat /\ c \in Conns
    BY Chain DEF ConnsUpTo, Conns
  <2>4. table[n] \in Seq(ConnsUpTo(n, made[n + 1]))
    BY DEF TypeInv, TableInv
  <2> QED
    BY <2>1, <2>2, <2>3, <2>4 DEF Range, SendsTo, AnySend
<1>2. \A a \in Agents : link[a] \in 0 .. made[a] /\ made[a] <= MaxBreaks + 1
  <2> SUFFICES ASSUME NEW a \in Agents
               PROVE  link[a] \in 0 .. made[a] /\ made[a] <= MaxBreaks + 1
    OBVIOUS
  <2>1. link[a] \in {0, made[a]} /\ made[a] \in 1 .. (MaxBreaks + 1)
    BY DEF TypeInv, LinkInv
  <2> QED
    BY <2>1, Chain
<1> QED
  BY <1>1, <1>2 DEF TypeInv, ListsInv, TableInv, LinkInv, NewsInv, TypeOK

(***************************************************************************)
(* Every variable of the routing has its type: lists in mailboxes and on   *)
(* their way are lists that were issued, a server sends to connections of  *)
(* its own agent alone, and none is made beyond the bound.                 *)
(***************************************************************************)
THEOREM RoutingTypes == Spec => []TypeOK
<1>1. Init => TypeInv
  BY InitTypes
<1>2. TypeInv /\ [Next]_vars => TypeInv'
  BY TypesStep
<1>3. TypeInv => TypeOK
  BY TypesImply
<1> QED
  BY <1>1, <1>2, <1>3, PTL DEF Spec

-----------------------------------------------------------------------------
(* Whether a connection stands is seen in these alone. *)
LEMMA StandsOn ==
    ASSUME TypeInv, StandInv, link' = link, table' = table, stopped' = stopped, dead' = dead,
           late' = late, breaks' = breaks
    PROVE  StandInv'
BY DEF StandInv, Stands, NothingBroke

LEMMA PollStands ==
    ASSUME TypeInv, StandInv, NEW n \in Servers, NEW came, Poll(n, came),
           \A c \in Conns : c[1] = n + 1 /\ came[c] # {} =>
               late[c] # {} \/ (link[n + 1] # 0 /\ c = <<n + 1, link[n + 1]>>)
    PROVE  StandInv'
<1> DEFINE stays ==
              /\ table' = [table EXCEPT ![n] = Cleaned(n)]
              /\ link' = link /\ dead' = dead
           panics ==
              /\ \E c \in Conns : c[1] = n + 1 /\ came[c] # {} /\ c \notin Range(Cleaned(n))
              /\ dead' = [dead EXCEPT ![n] = TRUE]
              /\ link' = [link EXCEPT ![n + 1] = 0]
              /\ table' = [table EXCEPT ![n] = <<>>]
<1>1. /\ stays \/ panics
      /\ late' = [c \in Conns |-> IF c[1] = n + 1 THEN {} ELSE late[c]]
      /\ stopped' = stopped /\ breaks' = breaks /\ ~dead[n]
  BY PollDoes
<1>2. \A i \in DOMAIN table[n] :
         table[n][i] \notin stopped => \E k \in DOMAIN Cleaned(n) : Cleaned(n)[k] = table[n][i]
  BY TableCleaned DEF Range
<1>3. /\ table = [k \in Servers |-> table[k]] /\ link \in [Agents -> Nat]
      /\ dead \in [Servers -> BOOLEAN]
  BY DEF TypeInv, TableInv, LinkInv
<1>4. \A a \in Agents : Stands(a)
  BY DEF StandInv
<1>5. CASE stays
  <2>1. ASSUME NEW a \in Agents
        PROVE  Stands(a)'
    <3> DEFINE c == <<a, link[a]>>
    <3>1. CASE a - 1 = n
      <4>1. table'[a - 1] = Cleaned(n) /\ link' = link /\ stopped' = stopped /\ dead' = dead
        BY <1>1, <1>3, <1>5, <3>1
      <4>2. ASSUME link[a] # 0
            PROVE  c \notin stopped /\ ~dead[a - 1] /\ \E k \in DOMAIN Cleaned(n) : Cleaned(n)[k] = c
        <5>1. c \notin stopped /\ ~dead[a - 1] /\ \E i \in DOMAIN table[n] : table[n][i] = c
          BY <1>4, <3>1, <4>2 DEF Stands
        <5> QED
          BY <1>2, <5>1
      <4> QED
        BY <4>1, <4>2 DEF Stands
    <3>2. CASE a - 1 # n
      <4>1. table'[a - 1] = table[a - 1] /\ link' = link /\ stopped' = stopped /\ dead' = dead
        BY <1>1, <1>3, <1>5, <3>2, Chain
      <4> QED
        BY <1>4, <4>1 DEF Stands
    <3> QED
      BY <3>1, <3>2
  <2>2. breaks' = 0 => NothingBroke'
    BY <1>1, <1>5 DEF StandInv, NothingBroke
  <2> QED
    BY <2>1, <2>2 DEF StandInv
<1>6. CASE panics
  <2>1. ASSUME NEW a \in Agents
        PROVE  Stands(a)'
    <3>1. CASE a = n + 1
      BY <1>3, <1>6, <3>1 DEF Stands
    <3>2. CASE a # n + 1
      <4>1. a - 1 # n /\ a - 1 \in Servers
        BY <3>2, Chain
      <4>2. link'[a] = link[a] /\ table'[a - 1] = table[a - 1] /\ dead'[a - 1] = dead[a - 1]
        BY <1>3, <1>6, <3>2, <4>1
      <4> QED
        BY <1>1, <1>4, <4>2 DEF Stands
    <3> QED
      BY <3>1, <3>2
  <2>2. breaks # 0
    <3> SUFFICES ASSUME NothingBroke
                 PROVE  FALSE
      BY DEF StandInv
    <3>1. PICK c \in Conns : c[1] = n + 1 /\ came[c] # {} /\ c \notin Range(Cleaned(n))
      BY <1>6
    <3>2. link[n + 1] # 0 /\ c = <<n + 1, link[n + 1]>>
      BY <3>1 DEF NothingBroke
    <3>3. c \notin stopped /\ \E i \in DOMAIN table[n] : table[n][i] = c
      BY <1>4, <3>2, Chain DEF Stands
    <3> QED
      BY <3>1, <3>3, TableCleaned
  <2> QED
    BY <1>1, <2>1, <2>2 DEF StandInv
<1> QED
  BY <1>1, <1>5, <1>6

LEMMA ReportStands ==
    ASSUME TypeInv, StandInv, NEW a \in Agents, NEW full \in BOOLEAN, Report(a, full)
    PROVE  StandInv'
<1> DEFINE came == [late EXCEPT ![<<a, link[a]>>] = Frames(a)]
<1>1. CASE link[a] # 0
  <2>1. Poll(a - 1, came)
    BY <1>1 DEF Report
  <2>2. a - 1 \in Servers /\ (a - 1) + 1 = a
    BY Chain
  <2>3. \A c \in Conns : came[c] # {} => late[c] # {} \/ c = <<a, link[a]>>
    BY DEF TypeInv, NewsInv
  <2> HIDE DEF came
  <2> DEFINE n == a - 1
  <2>4. /\ n \in Servers /\ Poll(n, came)
        /\ \A c \in Conns : c[1] = n + 1 /\ came[c] # {} =>
               late[c] # {} \/ (link[n + 1] # 0 /\ c = <<n + 1, link[n + 1]>>)
    BY <1>1, <2>1, <2>2, <2>3
  <2> HIDE DEF n
  <2> QED
    BY <2>4, PollStands
<1>2. CASE link[a] = 0
  BY <1>2, StandsOn DEF Report, links
<1> QED
  BY <1>1, <1>2

LEMMA ServeStands ==
    ASSUME TypeInv, StandInv, NEW n \in Servers, NEW i \in DOMAIN sends[n], Serve(n, i)
    PROVE  StandInv'
<1> DEFINE c == Head(sends[n][i].to)
<1>1. UNCHANGED <<lists, handled, reports, links, table, dead>>
  BY DEF Serve
<1>2. CASE is_closed(c)
  <2>1. stopped' = stopped \cup {c} /\ link[c[1]] # c[2]
    BY <1>2 DEF Serve, is_closed
  <2>2. \A a \in Agents : <<a, link[a]>> # c
    BY <2>1
  <2> QED
    BY <1>1, <2>1, <2>2 DEF StandInv, Stands, NothingBroke, links, reports
<1>3. CASE ~is_closed(c)
  BY <1>1, <1>3, StandsOn DEF Serve, links, reports
<1> QED
  BY <1>2, <1>3

LEMMA ConnectStands ==
    ASSUME TypeInv, StandInv, NEW a \in Agents, Connect(a)
    PROVE  StandInv'
<1> DEFINE n == a - 1
           new == Append(table[n], <<a, made'[a]>>)
<1>1. /\ link[a] = 0 /\ ~dead[n]
      /\ made' = [made EXCEPT ![a] = @ + 1]
      /\ link' = [link EXCEPT ![a] = made'[a]]
      /\ table' = [table EXCEPT ![n] = new]
      /\ UNCHANGED <<commands, reports, forwards, breaks, stopped, dead>>
  BY DEF Connect, join
<1>2. /\ table = [k \in Servers |-> table[k]] /\ link \in [Agents -> Nat]
      /\ made \in [Agents -> 1 .. (MaxBreaks + 1)] /\ \A c \in stopped : c[2] <= made[c[1]]
      /\ table[n] \in Seq(ConnsUpTo(n, made[n + 1]))
      /\ n \in Servers /\ n + 1 = a
  BY Chain DEF TypeInv, TableInv, LinkInv
<1>3. made'[a] = made[a] + 1 /\ made[a] \in Nat /\ link'[a] = made'[a]
  BY <1>1, <1>2
<1>4. <<a, made'[a]>> \notin stopped
  BY <1>2, <1>3
<1>5. \E i \in DOMAIN new : new[i] = <<a, made'[a]>>
  <2> DEFINE old == table[n]
             c == <<a, made'[a]>>
  <2>1. Len(old) \in Nat /\ DOMAIN new = 1 .. (Len(old) + 1) /\ new[Len(old) + 1] = c
    BY <1>2
  <2> HIDE DEF old, c, new
  <2>2. \E i \in DOMAIN new : new[i] = c
    BY <2>1
  <2> QED
    BY <2>2 DEF c
<1> HIDE DEF new
<1>6. ASSUME NEW b \in Agents
      PROVE  Stands(b)'
  <2>1. CASE b = a
    <3>1. table'[b - 1] = new /\ link'[b] = made'[a] /\ stopped' = stopped /\ ~dead'[b - 1]
      BY <1>1, <1>2, <1>3, <2>1
    <3> QED
      BY <1>4, <1>5, <2>1, <3>1 DEF Stands
  <2>2. CASE b # a
    <3>1. b - 1 # n /\ b - 1 \in Servers
      BY <2>2, Chain
    <3>2. table'[b - 1] = table[b - 1] /\ link'[b] = link[b] /\ stopped' = stopped /\ dead' = dead
      BY <1>1, <1>2, <2>2, <3>1
    <3>3. Stands(b)
      BY DEF StandInv
    <3> QED
      BY <3>2, <3>3 DEF Stands
  <2> QED
    BY <2>1, <2>2
<1>7. breaks' # 0
  BY <1>1 DEF StandInv, NothingBroke
<1> QED
  BY <1>6, <1>7 DEF StandInv

LEMMA BreakStands ==
    ASSUME TypeInv, StandInv, NEW a \in Agents, LinkBreaks(a) \/ AgentRestarts(a)
    PROVE  StandInv'
<1>1. breaks' # 0
  BY DEF LinkBreaks, AgentRestarts, Break, TypeInv, LinkInv
<1>2. ASSUME NEW b \in Agents
      PROVE  Stands(b)'
  <2>1. b - 1 \in Servers /\ b \in Nat /\ a \in Nat /\ Stands(b)
    BY Chain DEF StandInv
  <2>2. CASE LinkBreaks(a)
    <3>1. /\ link' = [d \in Agents |-> IF d \in {a} THEN 0 ELSE link[d]]
          /\ UNCHANGED <<table, stopped, dead>>
      BY <2>2 DEF LinkBreaks, Disconnected
    <3> QED
      BY <2>1, <3>1 DEF Stands
  <2>3. CASE AgentRestarts(a)
    <3>1. /\ link'[b] = IF b \in {a} \cup {d \in Agents : d = a + 1} THEN 0 ELSE link[b]
          /\ table'[b - 1] = (IF b - 1 = a THEN <<>> ELSE table[b - 1])
          /\ dead'[b - 1] = (b - 1 # a /\ dead[b - 1])
          /\ stopped' = stopped
      BY <2>1, <2>3 DEF AgentRestarts, Disconnected
    <3>2. b - 1 = a => link'[b] = 0
      BY <2>1, <3>1
    <3> QED
      BY <2>1, <3>1, <3>2 DEF Stands
  <2> QED
    BY <2>2, <2>3
<1> QED
  BY <1>1, <1>2 DEF StandInv

LEMMA StandsInit ==
    ASSUME Init
    PROVE  StandInv
<1>1. \A n \in Servers : table[n] = <<<<n + 1, 1>>>>
  BY DEF Init
<1>2. \A a \in Agents : table[a - 1] = <<<<a, 1>>>> /\ link[a] = 1 /\ ~dead[a - 1]
  BY <1>1, Chain DEF Init
<1>3. ASSUME NEW a \in Agents
      PROVE  Stands(a)
  <2> DEFINE t == table[a - 1]
  <2>1. t = <<<<a, 1>>>> /\ link[a] = 1 /\ ~dead[a - 1] /\ stopped = {}
    BY <1>2 DEF Init
  <2>2. 1 \in DOMAIN t /\ t[1] = <<a, 1>>
    BY <2>1
  <2> HIDE DEF t
  <2>3. \E i \in DOMAIN t : t[i] = <<a, 1>>
    BY <2>2
  <2> QED
    BY <2>1, <2>3 DEF t, Stands
<1>4. NothingBroke
  <2>1. /\ link = [a \in Agents |-> 1] /\ dead = [n \in Servers |-> FALSE]
        /\ late = [c \in Conns |-> {}]
    BY DEF Init
  <2> QED
    BY <2>1, Chain DEF NothingBroke
<1> QED
  BY <1>3, <1>4 DEF StandInv

LEMMA StandsStep ==
    ASSUME TypeInv, StandInv, [Next]_vars
    PROVE  StandInv'
<1>1. CASE \E target \in Targets : Issue(target)
  BY <1>1, StandsOn DEF Issue, reports, links
<1>2. CASE \E n \in Servers : \E full \in BOOLEAN : PollServer(n, full)
  <2>1. PICK n \in Servers : Poll(n, late)
    BY <1>2 DEF PollServer
  <2> QED
    BY <2>1, PollStands
<1>3. CASE \E n \in Servers : \E i \in DOMAIN sends[n] : Serve(n, i)
  BY <1>3, ServeStands
<1>4. CASE \E n \in Servers : \E i \in DOMAIN sends[n] : PassOver(n, i)
  BY <1>4, StandsOn DEF PassOver, reports, links
<1>5. CASE \E a \in Agents : Connect(a) \/ LinkBreaks(a) \/ AgentRestarts(a)
  BY <1>5, ConnectStands, BreakStands
<1>6. CASE \E a \in Agents : SimulationHandles(a)
  BY <1>6, StandsOn DEF SimulationHandles, reports, links
<1>7. CASE \E a \in Agents : \E full \in BOOLEAN : Report(a, full)
  BY <1>7, ReportStands
<1>8. CASE TimePasses
  BY <1>8, StandsOn DEF TimePasses, links
<1>9. CASE UNCHANGED vars
  BY <1>9, StandsOn DEF vars, links, reports
<1> QED
  BY <1>1, <1>2, <1>3, <1>4, <1>5, <1>6, <1>7, <1>8, <1>9, Zenon DEF Next

(***************************************************************************)
(* A connection that stands stays in the map of its server, once, and its  *)
(* actor goes on, whatever breaks and whichever lists bring cleanups.      *)
(***************************************************************************)
THEOREM StandingStays == Spec => []ConnectionsThatStandStay
<1>1. Init => TypeInv /\ StandInv
  BY InitTypes, StandsInit
<1>2. (TypeInv /\ StandInv) /\ [Next]_vars => (TypeInv /\ StandInv)'
  BY TypesStep, StandsStep
<1>3. TypeInv /\ StandInv => ConnectionsThatStandStay
  <2> SUFFICES ASSUME TypeInv, StandInv, NEW a \in Agents, link[a] # 0
               PROVE  /\ <<a, link[a]>> \notin stopped
                      /\ \E i \in DOMAIN table[a - 1] : table[a - 1][i] = <<a, link[a]>>
                      /\ IsInjective(table[a - 1])
    BY DEF ConnectionsThatStandStay
  <2>1. IsInjective(table[a - 1])
    BY Chain DEF TypeInv, TableInv
  <2> QED
    BY <2>1 DEF StandInv, Stands
<1> QED
  BY <1>1, <1>2, <1>3, PTL DEF Spec

(***************************************************************************)
(* Nothing but a break makes the server's `expect("Connection not          *)
(* defined")' fail: as long as every connection stands, the connection of  *)
(* an update is in the map, whatever the cleanups and the lists on their   *)
(* way, and no server ends.                                                *)
(***************************************************************************)
THEOREM ServersEndOnlyAfterABreak ==
    Spec => []((breaks = 0) => ConnectionDefined)
<1>1. Init => TypeInv /\ StandInv
  BY InitTypes, StandsInit
<1>2. (TypeInv /\ StandInv) /\ [Next]_vars => (TypeInv /\ StandInv)'
  BY TypesStep, StandsStep
<1>3. TypeInv /\ StandInv => ((breaks = 0) => ConnectionDefined)
  <2> SUFFICES ASSUME StandInv, breaks = 0, NEW n \in Servers
               PROVE  ~dead[n]
    BY DEF ConnectionDefined
  <2>1. n + 1 \in Agents /\ (n + 1) - 1 = n
    BY Chain
  <2> QED
    BY <2>1 DEF StandInv, NothingBroke
<1> QED
  BY <1>1, <1>2, <1>3, PTL DEF Spec

-----------------------------------------------------------------------------
(* The server of a spot, and what kind of spot it is. *)
LEMMA Spots ==
    /\ \A n, m \in Nat : /\ 3 * n = 3 * m => n = m
                         /\ 3 * n + 1 = 3 * m + 1 => n = m
                         /\ 3 * n + 2 = 3 * m + 2 => n = m
                         /\ 3 * n # 3 * m + 1 /\ 3 * n # 3 * m + 2
                         /\ 3 * n + 1 # 3 * m + 2
OBVIOUS

(* What is at each kind of spot. *)
LEMMA AtSpots ==
    ASSUME NEW n \in Servers
    PROVE  /\ \A i, l : At(3 * n, i, l) <=> i \in DOMAIN mailbox[n] /\ l = mailbox[n][i]
           /\ \A i, l : At(3 * n + 1, i, l) <=>
                 i \in DOMAIN sends[n] /\ l = sends[n][i].list /\ Live(n, sends[n][i].to)
           /\ \A i, l : At(3 * n + 2, i, l) <=>
                 i \in DOMAIN simulation[n + 1] /\ l = simulation[n + 1][i]
<1>1. n \in Nat /\ \A m \in Servers : m \in Nat
  BY Chain
<1>2. ASSUME NEW i, NEW l
      PROVE  At(3 * n, i, l) <=> i \in DOMAIN mailbox[n] /\ l = mailbox[n][i]
  BY <1>1, Spots DEF At
<1>3. ASSUME NEW i, NEW l
      PROVE  At(3 * n + 1, i, l) <=>
                i \in DOMAIN sends[n] /\ l = sends[n][i].list /\ Live(n, sends[n][i].to)
  BY <1>1, Spots DEF At
<1>4. ASSUME NEW i, NEW l
      PROVE  At(3 * n + 2, i, l) <=> i \in DOMAIN simulation[n + 1] /\ l = simulation[n + 1][i]
  BY <1>1, Spots DEF At
<1> QED
  BY <1>2, <1>3, <1>4

(* Spots, places and lists are numbers. *)
LEMMA AtNumbers ==
    ASSUME TypeInv, NEW p, NEW i, NEW l, At(p, i, l)
    PROVE  p \in Nat /\ i \in Nat /\ i >= 1 /\ l \in DOMAIN lists /\ l \in Nat
<1>1. PICK n \in Servers :
         \/ p = 3 * n /\ i \in DOMAIN mailbox[n] /\ l = mailbox[n][i]
         \/ p = 3 * n + 1 /\ i \in DOMAIN sends[n] /\ l = sends[n][i].list
         \/ p = 3 * n + 2 /\ i \in DOMAIN simulation[n + 1] /\ l = simulation[n + 1][i]
  BY DEF At
<1>2. n \in Nat /\ n + 1 \in Agents /\ DOMAIN lists \subseteq Nat
  BY Chain DEF TypeInv, ListsInv
<1>3. CASE p = 3 * n /\ i \in DOMAIN mailbox[n] /\ l = mailbox[n][i]
  <2>1. mailbox[n] \in Seq(DOMAIN lists)
    BY DEF TypeInv, ListsInv
  <2> QED
    BY <1>2, <1>3, <2>1
<1>4. CASE p = 3 * n + 1 /\ i \in DOMAIN sends[n] /\ l = sends[n][i].list
  <2>1. sends[n] \in Seq(SendsTo(n, made[n + 1], DOMAIN lists))
    BY DEF TypeInv, ListsInv
  <2>2. i \in Nat /\ i >= 1 /\ sends[n][i] \in SendsTo(n, made[n + 1], DOMAIN lists)
    BY <1>4, <2>1
  <2> QED
    BY <1>2, <1>4, <2>2 DEF SendsTo, AnySend
<1>5. CASE p = 3 * n + 2 /\ i \in DOMAIN simulation[n + 1] /\ l = simulation[n + 1][i]
  <2>1. simulation[n + 1] \in Seq(DOMAIN lists)
    BY <1>2 DEF TypeInv, ListsInv
  <2> QED
    BY <1>2, <1>5, <2>1
<1> QED
  BY <1>1, <1>3, <1>4, <1>5

(* Connections are made, never unmade. *)
LEMMA UnbrokenWas ==
    ASSUME TypeInv, TypeInv', NEW a \in Agents, \A b \in Agents : made[b] <= made'[b], Unbroken(a)'
    PROVE  Unbroken(a)
<1> SUFFICES ASSUME NEW b \in 1 .. a
             PROVE  made[b] = 1
  BY DEF Unbroken
<1>1. b \in Agents
  BY Chain DEF Agents
<1>2. made[b] \in Nat /\ made[b] >= 1 /\ made'[b] = 1 /\ made[b] <= made'[b]
  BY <1>1 DEF TypeInv, LinkInv, Unbroken
<1> QED
  BY <1>2

(* A step that keeps places apart keeps every list in one place. *)
LEMMA UniqueMoves ==
    ASSUME Unique, NEW R,
           \A q, j, l : At(q, j, l)' => \E p, i : At(p, i, l) /\ <<p, i, q, j>> \in R,
           \A p, i, q, j, r, k : <<p, i, q, j>> \in R /\ <<p, i, r, k>> \in R => q = r /\ j = k
    PROVE  Unique'
<1>1. ASSUME NEW r, NEW k, NEW s, NEW m, NEW g, At(r, k, g)', At(s, m, g)'
      PROVE  r = s /\ k = m
  <2>1. PICK p, i : At(p, i, g) /\ <<p, i, r, k>> \in R
    BY <1>1
  <2>2. PICK q, j : At(q, j, g) /\ <<q, j, s, m>> \in R
    BY <1>1
  <2>3. p = q /\ i = j
    BY <2>1, <2>2 DEF Unique
  <2> QED
    BY <2>1, <2>2, <2>3
<1> QED
  BY <1>1 DEF Unique

(* It keeps the order behind a broadcast, too, when it lets nothing fall behind. *)
LEMMA TokensMove ==
    ASSUME TypeInv, TypeInv', Unique, Ordered, NEW R, lists' = lists,
           \A b \in Agents : made[b] <= made'[b],
           \A q, j, l : At(q, j, l)' => \E p, i : At(p, i, l) /\ <<p, i, q, j>> \in R,
           \A p, i, q, j : <<p, i, q, j>> \in R => p <= q /\ q \in Nat,
           \A p, i, q, j, r, k : <<p, i, q, j>> \in R /\ <<p, i, r, k>> \in R => q = r /\ j = k,
           \A a \in Agents : \A p, i, q, j, r, k, s, m, l, g :
              /\ Unbroken(a) /\ At(p, i, l) /\ At(q, j, g) /\ lists[g] = All /\ l < g
              /\ <<p, i, r, k>> \in R /\ <<q, j, s, m>> \in R
              /\ Behind(q, j, p, i) /\ s <= 3 * (a - 1) + 2
              => Behind(s, m, r, k)
    PROVE  Unique' /\ Ordered'
<1>2. ASSUME NEW a \in Agents, Unbroken(a)',
             NEW r, NEW k, NEW l, NEW s, NEW m, NEW g, At(r, k, l)', At(s, m, g)',
             s <= 3 * (a - 1) + 2, l < g, lists[g] = All
      PROVE  Behind(s, m, r, k)
  <2>1. PICK p, i : At(p, i, l) /\ <<p, i, r, k>> \in R
    BY <1>2
  <2>2. PICK q, j : At(q, j, g) /\ <<q, j, s, m>> \in R
    BY <1>2
  <2>3. Unbroken(a)
    BY <1>2, UnbrokenWas
  <2>4. q <= s /\ q \in Nat /\ s \in Nat /\ a \in Nat
    BY <1>2, <2>2, AtNumbers, Chain
  <2>5. q <= 3 * (a - 1) + 2
    BY <1>2, <2>4
  <2>6. Behind(q, j, p, i)
    BY <1>2, <2>1, <2>2, <2>3, <2>5 DEF Ordered
  <2> QED
    BY <1>2, <2>1, <2>2, <2>3, <2>6
<1>3. Ordered'
  BY <1>2 DEF Ordered, Behind
<1> QED
  BY <1>3, UniqueMoves

(* Lists that were handled stay ahead of the others, when none goes back. *)
LEMMA PastStays ==
    ASSUME TypeInv, TypeInv', PastOnce, PastOrdered, lists' = lists, handled' = handled,
           \A b \in Agents : made[b] <= made'[b],
           \A q, j, l : At(q, j, l)' => \E p, i : At(p, i, l) /\ p <= q /\ q \in Nat
    PROVE  PastOnce' /\ PastOrdered'
<1>1. ASSUME NEW a \in Agents, NEW q, NEW j, NEW l, At(q, j, l)',
             \A p, i : At(p, i, l) => p > 3 * (a - 1) + 2
      PROVE  q > 3 * (a - 1) + 2
  <2>1. PICK p, i : At(p, i, l) /\ p <= q /\ q \in Nat
    BY <1>1
  <2>2. p \in Nat /\ q \in Nat /\ a \in Nat /\ p > 3 * (a - 1) + 2
    BY <1>1, <2>1, AtNumbers, Chain
  <2> QED
    BY <2>1, <2>2
<1>2. PastOnce'
  BY <1>1 DEF PastOnce
<1>3. ASSUME NEW a \in Agents, Unbroken(a)'
      PROVE  Unbroken(a)
  BY <1>3, UnbrokenWas
<1>4. PastOrdered'
  BY <1>1, <1>3 DEF PastOrdered
<1> QED
  BY <1>2, <1>4

TokenInv == Unique /\ PastOnce /\ Ordered /\ PastOrdered

(* Lists may get lost. *)
LEMMA TokensFewer ==
    ASSUME TypeInv, TypeInv', TokenInv, lists' = lists, handled' = handled,
           \A b \in Agents : made[b] <= made'[b],
           \A p, i, l : At(p, i, l)' => At(p, i, l)
    PROVE  TokenInv'
<1> DEFINE R == {<<r[1], r[2], r[1], r[2]>> : r \in Nat \X Nat}
<1>1. ASSUME NEW p, NEW i, NEW l, At(p, i, l)'
      PROVE  At(p, i, l) /\ <<p, i, p, i>> \in R
  <2>1. At(p, i, l) /\ <<p, i>> \in Nat \X Nat
    BY <1>1, AtNumbers
  <2> DEFINE r == <<p, i>>
  <2>2. r \in Nat \X Nat /\ <<p, i, p, i>> = <<r[1], r[2], r[1], r[2]>>
    BY <2>1
  <2> QED
    BY <2>1, <2>2
<1>2. \A p, i, q, j : <<p, i, q, j>> \in R => p = q /\ i = j /\ p \in Nat
  OBVIOUS
<1> HIDE DEF R
<1>3. Unique' /\ Ordered'
  <2>1. \A q, j, l : At(q, j, l)' => \E p, i : At(p, i, l) /\ <<p, i, q, j>> \in R
    BY <1>1
  <2>2. \A p, i, q, j : <<p, i, q, j>> \in R => p <= q /\ q \in Nat
    BY <1>2
  <2>3. \A p, i, q, j, r, k : <<p, i, q, j>> \in R /\ <<p, i, r, k>> \in R => q = r /\ j = k
    BY <1>2
  <2>4. \A a \in Agents : \A p, i, q, j, r, k, s, m, l, g :
              /\ Unbroken(a) /\ At(p, i, l) /\ At(q, j, g) /\ lists[g] = All /\ l < g
              /\ <<p, i, r, k>> \in R /\ <<q, j, s, m>> \in R
              /\ Behind(q, j, p, i) /\ s <= 3 * (a - 1) + 2
              => Behind(s, m, r, k)
    BY <1>2 DEF Behind
  <2> QED
    BY <2>1, <2>2, <2>3, <2>4, TokensMove DEF TokenInv
<1>4. PastOnce' /\ PastOrdered'
  <2>1. \A q, j, l : At(q, j, l)' => \E p, i : At(p, i, l) /\ p <= q /\ q \in Nat
    BY AtNumbers
  <2> QED
    BY <2>1, PastStays DEF TokenInv
<1> QED
  BY <1>3, <1>4 DEF TokenInv

-----------------------------------------------------------------------------
(* A connection that is not the last one made, or none, is not gone to anew. *)
LEMMA LinkKept ==
    ASSUME TypeInv, NEW n \in Servers, NEW i \in DOMAIN sends[n],
           NEW k \in DOMAIN sends[n][i].to, NEW m \in {link[n + 1], 0, made[n + 1] + 1},
           sends[n][i].to[k] = <<n + 1, m>>
    PROVE  m = link[n + 1]
<1>1. sends[n][i] \in SendsTo(n, made[n + 1], DOMAIN lists)
  BY DEF TypeInv, ListsInv
<1>2. sends[n][i].to[k] \in ConnsUpTo(n, made[n + 1])
  BY <1>1 DEF SendsTo, AnySend
<1>3. m \in Nat /\ m >= 1 /\ m <= made[n + 1] /\ made[n + 1] \in Nat
  <2> DEFINE c == sends[n][i].to[k]
  <2>1. c \in Conns /\ c[2] <= made[n + 1] /\ c = <<n + 1, m>>
    BY <1>2 DEF ConnsUpTo
  <2>2. c[2] \in Nat /\ c[2] >= 1
    BY <2>1, Chain
  <2>3. c[2] = m
    BY <2>1
  <2> HIDE DEF c
  <2> QED
    BY <2>1, <2>2, <2>3, Chain DEF TypeInv, LinkInv
<1> QED
  BY <1>3

(* What is emptied, and connections that no longer stand, leave fewer lists. *)
LEMMA AtFewer ==
    ASSUME TypeInv,
           \A n \in Servers :
              /\ mailbox'[n] \in {mailbox[n], <<>>}
              /\ sends'[n] \in {sends[n], <<>>}
              /\ simulation'[n + 1] \in {simulation[n + 1], <<>>}
              /\ link'[n + 1] \in {link[n + 1], 0, made[n + 1] + 1}
    PROVE  \A p, i, l : At(p, i, l)' => At(p, i, l)
<1> SUFFICES ASSUME NEW p, NEW i, NEW l, At(p, i, l)'
             PROVE  At(p, i, l)
  OBVIOUS
<1>1. PICK n \in Servers :
        \/ p = 3 * n /\ i \in DOMAIN mailbox'[n] /\ l = mailbox'[n][i]
        \/ /\ p = 3 * n + 1 /\ i \in DOMAIN sends'[n] /\ l = sends'[n][i].list
           /\ Live(n, sends[n][i].to)'
        \/ p = 3 * n + 2 /\ i \in DOMAIN simulation'[n + 1] /\ l = simulation'[n + 1][i]
  BY DEF At
<1>2. CASE p = 3 * n /\ i \in DOMAIN mailbox'[n] /\ l = mailbox'[n][i]
  BY <1>2, AtSpots
<1>3. CASE /\ p = 3 * n + 1 /\ i \in DOMAIN sends'[n] /\ l = sends'[n][i].list
           /\ Live(n, sends[n][i].to)'
  <2>1. sends'[n] = sends[n] /\ i \in DOMAIN sends[n]
    BY <1>3
  <2>2. PICK k \in DOMAIN sends[n][i].to : sends[n][i].to[k] = <<n + 1, link'[n + 1]>>
    BY <1>3, <2>1 DEF Live
  <2>3. link'[n + 1] = link[n + 1]
    <3> DEFINE m == link'[n + 1]
    <3>1. m \in {link[n + 1], 0, made[n + 1] + 1} /\ sends[n][i].to[k] = <<n + 1, m>>
      BY <2>2
    <3> HIDE DEF m
    <3>2. m = link[n + 1]
      BY <2>1, <3>1, LinkKept
    <3> QED
      BY <3>2 DEF m
  <2>4. Live(n, sends[n][i].to)
    BY <2>2, <2>3 DEF Live
  <2> QED
    BY <1>3, <2>1, <2>4, AtSpots
<1>4. CASE p = 3 * n + 2 /\ i \in DOMAIN simulation'[n + 1] /\ l = simulation'[n + 1][i]
  BY <1>4, AtSpots
<1> QED
  BY <1>1, <1>2, <1>3, <1>4

LEMMA LossTokens ==
    ASSUME TypeInv, TypeInv', TokenInv, lists' = lists, handled' = handled,
           \A b \in Agents : made[b] <= made'[b],
           \A n \in Servers :
              /\ mailbox'[n] \in {mailbox[n], <<>>}
              /\ sends'[n] \in {sends[n], <<>>}
              /\ simulation'[n + 1] \in {simulation[n + 1], <<>>}
              /\ link'[n + 1] \in {link[n + 1], 0, made[n + 1] + 1}
    PROVE  TokenInv'
BY AtFewer, TokensFewer

LEMMA SameTokens ==
    ASSUME TypeInv, TypeInv', TokenInv, UNCHANGED <<commands, link, made>>
    PROVE  TokenInv'
<1>1. \A b \in Agents : made[b] <= made'[b]
  BY DEF TypeInv, LinkInv
<1> QED
  BY <1>1, LossTokens DEF commands

LEMMA BreakTokens ==
    ASSUME TypeInv, TypeInv', TokenInv, NEW a \in Agents,
           Connect(a) \/ LinkBreaks(a) \/ AgentRestarts(a)
    PROVE  TokenInv'
<1>1. made \in [Agents -> 1 .. (MaxBreaks + 1)] /\ link \in [Agents -> Nat]
      /\ simulation \in [Agents -> Seq(DOMAIN lists)]
  BY DEF TypeInv, LinkInv, ListsInv
<1>2. CASE Connect(a)
  <2>1. /\ made' = [made EXCEPT ![a] = @ + 1]
        /\ link' = [link EXCEPT ![a] = made'[a]]
        /\ UNCHANGED commands
    BY <1>2 DEF Connect, join
  <2>2. \A b \in Agents : made[b] <= made'[b] /\ link'[b] \in {link[b], made[b] + 1}
    <3>1. made'[a] = made[a] + 1 /\ link'[a] = made'[a]
          /\ \A b \in Agents : b # a => made'[b] = made[b] /\ link'[b] = link[b]
      BY <1>1, <2>1
    <3>2. \A b \in Agents : made[b] <= made[b] /\ made[b] <= made[b] + 1
      BY <1>1
    <3> QED
      BY <3>1, <3>2
  <2> QED
    BY <2>1, <2>2, LossTokens, Chain DEF commands
<1>3. CASE LinkBreaks(a)
  <2>1. /\ link' = [b \in Agents |-> IF b \in {a} THEN 0 ELSE link[b]]
        /\ UNCHANGED <<lists, mailbox, sends, simulation, handled, made>>
    BY <1>3 DEF LinkBreaks, Disconnected
  <2>2. \A b \in Agents : made[b] <= made'[b] /\ link'[b] \in {link[b], 0}
    BY <1>1, <2>1
  <2> QED
    BY <2>1, <2>2, LossTokens, Chain
<1>4. CASE AgentRestarts(a)
  <2>1. /\ link' = [b \in Agents |-> IF b \in {a} \cup {d \in Agents : d = a + 1} THEN 0 ELSE link[b]]
        /\ simulation' = [simulation EXCEPT ![a] = <<>>]
        /\ mailbox' = [n \in Servers |-> IF n = a THEN <<>> ELSE mailbox[n]]
        /\ sends' = [n \in Servers |-> IF n = a THEN <<>> ELSE sends[n]]
        /\ UNCHANGED <<lists, handled, made>>
    BY <1>4 DEF AgentRestarts, Disconnected
  <2>2. \A b \in Agents : /\ made[b] <= made'[b] /\ link'[b] \in {link[b], 0}
                          /\ simulation'[b] \in {simulation[b], <<>>}
    BY <1>1, <2>1
  <2>3. \A n \in Servers : mailbox'[n] \in {mailbox[n], <<>>} /\ sends'[n] \in {sends[n], <<>>}
    BY <2>1
  <2> QED
    BY <2>1, <2>2, <2>3, LossTokens, Chain
<1> QED
  BY <1>2, <1>3, <1>4

(* A list that is issued is younger than all, and behind them. *)
LEMMA IssueTokens ==
    ASSUME TypeInv, TypeInv', TokenInv, NEW target \in Targets, Issue(target)
    PROVE  TokenInv'
<1> DEFINE len == Len(lists)
           place == Len(mailbox[0]) + 1
<1>1. /\ lists' = Append(lists, target)
      /\ mailbox' = [mailbox EXCEPT ![0] = IF dead[0] THEN @ ELSE Append(@, Len(lists'))]
      /\ UNCHANGED <<sends, simulation, handled, reports, links>>
  BY DEF Issue
<1>2. /\ len \in Nat /\ Len(lists') = len + 1 /\ DOMAIN lists = 1 .. len
      /\ \A l \in 1 .. len : lists'[l] = lists[l]
  BY <1>1 DEF TypeInv, ListsInv
<1>3. /\ 0 \in Servers /\ mailbox[0] \in Seq(DOMAIN lists) /\ place \in Nat
      /\ DOMAIN mailbox[0] = 1 .. (place - 1)
      /\ mailbox'[0] \in {mailbox[0], Append(mailbox[0], len + 1)}
      /\ \A n \in Servers : n # 0 => mailbox'[n] = mailbox[n]
  <2>1. 0 \in Servers /\ mailbox \in [Servers -> Seq(DOMAIN lists)]
    BY Chain, RoutingAssumption DEF Servers, TypeInv, ListsInv
  <2> QED
    BY <1>1, <1>2, <2>1
<1> HIDE DEF len
<1>4. \A i, l : i \in DOMAIN mailbox'[0] /\ l = mailbox'[0][i] =>
         \/ i \in DOMAIN mailbox[0] /\ l = mailbox[0][i]
         \/ i = place /\ l = len + 1
  <2>1. CASE mailbox'[0] = mailbox[0]
    BY <2>1
  <2>2. CASE mailbox'[0] = Append(mailbox[0], len + 1)
    BY <1>3, <2>2
  <2> QED
    BY <1>3, <2>1, <2>2
<1> HIDE DEF place
<1>5. \A p, i, l : At(p, i, l)' => At(p, i, l) \/ (p = 0 /\ i = place /\ l = len + 1)
  <2> SUFFICES ASSUME NEW p, NEW i, NEW l, At(p, i, l)'
               PROVE  At(p, i, l) \/ (p = 0 /\ i = place /\ l = len + 1)
    OBVIOUS
  <2>1. PICK n \in Servers :
          \/ p = 3 * n /\ i \in DOMAIN mailbox'[n] /\ l = mailbox'[n][i]
          \/ /\ p = 3 * n + 1 /\ i \in DOMAIN sends[n] /\ l = sends[n][i].list
             /\ Live(n, sends[n][i].to)
          \/ p = 3 * n + 2 /\ i \in DOMAIN simulation[n + 1] /\ l = simulation[n + 1][i]
    BY <1>1 DEF At, Live, links
  <2>2. CASE p = 3 * n /\ i \in DOMAIN mailbox'[n] /\ l = mailbox'[n][i]
    <3>1. CASE n = 0
      <4>1. p = 0
        BY <2>2, <3>1
      <4>2. \/ i \in DOMAIN mailbox[n] /\ l = mailbox[n][i]
            \/ i = place /\ l = len + 1
        BY <1>4, <2>2, <3>1
      <4> QED
        BY <2>2, <4>1, <4>2, AtSpots
    <3>2. CASE n # 0
      BY <1>3, <2>2, <3>2, AtSpots
    <3> QED
      BY <3>1, <3>2
  <2> QED
    BY <2>1, <2>2, AtSpots
<1>6. /\ \A p, i, l : At(p, i, l) => p \in Nat /\ i \in Nat /\ l \in Nat /\ l <= len
      /\ \A i, l : At(0, i, l) => i < place
  <2>1. ASSUME NEW p, NEW i, NEW l, At(p, i, l)
        PROVE  p \in Nat /\ i \in Nat /\ l \in Nat /\ l <= len
    BY <1>2, <2>1, AtNumbers
  <2>2. ASSUME NEW i, NEW l, At(0, i, l)
        PROVE  i < place
    <3>1. At(3 * 0, i, l)
      BY <2>2
    <3>2. i \in DOMAIN mailbox[0]
      BY <1>3, <3>1, AtSpots
    <3> QED
      BY <1>3, <3>2
  <2> QED
    BY <2>1, <2>2
<1>7. \A a \in Agents : \A h \in DOMAIN handled[a] :
         handled[a][h] \in Nat /\ handled[a][h] <= len /\ lists'[handled[a][h]] = lists[handled[a][h]]
  <2> SUFFICES ASSUME NEW a \in Agents, NEW h \in DOMAIN handled[a]
               PROVE  /\ handled[a][h] \in Nat /\ handled[a][h] <= len
                      /\ lists'[handled[a][h]] = lists[handled[a][h]]
    OBVIOUS
  <2>1. handled[a][h] \in 1 .. len
    BY <1>2 DEF TypeInv, ListsInv
  <2> QED
    BY <1>2, <2>1
<1>8. handled' = handled /\ made' = made
  BY <1>1 DEF links
<1>9. Unique'
  <2>1. ASSUME NEW p, NEW i, NEW q, NEW j, NEW l, At(p, i, l)', At(q, j, l)'
        PROVE  p = q /\ i = j
    <3>1. \/ At(p, i, l) /\ At(q, j, l)
          \/ p = 0 /\ i = place /\ q = 0 /\ j = place
      <4>1. At(p, i, l) => l # len + 1
        BY <1>2, <1>6
      <4>2. At(q, j, l) => l # len + 1
        BY <1>2, <1>6
      <4> QED
        BY <1>5, <2>1, <4>1, <4>2
    <3> QED
      BY <3>1 DEF TokenInv, Unique
  <2> QED
    BY <2>1 DEF Unique
<1>10. ASSUME NEW a \in Agents, NEW q, NEW j, NEW l, At(q, j, l)', l <= len
       PROVE  At(q, j, l)
  BY <1>2, <1>5, <1>10
<1>11. PastOnce'
  <2>1. ASSUME NEW a \in Agents, NEW h \in DOMAIN handled[a], NEW p, NEW i, At(p, i, handled[a][h])'
        PROVE  p > 3 * (a - 1) + 2
    <3>1. PICK l : l = handled[a][h]
      OBVIOUS
    <3>2. At(p, i, l)' /\ l <= len
      BY <1>7, <1>8, <2>1, <3>1
    <3>3. At(p, i, l)
      BY <1>10, <3>2
    <3> QED
      BY <3>1, <3>3 DEF TokenInv, PastOnce
  <2> QED
    BY <1>8, <2>1 DEF TokenInv, PastOnce
<1>12. Ordered'
  <2>1. ASSUME NEW a \in Agents, Unbroken(a),
               NEW p, NEW i, NEW l, NEW q, NEW j, NEW g, At(p, i, l)', At(q, j, g)',
               q <= 3 * (a - 1) + 2, l < g, lists'[g] = All
        PROVE  Behind(q, j, p, i)
    <3>1. CASE At(q, j, g)
      <4>1. g \in Nat /\ g <= len
        BY <1>6, <3>1
      <4>2. At(p, i, l)
        <5>1. l # len + 1
          BY <1>2, <2>1, <4>1
        <5>2. At(p, i, l) \/ l = len + 1
          BY <1>5, <2>1
        <5> QED
          BY <5>1, <5>2, Zenon
      <4>3. lists[g] = All
        <5>1. g \in 1 .. len
          BY <1>2, <3>1, AtNumbers
        <5> QED
          BY <1>2, <2>1, <5>1
      <4> QED
        BY <2>1, <3>1, <4>2, <4>3 DEF TokenInv, Ordered
    <3>2. CASE q = 0 /\ j = place /\ g = len + 1
      <4>1. At(p, i, l)
        BY <1>2, <1>5, <2>1, <3>2
      <4>2. p \in Nat /\ i \in Nat
        BY <1>6, <4>1
      <4>3. p = 0 => i < place
        BY <1>6, <4>1
      <4> QED
        BY <1>3, <3>2, <4>2, <4>3 DEF Behind
    <3> QED
      BY <1>5, <2>1, <3>1, <3>2
  <2>2. \A a \in Agents : Unbroken(a)' => Unbroken(a)
    BY <1>8 DEF Unbroken
  <2> QED
    BY <2>1, <2>2 DEF Ordered, Behind
<1>13. PastOrdered'
  <2>1. ASSUME NEW a \in Agents, Unbroken(a), NEW h \in DOMAIN handled[a], lists'[handled[a][h]] = All,
               NEW p, NEW i, NEW l, At(p, i, l)', l < handled[a][h]
        PROVE  p > 3 * (a - 1) + 2
    <3>1. At(p, i, l)
      BY <1>2, <1>5, <1>7, <2>1
    <3> QED
      BY <1>7, <2>1, <3>1 DEF TokenInv, PastOrdered
  <2>2. \A a \in Agents : Unbroken(a)' => Unbroken(a)
    BY <1>8 DEF Unbroken
  <2> QED
    BY <1>7, <1>8, <2>1, <2>2 DEF TokenInv, PastOrdered
<1> QED
  BY <1>9, <1>11, <1>12, <1>13 DEF TokenInv

-----------------------------------------------------------------------------
(* Of the lists that a server takes from its mailbox, `new' join the `len' it sends. *)
FreshAt(n, len, new, at) ==
    /\ DOMAIN sends[n] = 1 .. len /\ DOMAIN sends'[n] = 1 .. (len + new)
    /\ \A j \in 1 .. len : sends'[n][j] = sends[n][j]
    /\ \A k \in 1 .. new : at[k] \in DOMAIN mailbox[n] /\ at[k] \in Nat
    /\ \A j, k \in 1 .. new : j < k => at[j] < at[k]
    /\ \A k \in 1 .. new : /\ sends'[n][len + k].list = mailbox[n][at[k]]
                           /\ sends'[n][len + k].to \in Seq(ConnsUpTo(n, made[n + 1]))

(* Where they get to, in the order they came. *)
LEMMA FreshPlaces ==
    ASSUME TypeInv, NEW n \in Servers, NEW came, Poll(n, came)
    PROVE  \E len, new \in Nat : \E at : FreshAt(n, len, new, at)
<1> DEFINE taken == Taken(n)
           S == {send \in Range(taken) : send.to # <<>>}
           fresh == Select(taken, S)
           X == AnySend(n, made[n + 1], DOMAIN lists)
           len == Len(sends[n])
           new == Len(fresh)
<1>1. taken \in Seq(X) /\ DOMAIN taken = DOMAIN mailbox[n]
      /\ \A i \in DOMAIN mailbox[n] : taken[i].list = mailbox[n][i]
  <2>1. taken \in Seq(X)
    BY ListsTaken
  <2> QED
    BY <2>1 DEF Taken
<1>2. /\ sends[n] \in Seq(SendsTo(n, made[n + 1], DOMAIN lists))
      /\ sends' = [sends EXCEPT ![n] = @ \o Sending(taken)]
      /\ sends = [m \in Servers |-> sends[m]]
  BY PollDoes DEF TypeInv, ListsInv
<1>3. Sending(taken) = fresh
  BY DEF Sending
<1>4. \A x \in X : x.to \in Seq(ConnsUpTo(n, made[n + 1]))
  BY DEF AnySend
<1>5. mailbox[n] \in Seq(DOMAIN lists)
  BY DEF TypeInv, ListsInv
<1> HIDE DEF X, S, taken
<1>6. fresh \in Seq(X) /\ \E at : Places(taken, Len(taken), S, fresh, at)
  BY <1>1, SelectKeeps
<1>7. PICK at : Places(taken, Len(taken), S, fresh, at)
  BY <1>6
<1>8. sends'[n] = sends[n] \o fresh
  BY <1>2, <1>3
<1> HIDE DEF fresh
<1>9. /\ len \in Nat /\ new \in Nat
      /\ DOMAIN sends[n] = 1 .. len /\ DOMAIN sends'[n] = 1 .. (len + new)
      /\ \A j \in 1 .. len : sends'[n][j] = sends[n][j]
      /\ \A k \in 1 .. new : sends'[n][len + k] = fresh[k] /\ fresh[k] \in X
  BY <1>2, <1>6, <1>8
<1>10. /\ \A k \in 1 .. new : at[k] \in 1 .. Len(taken) /\ fresh[k] = taken[at[k]]
       /\ \A j, k \in 1 .. new : j < k => at[j] < at[k]
  BY <1>7 DEF Places
<1>11. 1 .. Len(taken) = DOMAIN mailbox[n] /\ \A i \in 1 .. Len(taken) : i \in Nat
  BY <1>1
<1> HIDE DEF len, new
<1>12. ASSUME NEW k \in 1 .. new
       PROVE  /\ at[k] \in DOMAIN mailbox[n] /\ at[k] \in Nat
              /\ sends'[n][len + k].list = mailbox[n][at[k]]
              /\ sends'[n][len + k].to \in Seq(ConnsUpTo(n, made[n + 1]))
  <2>1. at[k] \in DOMAIN mailbox[n] /\ at[k] \in Nat /\ fresh[k] = taken[at[k]]
    BY <1>10, <1>11
  <2>2. sends'[n][len + k] = fresh[k] /\ fresh[k] \in X
    BY <1>9
  <2>3. sends'[n][len + k].to \in Seq(ConnsUpTo(n, made[n + 1]))
    BY <1>4, <2>2, Zenon
  <2>4. sends'[n][len + k].list = mailbox[n][at[k]]
    BY <1>1, <2>1, <2>2, Zenon
  <2> QED
    BY <2>1, <2>3, <2>4
<1>13. /\ \A k \in 1 .. new : at[k] \in DOMAIN mailbox[n] /\ at[k] \in Nat
       /\ \A k \in 1 .. new : /\ sends'[n][len + k].list = mailbox[n][at[k]]
                              /\ sends'[n][len + k].to \in Seq(ConnsUpTo(n, made[n + 1]))
  BY <1>12
<1>14. /\ DOMAIN sends[n] = 1 .. len /\ DOMAIN sends'[n] = 1 .. (len + new)
       /\ \A j \in 1 .. len : sends'[n][j] = sends[n][j]
       /\ \A j, k \in 1 .. new : j < k => at[j] < at[k]
  BY <1>9, <1>10
<1>15. len \in Nat /\ new \in Nat
  BY <1>9
<1>16. FreshAt(n, len, new, at)
  BY <1>13, <1>14 DEF FreshAt
<1> QED
  BY <1>15, <1>16

LEMMA PollTokens ==
    ASSUME TypeInv, TypeInv', TokenInv, NEW n \in Servers, NEW came, Poll(n, came)
    PROVE  TokenInv'
<1>1. /\ lists' = lists /\ simulation' = simulation /\ handled' = handled /\ made' = made
      /\ mailbox' = [mailbox EXCEPT ![n] = <<>>]
      /\ sends' = [sends EXCEPT ![n] = @ \o Sending(Taken(n))]
      /\ \A m \in Servers : link'[m + 1] = link[m + 1] \/ (m = n /\ link'[m + 1] = 0)
  <2>1. link' = link \/ link' = [link EXCEPT ![n + 1] = 0]
    BY PollDoes
  <2>2. \A m \in Servers : m \in Nat /\ m + 1 \in Agents
    BY Chain
  <2>3. \A m \in Servers : link'[m + 1] = link[m + 1] \/ (m = n /\ link'[m + 1] = 0)
    BY <2>1, <2>2 DEF TypeInv, LinkInv
  <2> QED
    BY <2>3, PollDoes
<1>2. /\ mailbox \in [Servers -> Seq(DOMAIN lists)]
      /\ \A m \in Servers : m # n => mailbox'[m] = mailbox[m] /\ sends'[m] = sends[m]
      /\ mailbox'[n] = <<>>
  BY <1>1 DEF TypeInv, ListsInv
<1>3. PICK len, new \in Nat : \E at : FreshAt(n, len, new, at)
  BY FreshPlaces
<1>4. PICK at : FreshAt(n, len, new, at)
  BY <1>3
<1>5. /\ DOMAIN sends[n] = 1 .. len /\ DOMAIN sends'[n] = 1 .. (len + new) /\ len \in Nat
      /\ \A j \in 1 .. len : sends'[n][j] = sends[n][j]
      /\ \A k \in 1 .. new : at[k] \in DOMAIN mailbox[n] /\ at[k] \in Nat
      /\ \A j, k \in 1 .. new : j < k => at[j] < at[k]
      /\ \A k \in 1 .. new : /\ sends'[n][len + k].list = mailbox[n][at[k]]
                             /\ sends'[n][len + k].to \in Seq(ConnsUpTo(n, made[n + 1]))
  BY <1>4 DEF FreshAt
<1> DEFINE Stays(p, i, q, j) == p # 3 * n /\ q = p /\ j = i
           Taking(p, i, q, j) ==
              /\ p = 3 * n /\ q = 3 * n + 1
              /\ \E k \in 1 .. new : i = at[k] /\ j = len + k
           R == {r \in Nat \X Nat \X Nat \X Nat :
                   Stays(r[1], r[2], r[3], r[4]) \/ Taking(r[1], r[2], r[3], r[4])}
<1>6. \A p, i, q, j : <<p, i, q, j>> \in R <=>
         p \in Nat /\ i \in Nat /\ q \in Nat /\ j \in Nat /\ (Stays(p, i, q, j) \/ Taking(p, i, q, j))
  <2> HIDE DEF Stays, Taking
  <2> QED
    OBVIOUS
<1> HIDE DEF R
<1>7. ASSUME NEW q, NEW j, NEW l, At(q, j, l)'
      PROVE  \E p, i : At(p, i, l) /\ <<p, i, q, j>> \in R
  <2>1. PICK m \in Servers :
          \/ q = 3 * m /\ j \in DOMAIN mailbox'[m] /\ l = mailbox'[m][j]
          \/ /\ q = 3 * m + 1 /\ j \in DOMAIN sends'[m] /\ l = sends'[m][j].list
             /\ \E k \in DOMAIN sends'[m][j].to : sends'[m][j].to[k] = <<m + 1, link'[m + 1]>>
          \/ q = 3 * m + 2 /\ j \in DOMAIN simulation'[m + 1] /\ l = simulation'[m + 1][j]
    BY <1>7 DEF At, Live
  <2>2. m \in Nat /\ n \in Nat
    BY Chain
  <2>3. ASSUME At(q, j, l), q # 3 * n
        PROVE  \E p, i : At(p, i, l) /\ <<p, i, q, j>> \in R
    BY <1>6, <2>3, AtNumbers
  <2>4. CASE q = 3 * m /\ j \in DOMAIN mailbox'[m] /\ l = mailbox'[m][j]
    <3>1. m # n
      BY <1>2, <2>4
    <3>2. q # 3 * n /\ At(q, j, l)
      BY <1>2, <2>2, <2>4, <3>1, AtSpots, Spots
    <3> QED
      BY <2>3, <3>2
  <2>5. CASE /\ q = 3 * m + 1 /\ j \in DOMAIN sends'[m] /\ l = sends'[m][j].list
             /\ \E k \in DOMAIN sends'[m][j].to : sends'[m][j].to[k] = <<m + 1, link'[m + 1]>>
    <3>1. q # 3 * n
      BY <2>2, <2>5, Spots
    <3>2. CASE j \in DOMAIN sends[m] /\ sends'[m][j] = sends[m][j]
      <4>1. PICK k \in DOMAIN sends[m][j].to : sends[m][j].to[k] = <<m + 1, link'[m + 1]>>
        BY <2>5, <3>2
      <4>2. link'[m + 1] = link[m + 1]
        BY <1>1, <3>2, <4>1, LinkKept
      <4>3. Live(m, sends[m][j].to)
        BY <4>1, <4>2 DEF Live
      <4>4. At(q, j, l)
        BY <2>5, <3>2, <4>3, AtSpots
      <4> QED
        BY <2>3, <3>1, <4>4
    <3>3. CASE m = n /\ j \notin 1 .. len
      <4> DEFINE k == j - len
      <4>1. j = len + k /\ k \in 1 .. new
        BY <1>5, <2>5, <3>3
      <4> HIDE DEF k
      <4>2. l = mailbox[n][at[k]] /\ at[k] \in DOMAIN mailbox[n] /\ at[k] \in Nat
        BY <1>5, <2>5, <3>3, <4>1
      <4>3. At(3 * n, at[k], l)
        BY <4>2, AtSpots
      <4>4. <<3 * n, at[k], q, j>> \in R
        <5>1. Taking(3 * n, at[k], q, j)
          BY <2>5, <3>3, <4>1
        <5>2. 3 * n \in Nat /\ q \in Nat /\ j \in Nat
          BY <1>5, <2>2, <2>5, <4>1
        <5> HIDE DEF Stays, Taking
        <5> QED
          BY <1>6, <4>2, <5>1, <5>2
      <4> QED
        BY <4>3, <4>4
    <3>4. \/ j \in DOMAIN sends[m] /\ sends'[m][j] = sends[m][j]
          \/ m = n /\ j \notin 1 .. len
      BY <1>2, <1>5, <2>5
    <3> QED
      BY <3>2, <3>3, <3>4
  <2>6. CASE q = 3 * m + 2 /\ j \in DOMAIN simulation'[m + 1] /\ l = simulation'[m + 1][j]
    <3>1. q # 3 * n /\ At(q, j, l)
      BY <1>1, <2>2, <2>6, AtSpots, Spots
    <3> QED
      BY <2>3, <3>1
  <2> QED
    BY <2>1, <2>4, <2>5, <2>6
<1>8. \A p, i, q, j : <<p, i, q, j>> \in R => p \in Nat /\ i \in Nat /\ q \in Nat /\ j \in Nat /\ p <= q
  BY <1>6, Chain
<1>9. \A p, i, q, j, r, k : <<p, i, q, j>> \in R /\ <<p, i, r, k>> \in R => q = r /\ j = k
  <2> SUFFICES ASSUME NEW p, NEW i, NEW q, NEW j, NEW r, NEW k,
                      <<p, i, q, j>> \in R, <<p, i, r, k>> \in R
               PROVE  q = r /\ j = k
    OBVIOUS
  <2>1. CASE p # 3 * n
    BY <1>6, <2>1
  <2>2. CASE p = 3 * n
    <3>1. q = 3 * n + 1 /\ r = 3 * n + 1
      BY <1>6, <2>2
    <3>2. PICK x \in 1 .. new : i = at[x] /\ j = len + x
      BY <1>6, <2>2
    <3>3. PICK y \in 1 .. new : i = at[y] /\ k = len + y
      BY <1>6, <2>2
    <3>4. at[x] \in Nat /\ at[y] \in Nat /\ at[x] = at[y]
      BY <1>5, <3>2, <3>3
    <3>5. ~(x < y) /\ ~(y < x)
      BY <1>5, <3>4
    <3> QED
      BY <3>1, <3>2, <3>3, <3>5
  <2> QED
    BY <2>1, <2>2
<1>10. ASSUME NEW p, NEW i, NEW q, NEW j, NEW r, NEW k, NEW s, NEW m, NEW l, NEW g,
             At(p, i, l), At(q, j, g),
             <<p, i, r, k>> \in R, <<q, j, s, m>> \in R, Behind(q, j, p, i)
      PROVE  Behind(s, m, r, k)
  <2>1. n \in Nat /\ p \in Nat /\ q \in Nat /\ r \in Nat /\ s \in Nat
        /\ i \in Nat /\ j \in Nat /\ k \in Nat /\ m \in Nat
    BY <1>8, <1>10, Chain
  <2>2. CASE p # 3 * n /\ q # 3 * n
    <3>1. r = p /\ k = i /\ s = q /\ m = j
      BY <1>6, <1>10, <2>2
    <3> QED
      BY <1>10, <3>1
  <2>3. CASE p # 3 * n /\ q = 3 * n
    <3>1. r = p /\ k = i /\ s = 3 * n + 1
      BY <1>6, <1>10, <2>3
    <3>2. PICK x \in 1 .. new : m = len + x
      BY <1>6, <1>10, <2>3
    <3>3. p > 3 * n
      BY <1>10, <2>1, <2>3 DEF Behind
    <3>4. CASE p = 3 * n + 1
      <4>1. i \in 1 .. len
        BY <1>5, <1>10, <3>4, AtSpots
      <4> QED
        BY <1>5, <2>1, <3>1, <3>2, <3>4, <4>1 DEF Behind
    <3>5. CASE p # 3 * n + 1
      BY <2>1, <3>1, <3>3, <3>5 DEF Behind
    <3> QED
      BY <3>4, <3>5
  <2>4. CASE p = 3 * n /\ q # 3 * n
    <3>1. r = 3 * n + 1 /\ s = q
      BY <1>6, <1>10, <2>4
    <3>2. q < 3 * n
      BY <1>10, <2>1, <2>4 DEF Behind
    <3> QED
      BY <2>1, <3>1, <3>2 DEF Behind
  <2>5. CASE p = 3 * n /\ q = 3 * n
    <3>1. r = 3 * n + 1 /\ s = 3 * n + 1 /\ i < j
      BY <1>6, <1>10, <2>1, <2>5 DEF Behind
    <3>2. PICK x \in 1 .. new : i = at[x] /\ k = len + x
      BY <1>6, <1>10, <2>5
    <3>3. PICK y \in 1 .. new : j = at[y] /\ m = len + y
      BY <1>6, <1>10, <2>5
    <3>4. at[x] < at[y] /\ at[x] \in Nat /\ at[y] \in Nat
      BY <1>5, <3>1, <3>2, <3>3
    <3>5. x < y
      <4>1. ~(y < x)
        BY <1>5, <3>4
      <4>2. x # y
        BY <3>4
      <4> QED
        BY <4>1, <4>2
    <3> QED
      BY <1>5, <3>1, <3>2, <3>3, <3>5 DEF Behind
  <2> QED
    BY <2>2, <2>3, <2>4, <2>5
<1>11. \A b \in Agents : made[b] <= made'[b]
  BY <1>1 DEF TypeInv, LinkInv
<1> HIDE DEF Stays, Taking
<1>12. Unique' /\ Ordered'
  <2>1. \A q, j, l : At(q, j, l)' => \E p, i : At(p, i, l) /\ <<p, i, q, j>> \in R
    BY <1>7
  <2>2. \A p, i, q, j : <<p, i, q, j>> \in R => p <= q /\ q \in Nat
    BY <1>8
  <2>3. \A a \in Agents : \A p, i, q, j, r, k, s, m, l, g :
              /\ Unbroken(a) /\ At(p, i, l) /\ At(q, j, g) /\ lists[g] = All /\ l < g
              /\ <<p, i, r, k>> \in R /\ <<q, j, s, m>> \in R
              /\ Behind(q, j, p, i) /\ s <= 3 * (a - 1) + 2
              => Behind(s, m, r, k)
    BY <1>10
  <2> QED
    BY <1>1, <1>9, <1>11, <2>1, <2>2, <2>3, TokensMove DEF TokenInv
<1>13. PastOnce' /\ PastOrdered'
  <2>1. ASSUME NEW q, NEW j, NEW l, At(q, j, l)'
        PROVE  \E p, i : At(p, i, l) /\ p <= q /\ q \in Nat
    BY <1>7, <1>8, <2>1
  <2> QED
    BY <1>1, <1>11, <2>1, PastStays DEF TokenInv
<1> QED
  BY <1>12, <1>13 DEF TokenInv

-----------------------------------------------------------------------------
(* Where the lists are that a server still sends when the i-th was served. *)
ServedAt(n, i, at) ==
    /\ \A k \in DOMAIN sends'[n] : at[k] \in DOMAIN sends[n] /\ at[k] \in Nat /\ k \in Nat
    /\ \A j, k \in DOMAIN sends'[n] : j < k => at[j] < at[k]
    /\ \A k \in DOMAIN sends'[n] : sends'[n][k].list = sends[n][at[k]].list
    /\ \A k \in DOMAIN sends'[n] : at[k] # i => sends'[n][k].to = sends[n][at[k]].to
    /\ \A k \in DOMAIN sends'[n] : at[k] = i => sends'[n][k].to = Tail(sends[n][i].to)

(* They keep their order. *)
LEMMA ServedPlaces ==
    ASSUME TypeInv, NEW n \in Servers, NEW i \in DOMAIN sends[n], Served(n, i)
    PROVE  /\ \E at : ServedAt(n, i, at)
           /\ \A m \in Servers : m # n => sends'[m] = sends[m]
<1> DEFINE old == sends[n]
           one == [old[i] EXCEPT !.to = Tail(old[i].to)]
           left == [old EXCEPT ![i] = one]
           S == {send \in Range(left) : send.to # <<>>}
           new == Select(left, S)
           X == [list : DOMAIN lists, to : Seq(ConnsUpTo(n, made[n + 1]))]
<1>1. old \in Seq(X) /\ i \in DOMAIN old /\ old[i] \in X /\ old[i].to # <<>>
  <2> DEFINE Y == SendsTo(n, made[n + 1], DOMAIN lists)
  <2>1. old \in Seq(Y) /\ i \in DOMAIN old
    BY DEF TypeInv, ListsInv
  <2>2. \A y \in Y : y \in X /\ y.to # <<>>
    BY DEF SendsTo, AnySend
  <2> HIDE DEF Y, X, old
  <2> QED
    BY <2>1, <2>2
<1>2. sends' = [sends EXCEPT ![n] = new]
  <2>1. left = [sends[n] EXCEPT ![i].to = Tail(@)]
    OBVIOUS
  <2>2. sends' = [sends EXCEPT ![n] = Sending([sends[n] EXCEPT ![i].to = Tail(@)])]
    BY Zenon DEF Served
  <2>3. new = Sending(left)
    BY DEF Sending
  <2> QED
    BY <2>1, <2>2, <2>3, Zenon
<1>3. one \in X /\ one.list = old[i].list /\ one.to = Tail(old[i].to)
  BY <1>1, HeadTailProperties
<1>4. sends = [m \in Servers |-> sends[m]]
  BY DEF TypeInv, ListsInv
<1> HIDE DEF old, one, X
<1>5. /\ left \in Seq(X) /\ DOMAIN left = DOMAIN old /\ left[i] = one
      /\ \A k \in DOMAIN old : k # i => left[k] = old[k]
  BY <1>1, <1>3
<1> HIDE DEF left, S
<1>6. new \in Seq(X) /\ \E at : Places(left, Len(left), S, new, at)
  BY <1>5, SelectKeeps
<1>7. PICK at : Places(left, Len(left), S, new, at)
  BY <1>6
<1> HIDE DEF new
<1>8. sends'[n] = new /\ \A m \in Servers : m # n => sends'[m] = sends[m]
  BY <1>2, <1>4
<1>9. /\ \A k \in 1 .. Len(new) : at[k] \in 1 .. Len(left) /\ new[k] = left[at[k]]
      /\ \A j, k \in 1 .. Len(new) : j < k => at[j] < at[k]
  BY <1>7 DEF Places
<1>10. DOMAIN new = 1 .. Len(new) /\ DOMAIN old = 1 .. Len(left)
  BY <1>5, <1>6
<1>11. \A k \in DOMAIN new : at[k] \in DOMAIN old /\ new[k] = left[at[k]]
  BY <1>9, <1>10
<1>12. ASSUME NEW k \in DOMAIN new
       PROVE  /\ new[k].list = old[at[k]].list
              /\ at[k] # i => new[k].to = old[at[k]].to
              /\ at[k] = i => new[k].to = Tail(old[i].to)
  <2>1. CASE at[k] = i
    BY <1>3, <1>5, <1>11, <2>1
  <2>2. CASE at[k] # i
    BY <1>5, <1>11, <2>2
  <2> QED
    BY <2>1, <2>2
<1>13. ServedAt(n, i, at)
  <2>1. \A k \in DOMAIN new : at[k] \in DOMAIN old /\ at[k] \in Nat /\ k \in Nat
    BY <1>9, <1>10
  <2>2. \A j, k \in DOMAIN new : j < k => at[j] < at[k]
    BY <1>9, <1>10
  <2> QED
    BY <1>8, <1>12, <2>1, <2>2 DEF ServedAt, old
<1> QED
  BY <1>8, <1>13

(* A list goes to a connection once. *)
LEMMA TailLive ==
    ASSUME TypeInv, NEW n \in Servers, NEW i \in DOMAIN sends[n],
           Live(n, Tail(sends[n][i].to))
    PROVE  Live(n, sends[n][i].to) /\ Head(sends[n][i].to) # <<n + 1, link[n + 1]>>
<1> DEFINE to == sends[n][i].to
           c == <<n + 1, link[n + 1]>>
<1>1. to \in Seq(ConnsUpTo(n, made[n + 1])) /\ to # <<>> /\ IsInjective(to)
  <2>1. sends[n][i] \in SendsTo(n, made[n + 1], DOMAIN lists)
    BY DEF TypeInv, ListsInv
  <2> QED
    BY <2>1 DEF SendsTo, AnySend
<1>2. \E k \in DOMAIN Tail(to) : Tail(to)[k] = c
  BY DEF Live
<1>3. \E k \in DOMAIN to : to[k] = c /\ k # 1
  <2> HIDE DEF to, c
  <2>1. PICK k \in DOMAIN Tail(to) : Tail(to)[k] = c
    BY <1>2
  <2>2. /\ DOMAIN Tail(to) = 1 .. (Len(to) - 1) /\ DOMAIN to = 1 .. Len(to) /\ Len(to) \in Nat
        /\ \A j \in 1 .. (Len(to) - 1) : Tail(to)[j] = to[j + 1]
    BY <1>1
  <2> DEFINE len == Len(to)
  <2>3. k \in 1 .. (len - 1) /\ len \in Nat /\ to[k + 1] = c /\ DOMAIN to = 1 .. len
    BY <2>1, <2>2
  <2> HIDE DEF len
  <2> QED
    BY <2>3
<1>4. 1 \in DOMAIN to /\ Head(to) = to[1]
  BY <1>1
<1> HIDE DEF to
<1>5. Head(to) # c
  BY <1>1, <1>3, <1>4 DEF IsInjective
<1> QED
  BY <1>3, <1>5 DEF Live, to, c

(* A server goes on with its sends; one of its lists may move on from them. *)
LEMMA MovedTokens ==
    ASSUME TypeInv, TypeInv', TokenInv, NEW n \in Servers, NEW x \in DOMAIN sends[n], Served(n, x),
           lists' = lists, handled' = handled, made' = made, link' = link,
           NEW dest \in {3 * n + 2, 3 * n + 3}, NEW place \in Nat, NEW moves \in BOOLEAN,
           \A q, j, l : At(q, j, l)' /\ q # 3 * n + 1 =>
              At(q, j, l) \/ (moves /\ q = dest /\ j = place /\ l = sends[n][x].list),
           moves => Head(sends[n][x].to) = <<n + 1, link[n + 1]>>,
           \A k, l : At(dest, k, l) => k < place,
           moves /\ lists[sends[n][x].list] = All => dest = 3 * n + 2 /\ MayServe(n, x)
    PROVE  TokenInv'
<1>1. PICK at : ServedAt(n, x, at)
  BY ServedPlaces
<1>2. /\ \A k \in DOMAIN sends'[n] : at[k] \in DOMAIN sends[n] /\ at[k] \in Nat /\ k \in Nat
      /\ \A j, k \in DOMAIN sends'[n] : j < k => at[j] < at[k]
      /\ \A k \in DOMAIN sends'[n] : sends'[n][k].list = sends[n][at[k]].list
      /\ \A k \in DOMAIN sends'[n] : at[k] # x => sends'[n][k].to = sends[n][at[k]].to
      /\ \A k \in DOMAIN sends'[n] : at[k] = x => sends'[n][k].to = Tail(sends[n][x].to)
  BY <1>1 DEF ServedAt
<1>3. n \in Nat /\ dest \in Nat /\ dest > 3 * n + 1 /\ x \in Nat /\ x >= 1 /\ 1 \in DOMAIN sends[n]
      /\ \A a \in Agents : a \in Nat
  <2>1. x \in Nat /\ x >= 1 /\ 1 \in DOMAIN sends[n]
    <3>1. sends[n] \in Seq(SendsTo(n, made[n + 1], DOMAIN lists))
      BY DEF TypeInv, ListsInv
    <3> DEFINE len == Len(sends[n])
    <3>2. DOMAIN sends[n] = 1 .. len /\ len \in Nat
      BY <3>1
    <3> HIDE DEF len
    <3> QED
      BY <3>2
  <2>2. n \in Nat /\ \A a \in Agents : a \in Nat
    BY Chain
  <2> QED
    BY <2>1, <2>2
<1>4. \A m \in Servers : m # n => sends'[m] = sends[m]
  BY ServedPlaces
<1> DEFINE spot == 3 * n + 1
           Stays(p, i, q, j) == p # spot /\ q = p /\ j = i
           Shifts(p, i, q, j) ==
              /\ p = spot /\ q = spot /\ j \in DOMAIN sends'[n] /\ i = at[j]
              /\ moves => i # x
           Leaves(p, i, q, j) == moves /\ p = spot /\ i = x /\ q = dest /\ j = place
           R == {r \in Nat \X Nat \X Nat \X Nat :
                   \/ Stays(r[1], r[2], r[3], r[4])
                   \/ Shifts(r[1], r[2], r[3], r[4])
                   \/ Leaves(r[1], r[2], r[3], r[4])}
<1>5. \A p, i, q, j : <<p, i, q, j>> \in R <=>
         /\ p \in Nat /\ i \in Nat /\ q \in Nat /\ j \in Nat
         /\ Stays(p, i, q, j) \/ Shifts(p, i, q, j) \/ Leaves(p, i, q, j)
  <2> HIDE DEF Stays, Shifts, Leaves
  <2> QED
    OBVIOUS
<1> HIDE DEF R
<1>6. moves => At(spot, x, sends[n][x].list)
  <2>1. SUFFICES ASSUME moves
                 PROVE  At(spot, x, sends[n][x].list)
    OBVIOUS
  <2>2. sends[n][x].to # <<>> /\ sends[n][x].to \in Seq(ConnsUpTo(n, made[n + 1]))
    <3>1. sends[n][x] \in SendsTo(n, made[n + 1], DOMAIN lists)
      BY DEF TypeInv, ListsInv
    <3> QED
      BY <3>1 DEF SendsTo, AnySend
  <2>3. Live(n, sends[n][x].to)
    <3> DEFINE to == sends[n][x].to
    <3>1. 1 \in DOMAIN to /\ to[1] = <<n + 1, link[n + 1]>>
      BY <2>1, <2>2
    <3> QED
      BY <3>1 DEF Live
  <2> QED
    BY <2>3, AtSpots
<1>7. ASSUME NEW q, NEW j, NEW l, At(q, j, l)'
      PROVE  \E p, i : At(p, i, l) /\ <<p, i, q, j>> \in R
  <2>1. CASE q # spot
    <3>1. CASE At(q, j, l)
      <4>1. q \in Nat /\ j \in Nat /\ Stays(q, j, q, j)
        BY <2>1, <3>1, AtNumbers
      <4> HIDE DEF Stays, Shifts, Leaves
      <4> QED
        BY <1>5, <3>1, <4>1
    <3>2. CASE moves /\ q = dest /\ j = place /\ l = sends[n][x].list
      <4>1. Leaves(spot, x, q, j) /\ spot \in Nat /\ x \in Nat /\ q \in Nat /\ j \in Nat
        BY <1>3, <3>2
      <4>2. At(spot, x, l)
        BY <1>6, <3>2
      <4> HIDE DEF Stays, Shifts, Leaves, spot
      <4> QED
        BY <1>5, <4>1, <4>2
    <3> QED
      BY <1>7, <2>1, <3>1, <3>2
  <2>2. CASE q = spot
    <3>1. PICK m \in Servers : q = 3 * m + 1 /\ j \in DOMAIN sends'[m] /\ l = sends'[m][j].list
                               /\ \E k \in DOMAIN sends'[m][j].to :
                                     sends'[m][j].to[k] = <<m + 1, link'[m + 1]>>
      <4>1. PICK m \in Servers :
              \/ q = 3 * m
              \/ q = 3 * m + 1 /\ j \in DOMAIN sends'[m] /\ l = sends'[m][j].list
                 /\ \E k \in DOMAIN sends'[m][j].to :
                       sends'[m][j].to[k] = <<m + 1, link'[m + 1]>>
              \/ q = 3 * m + 2
        BY <1>7 DEF At, Live
      <4>2. m \in Nat
        BY Chain
      <4> QED
        BY <1>3, <2>2, <4>1, <4>2, Spots
    <3>2. m = n
      BY <1>3, <2>2, <3>1, Spots, Chain
    <3>3. at[j] \in DOMAIN sends[n] /\ l = sends[n][at[j]].list /\ at[j] \in Nat /\ j \in Nat
      BY <1>2, <3>1, <3>2
    <3>4. Live(n, sends'[n][j].to)
      BY <3>1, <3>2 DEF Live
    <3>5. Live(n, sends[n][at[j]].to) /\ (moves => at[j] # x)
      <4>1. CASE at[j] = x
        <5>1. Live(n, Tail(sends[n][x].to))
          BY <1>2, <3>1, <3>2, <3>4, <4>1
        <5> QED
          BY <4>1, <5>1, TailLive
      <4>2. CASE at[j] # x
        BY <1>2, <3>1, <3>2, <3>4, <4>2
      <4> QED
        BY <4>1, <4>2
    <3>6. At(spot, at[j], l)
      BY <3>3, <3>5, AtSpots
    <3>7. Shifts(spot, at[j], q, j) /\ spot \in Nat
      BY <1>3, <2>2, <3>1, <3>2, <3>5
    <3> DEFINE i == at[j]
    <3>8. At(spot, i, l) /\ Shifts(spot, i, q, j) /\ spot \in Nat /\ i \in Nat /\ q \in Nat /\ j \in Nat
      BY <2>2, <3>3, <3>6, <3>7
    <3> HIDE DEF Stays, Shifts, Leaves, spot, i
    <3>9. <<spot, i, q, j>> \in R
      BY <1>5, <3>8
    <3> QED
      BY <3>8, <3>9
  <2> QED
    BY <2>1, <2>2
<1>8. \A p, i, q, j : <<p, i, q, j>> \in R => p \in Nat /\ i \in Nat /\ q \in Nat /\ j \in Nat /\ p <= q
  BY <1>3, <1>5
<1>9. \A p, i, q, j, r, k : <<p, i, q, j>> \in R /\ <<p, i, r, k>> \in R => q = r /\ j = k
  <2> SUFFICES ASSUME NEW p, NEW i, NEW q, NEW j, NEW r, NEW k,
                      <<p, i, q, j>> \in R, <<p, i, r, k>> \in R
               PROVE  q = r /\ j = k
    OBVIOUS
  <2>1. \/ Stays(p, i, q, j) /\ Stays(p, i, r, k)
        \/ Shifts(p, i, q, j) /\ Shifts(p, i, r, k)
        \/ Leaves(p, i, q, j) /\ Leaves(p, i, r, k)
    BY <1>5
  <2>2. CASE Shifts(p, i, q, j) /\ Shifts(p, i, r, k)
    <3>1. q = r /\ at[j] = at[k] /\ at[j] \in Nat /\ j \in DOMAIN sends'[n] /\ k \in DOMAIN sends'[n]
          /\ j \in Nat /\ k \in Nat
      BY <1>2, <2>2
    <3>2. ~(j < k) /\ ~(k < j)
      BY <1>2, <3>1
    <3> QED
      BY <3>1, <3>2
  <2> QED
    BY <2>1, <2>2
<1>10. ASSUME NEW a \in Agents, Unbroken(a),
              NEW p, NEW i, NEW q, NEW j, NEW r, NEW k, NEW s, NEW m, NEW l, NEW g,
              At(p, i, l), At(q, j, g), lists[g] = All, l < g,
              <<p, i, r, k>> \in R, <<q, j, s, m>> \in R, Behind(q, j, p, i),
              s <= 3 * (a - 1) + 2
       PROVE  Behind(s, m, r, k)
  <2>1. p \in Nat /\ q \in Nat /\ r \in Nat /\ s \in Nat
        /\ i \in Nat /\ j \in Nat /\ k \in Nat /\ m \in Nat /\ p <= r /\ q <= s /\ q <= p
    BY <1>8, <1>10 DEF Behind
  <2>2. CASE Leaves(q, j, s, m)
    <3>1. g = sends[n][x].list /\ moves /\ q = spot /\ j = x /\ s = dest /\ m = place
      BY <1>10, <2>2, AtSpots
    <3>2. dest = 3 * n + 2 /\ MayServe(n, x)
      BY <1>10, <3>1
    <3>3. x = 1
      <4>1. made[n + 1] = 1
        <5>1. n + 1 <= a /\ a \in Nat
          BY <1>3, <1>10, <3>1, <3>2
        <5>2. n + 1 \in 1 .. a
          BY <1>3, <5>1
        <5> QED
          BY <1>10, <5>2 DEF Unbroken
      <4>2. \A y \in DOMAIN sends[n] : Head(sends[n][y].to) = <<n + 1, 1>>
        <5> SUFFICES ASSUME NEW y \in DOMAIN sends[n]
                     PROVE  Head(sends[n][y].to) = <<n + 1, 1>>
          OBVIOUS
        <5>1. sends[n][y] \in SendsTo(n, 1, DOMAIN lists)
          BY <4>1 DEF TypeInv, ListsInv
        <5>2. Head(sends[n][y].to) \in ConnsUpTo(n, 1)
          BY <5>1 DEF SendsTo, AnySend
        <5> DEFINE c == Head(sends[n][y].to)
        <5>3. c \in Conns /\ c[1] = n + 1 /\ c[2] <= 1
          BY <5>2 DEF ConnsUpTo
        <5> HIDE DEF c
        <5>4. c = <<n + 1, 1>>
          BY <5>3, Chain
        <5> QED
          BY <5>4 DEF c
      <4>3. x # 1 => 1 \in 1 .. (x - 1) /\ 1 \in DOMAIN sends[n]
        BY <1>3
      <4> QED
        BY <3>2, <4>2, <4>3 DEF MayServe
    <3>4. i >= 1
      BY <1>10, AtNumbers
    <3>5. p > q
      BY <1>10, <2>1, <3>1, <3>3, <3>4 DEF Behind
    <3>6. r = p /\ k = i
      BY <1>3, <1>5, <1>10, <2>1, <3>1, <3>5
    <3>7. p = dest => i < place
      BY <1>10
    <3> QED
      BY <1>3, <2>1, <3>1, <3>2, <3>5, <3>6, <3>7 DEF Behind
  <2>3. CASE ~Leaves(q, j, s, m)
    <3>1. s = q
      BY <1>5, <1>10, <2>3
    <3>2. CASE Leaves(p, i, r, k)
      BY <1>3, <2>1, <3>1, <3>2 DEF Behind
    <3>3. CASE ~Leaves(p, i, r, k)
      <4>1. r = p
        BY <1>5, <1>10, <3>3
      <4>2. CASE q # p
        BY <2>1, <3>1, <4>1, <4>2 DEF Behind
      <4>3. CASE q = p /\ p # spot
        <5>1. m = j /\ k = i
          BY <1>5, <1>10, <2>3, <3>3, <4>3
        <5> QED
          BY <1>10, <3>1, <4>1, <5>1
      <4>4. CASE q = p /\ p = spot
        <5>1. Shifts(q, j, s, m) /\ Shifts(p, i, r, k)
          BY <1>5, <1>10, <2>3, <3>3, <4>4
        <5>2. /\ m \in DOMAIN sends'[n] /\ j = at[m]
              /\ k \in DOMAIN sends'[n] /\ i = at[k]
          BY <5>1
        <5>3. at[k] < at[m] /\ at[k] \in Nat /\ at[m] \in Nat
          BY <1>10, <2>1, <4>4, <5>2 DEF Behind
        <5>4. ~(m < k) /\ m # k
          BY <1>2, <5>2, <5>3
        <5> QED
          BY <2>1, <3>1, <4>1, <4>4, <5>4 DEF Behind
      <4> QED
        BY <4>2, <4>3, <4>4
    <3> QED
      BY <3>2, <3>3
  <2> QED
    BY <2>2, <2>3
<1>11. \A b \in Agents : made[b] <= made'[b]
  BY DEF TypeInv, LinkInv
<1> HIDE DEF Stays, Shifts, Leaves, spot
<1>12. Unique' /\ Ordered'
  <2>1. \A q, j, l : At(q, j, l)' => \E p, i : At(p, i, l) /\ <<p, i, q, j>> \in R
    BY <1>7
  <2>2. \A p, i, q, j : <<p, i, q, j>> \in R => p <= q /\ q \in Nat
    BY <1>8
  <2>3. \A a \in Agents : \A p, i, q, j, r, k, s, m, l, g :
              /\ Unbroken(a) /\ At(p, i, l) /\ At(q, j, g) /\ lists[g] = All /\ l < g
              /\ <<p, i, r, k>> \in R /\ <<q, j, s, m>> \in R
              /\ Behind(q, j, p, i) /\ s <= 3 * (a - 1) + 2
              => Behind(s, m, r, k)
    BY <1>10
  <2> QED
    BY <1>9, <1>11, <2>1, <2>2, <2>3, TokensMove DEF TokenInv
<1>13. PastOnce' /\ PastOrdered'
  <2>1. ASSUME NEW q, NEW j, NEW l, At(q, j, l)'
        PROVE  \E p, i : At(p, i, l) /\ p <= q /\ q \in Nat
    <3>1. PICK p, i : At(p, i, l) /\ <<p, i, q, j>> \in R
      BY <1>7, <2>1, Zenon
    <3>2. p <= q /\ q \in Nat
      BY <1>8, <3>1, Zenon
    <3> QED
      BY <3>1, <3>2, Zenon
  <2> QED
    BY <1>11, <2>1, PastStays DEF TokenInv
<1> QED
  BY <1>12, <1>13 DEF TokenInv

(* No queue grew, or the list joined one at its end. *)
OneJoins(list, dest, place, moves) ==
    /\ \A m \in Servers :
          \/ mailbox'[m] = mailbox[m]
          \/ /\ moves /\ dest = 3 * m /\ place = Len(mailbox[m]) + 1
             /\ mailbox'[m] = Append(mailbox[m], list)
    /\ \A m \in Servers :
          \/ simulation'[m + 1] = simulation[m + 1]
          \/ /\ moves /\ dest = 3 * m + 2 /\ place = Len(simulation[m + 1]) + 1
             /\ simulation'[m + 1] = Append(simulation[m + 1], list)

(* What else there is then. *)
LEMMA ServedElsewhere ==
    ASSUME TypeInv, NEW n \in Servers, NEW x \in DOMAIN sends[n], Served(n, x), link' = link,
           NEW list, NEW dest, NEW place, NEW moves \in BOOLEAN,
           OneJoins(list, dest, place, moves)
    PROVE  \A q, j, l : At(q, j, l)' /\ q # 3 * n + 1 =>
              At(q, j, l) \/ (moves /\ q = dest /\ j = place /\ l = list)
<1> SUFFICES ASSUME NEW q, NEW j, NEW l, At(q, j, l)', q # 3 * n + 1
             PROVE  At(q, j, l) \/ (moves /\ q = dest /\ j = place /\ l = list)
  OBVIOUS
<1>1. PICK m \in Servers :
        \/ q = 3 * m /\ j \in DOMAIN mailbox'[m] /\ l = mailbox'[m][j]
        \/ /\ q = 3 * m + 1 /\ j \in DOMAIN sends'[m] /\ l = sends'[m][j].list
           /\ \E k \in DOMAIN sends'[m][j].to : sends'[m][j].to[k] = <<m + 1, link'[m + 1]>>
        \/ q = 3 * m + 2 /\ j \in DOMAIN simulation'[m + 1] /\ l = simulation'[m + 1][j]
  BY DEF At, Live
<1>2. \A X : \A s \in Seq(X) : \A y : \A k \in DOMAIN Append(s, y) :
         (k \in DOMAIN s /\ Append(s, y)[k] = s[k]) \/ (k = Len(s) + 1 /\ Append(s, y)[k] = y)
  <2> SUFFICES ASSUME NEW X, NEW s \in Seq(X), NEW y, NEW k \in DOMAIN Append(s, y)
               PROVE  \/ k \in DOMAIN s /\ Append(s, y)[k] = s[k]
                      \/ k = Len(s) + 1 /\ Append(s, y)[k] = y
    OBVIOUS
  <2> DEFINE len == Len(s)
  <2>1. /\ DOMAIN s = 1 .. len /\ len \in Nat /\ DOMAIN Append(s, y) = 1 .. (len + 1)
        /\ Append(s, y)[len + 1] = y /\ \A i \in 1 .. len : Append(s, y)[i] = s[i]
    <3> DEFINE Y == X \cup {y}
    <3>1. s \in Seq(Y) /\ y \in Y
      OBVIOUS
    <3> HIDE DEF Y
    <3> QED
      BY <3>1
  <2> HIDE DEF len
  <2>2. k \in 1 .. len \/ k = len + 1
    BY <2>1
  <2> QED
    BY <2>1, <2>2 DEF len
<1>3. CASE q = 3 * m /\ j \in DOMAIN mailbox'[m] /\ l = mailbox'[m][j]
  <2>1. mailbox[m] \in Seq(DOMAIN lists)
    BY DEF TypeInv, ListsInv
  <2>2. CASE mailbox'[m] = mailbox[m]
    BY <1>3, <2>2, AtSpots
  <2>3. CASE /\ moves /\ dest = 3 * m /\ place = Len(mailbox[m]) + 1
             /\ mailbox'[m] = Append(mailbox[m], list)
    <3>1. (j \in DOMAIN mailbox[m] /\ l = mailbox[m][j]) \/ (j = place /\ l = list)
      BY <1>2, <1>3, <2>1, <2>3
    <3> QED
      BY <1>3, <2>3, <3>1, AtSpots
  <2> QED
    BY <2>2, <2>3 DEF OneJoins
<1>4. CASE /\ q = 3 * m + 1 /\ j \in DOMAIN sends'[m] /\ l = sends'[m][j].list
           /\ \E k \in DOMAIN sends'[m][j].to : sends'[m][j].to[k] = <<m + 1, link'[m + 1]>>
  <2>1. m # n
    BY <1>4
  <2>2. sends'[m] = sends[m]
    BY <2>1, ServedPlaces
  <2>3. Live(m, sends[m][j].to)
    BY <1>4, <2>2 DEF Live
  <2> QED
    BY <1>4, <2>2, <2>3, AtSpots
<1>5. CASE q = 3 * m + 2 /\ j \in DOMAIN simulation'[m + 1] /\ l = simulation'[m + 1][j]
  <2>1. simulation[m + 1] \in Seq(DOMAIN lists)
    BY Chain DEF TypeInv, ListsInv
  <2>2. CASE simulation'[m + 1] = simulation[m + 1]
    BY <1>5, <2>2, AtSpots
  <2>3. CASE /\ moves /\ dest = 3 * m + 2 /\ place = Len(simulation[m + 1]) + 1
             /\ simulation'[m + 1] = Append(simulation[m + 1], list)
    <3>1. (j \in DOMAIN simulation[m + 1] /\ l = simulation[m + 1][j]) \/ (j = place /\ l = list)
      BY <1>2, <1>5, <2>1, <2>3
    <3> QED
      BY <1>5, <2>3, <3>1, AtSpots
  <2> QED
    BY <2>2, <2>3 DEF OneJoins
<1> QED
  BY <1>1, <1>3, <1>4, <1>5

(* The ends of the queues. *)
LEMMA QueueEnds ==
    ASSUME TypeInv, NEW n \in Servers
    PROVE  /\ Len(mailbox[n]) + 1 \in Nat
           /\ \A k, l : At(3 * n, k, l) => k < Len(mailbox[n]) + 1
           /\ Len(simulation[n + 1]) + 1 \in Nat
           /\ \A k, l : At(3 * n + 2, k, l) => k < Len(simulation[n + 1]) + 1
<1>1. mailbox[n] \in Seq(DOMAIN lists) /\ simulation[n + 1] \in Seq(DOMAIN lists)
  BY Chain DEF TypeInv, ListsInv
<1>2. \A k \in DOMAIN mailbox[n] : k < Len(mailbox[n]) + 1
  BY <1>1
<1>3. \A k \in DOMAIN simulation[n + 1] : k < Len(simulation[n + 1]) + 1
  BY <1>1
<1> QED
  BY <1>1, <1>2, <1>3, AtSpots

(* Nothing moves on from the sends but what was served. *)
LEMMA NothingMoved ==
    ASSUME TypeInv, TypeInv', TokenInv, NEW n \in Servers, NEW x \in DOMAIN sends[n], Served(n, x),
           lists' = lists, handled' = handled, made' = made, link' = link,
           mailbox' = mailbox, simulation' = simulation
    PROVE  TokenInv'
<1> DEFINE dest == 3 * n + 2
           place == Len(simulation[n + 1]) + 1
           moves == FALSE
           list == sends[n][x].list
<1>1. place \in Nat /\ moves \in BOOLEAN /\ dest \in {3 * n + 2, 3 * n + 3} /\ ~moves
      /\ \A k, l : At(dest, k, l) => k < place
  BY QueueEnds
<1> HIDE DEF dest, place, moves, list
<1>2. \A q, j, l : At(q, j, l)' /\ q # 3 * n + 1 =>
         At(q, j, l) \/ (moves /\ q = dest /\ j = place /\ l = list)
  <2>1. OneJoins(list, dest, place, moves)
    BY DEF OneJoins
  <2> QED
    BY <1>1, <2>1, ServedElsewhere
<1>3. \A q, j, l : At(q, j, l)' /\ q # 3 * n + 1 =>
         At(q, j, l) \/ (moves /\ q = dest /\ j = place /\ l = sends[n][x].list)
  BY <1>2 DEF list
<1> QED
  BY <1>1, <1>3, MovedTokens

LEMMA ServeTokens ==
    ASSUME TypeInv, TypeInv', TokenInv, NEW n \in Servers, NEW x \in DOMAIN sends[n], Serve(n, x)
    PROVE  TokenInv'
<1> DEFINE c == Head(sends[n][x].to)
           list == sends[n][x].list
<1>1. MayServe(n, x) /\ UNCHANGED <<lists, handled, reports, links, table, dead>>
  BY DEF Serve
<1>2. lists' = lists /\ handled' = handled /\ link' = link /\ made' = made
  BY <1>1 DEF links
<1>3. CASE is_closed(c)
  BY <1>1, <1>3, SameTokens DEF Serve, commands, links
<1>4. CASE ~is_closed(c)
  <2>1. CoreHandles(c[1], list) /\ Served(n, x)
    BY <1>4 DEF Serve
  <2>2. c = <<n + 1, link[n + 1]>> /\ c[1] = n + 1 /\ n + 1 \in Agents /\ list \in DOMAIN lists
    <3>1. sends[n][x] \in SendsTo(n, made[n + 1], DOMAIN lists)
      BY DEF TypeInv, ListsInv
    <3>2. c \in ConnsUpTo(n, made[n + 1]) /\ list \in DOMAIN lists
      BY <3>1 DEF SendsTo, AnySend
    <3>3. c \in Conns /\ c[1] = n + 1 /\ link[c[1]] = c[2]
      BY <1>4, <3>2 DEF ConnsUpTo, is_closed
    <3>4. c = <<c[1], c[2]>>
      BY <3>3, Chain
    <3> QED
      BY <3>2, <3>3, <3>4, Chain
  <2>3. CoreHandles(n + 1, list)
    BY <2>1, <2>2
  <2> HIDE DEF c
  <2>4. CASE simulation' = simulation /\ mailbox' = mailbox
    BY <1>2, <2>1, <2>4, NothingMoved
  <2>5. CASE /\ simulation' = [simulation EXCEPT ![n + 1] = Append(@, list)]
             /\ mailbox' = mailbox
    <3> DEFINE dest == 3 * n + 2
               place == Len(simulation[n + 1]) + 1
               moves == TRUE
    <3>1. place \in Nat /\ moves \in BOOLEAN /\ dest \in {3 * n + 2, 3 * n + 3} /\ dest = 3 * n + 2
          /\ \A k, l : At(dest, k, l) => k < place
      BY QueueEnds
    <3>2. \A m \in Servers :
              \/ simulation'[m + 1] = simulation[m + 1]
              \/ /\ moves /\ dest = 3 * m + 2 /\ place = Len(simulation[m + 1]) + 1
                 /\ simulation'[m + 1] = Append(simulation[m + 1], list)
      <4> SUFFICES ASSUME NEW m \in Servers
                   PROVE  \/ simulation'[m + 1] = simulation[m + 1]
                          \/ /\ moves /\ dest = 3 * m + 2 /\ place = Len(simulation[m + 1]) + 1
                             /\ simulation'[m + 1] = Append(simulation[m + 1], list)
        OBVIOUS
      <4>1. simulation \in [Agents -> Seq(DOMAIN lists)]
        BY DEF TypeInv, ListsInv
      <4>2. CASE m = n
        <5>1. simulation'[m + 1] = Append(simulation[m + 1], list)
          BY <2>2, <2>5, <4>1, <4>2
        <5> QED
          BY <4>2, <5>1
      <4>3. CASE m # n
        <5>1. m + 1 # n + 1 /\ m + 1 \in Agents
          BY <4>3, Chain
        <5> QED
          BY <2>5, <4>1, <5>1
      <4> QED
        BY <4>2, <4>3
    <3>3. moves => Head(sends[n][x].to) = <<n + 1, link[n + 1]>>
      BY <2>2 DEF c
    <3> HIDE DEF dest, place, moves, list
    <3>4. \A q, j, l : At(q, j, l)' /\ q # 3 * n + 1 =>
             At(q, j, l) \/ (moves /\ q = dest /\ j = place /\ l = list)
      <4>1. \A m \in Servers :
                \/ mailbox'[m] = mailbox[m]
                \/ /\ moves /\ dest = 3 * m /\ place = Len(mailbox[m]) + 1
                   /\ mailbox'[m] = Append(mailbox[m], list)
        BY <2>5
      <4>2. link' = link /\ Served(n, x) /\ moves \in BOOLEAN
        BY <1>2, <2>1, <3>1
      <4> QED
        <5>1. OneJoins(list, dest, place, moves)
          BY <3>2, <4>1 DEF OneJoins
        <5> QED
          BY <4>2, <5>1, ServedElsewhere
    <3>5. \A q, j, l : At(q, j, l)' /\ q # 3 * n + 1 =>
             At(q, j, l) \/ (moves /\ q = dest /\ j = place /\ l = sends[n][x].list)
      BY <3>4 DEF list
    <3> QED
      BY <1>1, <1>2, <2>1, <3>1, <3>3, <3>5, MovedTokens
  <2>6. CASE PassOn(n + 1, list) /\ simulation' = simulation /\ ~includes_agent(lists[list], n + 1)
    <3>1. mailbox' = [m \in Servers |->
             IF m = n + 1 /\ ~dead[m] THEN Append(mailbox[m], list) ELSE mailbox[m]]
      BY <2>6 DEF PassOn
    <3>2. CASE ~(n + 1 \in Servers /\ ~dead[n + 1])
      <4>1. mailbox = [m \in Servers |-> mailbox[m]]
        BY DEF TypeInv, ListsInv
      <4>2. mailbox' = mailbox
        BY <3>1, <3>2, <4>1
      <4> QED
        BY <2>4, <2>6, <4>2
    <3>3. CASE n + 1 \in Servers /\ ~dead[n + 1]
      <4> DEFINE dest == 3 * n + 3
                 place == Len(mailbox[n + 1]) + 1
                 moves == TRUE
      <4>1. place \in Nat /\ moves \in BOOLEAN /\ dest \in {3 * n + 2, 3 * n + 3}
            /\ \A k, l : At(dest, k, l) => k < place
        <5>1. dest = 3 * (n + 1)
          BY Chain
        <5> QED
          BY <3>3, <5>1, QueueEnds
      <4>2. \A m \in Servers :
                \/ mailbox'[m] = mailbox[m]
                \/ /\ moves /\ dest = 3 * m /\ place = Len(mailbox[m]) + 1
                   /\ mailbox'[m] = Append(mailbox[m], list)
        <5> SUFFICES ASSUME NEW m \in Servers
                     PROVE  \/ mailbox'[m] = mailbox[m]
                            \/ /\ moves /\ dest = 3 * m /\ place = Len(mailbox[m]) + 1
                               /\ mailbox'[m] = Append(mailbox[m], list)
          OBVIOUS
        <5>1. CASE m = n + 1
          <6>1. dest = 3 * m
            BY <5>1, Chain
          <6> QED
            BY <3>1, <3>3, <5>1, <6>1
        <5>2. CASE m # n + 1
          BY <3>1, <5>2
        <5> QED
          BY <5>1, <5>2
      <4>3. moves => Head(sends[n][x].to) = <<n + 1, link[n + 1]>>
        BY <2>2 DEF c
      <4>4. lists[list] # All
        BY <2>6 DEF includes_agent, IsGroup, All
      <4>5. ~ (moves /\ lists[sends[n][x].list] = All)
        BY <4>4
      <4> HIDE DEF dest, place, moves, list
      <4>6. \A q, j, l : At(q, j, l)' /\ q # 3 * n + 1 =>
               At(q, j, l) \/ (moves /\ q = dest /\ j = place /\ l = list)
        <5>1. \A m \in Servers :
                  \/ simulation'[m + 1] = simulation[m + 1]
                  \/ /\ moves /\ dest = 3 * m + 2 /\ place = Len(simulation[m + 1]) + 1
                     /\ simulation'[m + 1] = Append(simulation[m + 1], list)
          BY <2>6
        <5>2. link' = link /\ Served(n, x) /\ moves \in BOOLEAN
          BY <1>2, <2>1, <4>1
        <5> QED
          <6>1. OneJoins(list, dest, place, moves)
            BY <4>2, <5>1 DEF OneJoins
          <6> QED
            BY <5>2, <6>1, ServedElsewhere
      <4>7. \A q, j, l : At(q, j, l)' /\ q # 3 * n + 1 =>
               At(q, j, l) \/ (moves /\ q = dest /\ j = place /\ l = sends[n][x].list)
        BY <4>6 DEF list
      <4> QED
        BY <1>2, <2>1, <4>1, <4>3, <4>5, <4>7, MovedTokens
    <3> QED
      BY <3>2, <3>3
  <2> QED
    BY <2>3, <2>4, <2>5, <2>6, Zenon DEF CoreHandles
<1> QED
  BY <1>3, <1>4

-----------------------------------------------------------------------------
(* A simulation handles its first list, which goes on to the next server. *)
LEMMA SimulationMoves ==
    ASSUME TypeInv, NEW n \in Servers, SimulationHandles(n + 1)
    PROVE  \E list \in DOMAIN lists :
              /\ At(3 * n + 2, 1, list)
              /\ handled' = [handled EXCEPT ![n + 1] = Append(@, list)]
              /\ lists' = lists /\ made' = made
              /\ \A q, j, l : At(q, j, l)' =>
                    \/ q # 3 * n + 2 /\ At(q, j, l)
                    \/ q = 3 * n + 2 /\ j \in Nat /\ At(q, j + 1, l)
                    \/ q = 3 * n + 3 /\ j = Len(mailbox[n + 1]) + 1 /\ l = list /\ n + 1 \in Servers
<1> DEFINE old == simulation[n + 1]
           list == Head(old)
           place == Len(mailbox[n + 1]) + 1
<1>1. /\ old # <<>>
      /\ simulation' = [simulation EXCEPT ![n + 1] = Tail(@)]
      /\ handled' = [handled EXCEPT ![n + 1] = Append(@, list)]
      /\ mailbox' = [m \in Servers |->
             IF m = n + 1 /\ ~dead[m] THEN Append(mailbox[m], list) ELSE mailbox[m]]
      /\ lists' = lists /\ sends' = sends /\ link' = link /\ made' = made
  BY DEF SimulationHandles, PassOn, links
<1>2. n \in Nat /\ n + 1 \in Agents /\ \A m \in Servers : m \in Nat /\ m + 1 \in Agents
  BY Chain
<1>3. simulation \in [Agents -> Seq(DOMAIN lists)] /\ old \in Seq(DOMAIN lists)
  BY <1>2 DEF TypeInv, ListsInv
<1>4. /\ list \in DOMAIN lists /\ 1 \in DOMAIN old /\ list = old[1]
      /\ \A j \in DOMAIN Tail(old) : j \in Nat /\ j + 1 \in DOMAIN old /\ Tail(old)[j] = old[j + 1]
  <2> HIDE DEF old
  <2> QED
    BY <1>1, <1>3
<1> HIDE DEF list
<1>5. At(3 * n + 2, 1, list)
  BY <1>4, AtSpots
<1>6. ASSUME NEW q, NEW j, NEW l, At(q, j, l)'
      PROVE  \/ q # 3 * n + 2 /\ At(q, j, l)
             \/ q = 3 * n + 2 /\ j \in Nat /\ At(q, j + 1, l)
             \/ q = 3 * n + 3 /\ j = place /\ l = list /\ n + 1 \in Servers
  <2>1. PICK m \in Servers :
          \/ q = 3 * m /\ j \in DOMAIN mailbox'[m] /\ l = mailbox'[m][j]
          \/ /\ q = 3 * m + 1 /\ j \in DOMAIN sends[m] /\ l = sends[m][j].list
             /\ Live(m, sends[m][j].to)
          \/ q = 3 * m + 2 /\ j \in DOMAIN simulation'[m + 1] /\ l = simulation'[m + 1][j]
    BY <1>1, <1>6 DEF At, Live
  <2>2. CASE q = 3 * m /\ j \in DOMAIN mailbox'[m] /\ l = mailbox'[m][j]
    <3>1. q # 3 * n + 2
      BY <1>2, <2>2, Spots
    <3>2. CASE mailbox'[m] = mailbox[m]
      BY <2>2, <3>1, <3>2, AtSpots
    <3>3. CASE m = n + 1 /\ mailbox'[m] = Append(mailbox[m], list)
      <4>1. q = 3 * n + 3
        BY <1>2, <2>2, <3>3
      <4>2. mailbox[m] \in Seq(DOMAIN lists)
        BY DEF TypeInv, ListsInv
      <4>3. \/ j \in DOMAIN mailbox[m] /\ l = mailbox[m][j]
            \/ j = Len(mailbox[m]) + 1 /\ l = list
        BY <1>4, <2>2, <3>3, <4>2
      <4> QED
        BY <2>2, <3>1, <3>3, <4>1, <4>3, AtSpots
    <3> QED
      BY <1>1, <3>2, <3>3
  <2>3. CASE /\ q = 3 * m + 1 /\ j \in DOMAIN sends[m] /\ l = sends[m][j].list
             /\ Live(m, sends[m][j].to)
    <3>1. q # 3 * n + 2
      BY <1>2, <2>3, Spots
    <3> QED
      BY <2>3, <3>1, AtSpots
  <2>4. CASE q = 3 * m + 2 /\ j \in DOMAIN simulation'[m + 1] /\ l = simulation'[m + 1][j]
    <3>1. CASE m = n
      <4>1. simulation'[m + 1] = Tail(old)
        BY <1>1, <1>2, <1>3, <3>1
      <4>2. j \in Nat /\ j + 1 \in DOMAIN old /\ l = old[j + 1]
        BY <1>4, <2>4, <4>1
      <4> QED
        BY <2>4, <3>1, <4>2, AtSpots
    <3>2. CASE m # n
      <4>1. q # 3 * n + 2 /\ n + 1 # m + 1
        BY <1>2, <2>4, <3>2, Spots
      <4>2. simulation'[m + 1] = simulation[m + 1]
        BY <1>1, <1>2, <1>3, <4>1
      <4> QED
        BY <2>4, <4>1, <4>2, AtSpots
    <3> QED
      BY <3>1, <3>2
  <2> QED
    BY <2>1, <2>2, <2>3, <2>4
<1> HIDE DEF old
<1> QED
  BY <1>1, <1>4, <1>5, <1>6

LEMMA SimulationTokens ==
    ASSUME TypeInv, TypeInv', TokenInv, NEW n \in Servers, SimulationHandles(n + 1)
    PROVE  TokenInv'
<1>1. PICK list \in DOMAIN lists :
              /\ At(3 * n + 2, 1, list)
              /\ handled' = [handled EXCEPT ![n + 1] = Append(@, list)]
              /\ lists' = lists /\ made' = made
              /\ \A q, j, l : At(q, j, l)' =>
                    \/ q # 3 * n + 2 /\ At(q, j, l)
                    \/ q = 3 * n + 2 /\ j \in Nat /\ At(q, j + 1, l)
                    \/ q = 3 * n + 3 /\ j = Len(mailbox[n + 1]) + 1 /\ l = list /\ n + 1 \in Servers
  BY SimulationMoves
<1> DEFINE spot == 3 * n + 2
           dest == 3 * n + 3
           place == Len(mailbox[n + 1]) + 1
           Stays(p, i, q, j) == p # spot /\ q = p /\ j = i
           Shifts(p, i, q, j) == p = spot /\ q = spot /\ i = j + 1 /\ j >= 1
           Leaves(p, i, q, j) == p = spot /\ i = 1 /\ q = dest /\ j = place /\ n + 1 \in Servers
           R == {r \in Nat \X Nat \X Nat \X Nat :
                   \/ Stays(r[1], r[2], r[3], r[4])
                   \/ Shifts(r[1], r[2], r[3], r[4])
                   \/ Leaves(r[1], r[2], r[3], r[4])}
<1>2. n \in Nat /\ spot \in Nat /\ dest \in Nat /\ dest = spot + 1 /\ n + 1 \in Agents
      /\ \A a \in Agents : a \in Nat
  BY Chain
<1>3. n + 1 \in Servers => /\ place \in Nat /\ \A k, l : At(dest, k, l) => k < place
  <2>1. SUFFICES ASSUME n + 1 \in Servers
                 PROVE  place \in Nat /\ \A k, l : At(dest, k, l) => k < place
    OBVIOUS
  <2>2. dest = 3 * (n + 1)
    BY <1>2
  <2> QED
    BY <2>1, <2>2, QueueEnds
<1>4. \A p, i, q, j : <<p, i, q, j>> \in R <=>
         /\ p \in Nat /\ i \in Nat /\ q \in Nat /\ j \in Nat
         /\ Stays(p, i, q, j) \/ Shifts(p, i, q, j) \/ Leaves(p, i, q, j)
  <2> HIDE DEF Stays, Shifts, Leaves
  <2> QED
    OBVIOUS
<1> HIDE DEF R, spot, dest, place
<1>5. ASSUME NEW q, NEW j, NEW l, At(q, j, l)'
      PROVE  \E p, i : At(p, i, l) /\ <<p, i, q, j>> \in R
  <2>1. \/ q # spot /\ At(q, j, l)
        \/ q = spot /\ j \in Nat /\ At(q, j + 1, l)
        \/ q = dest /\ j = place /\ l = list /\ n + 1 \in Servers
    BY <1>1, <1>5 DEF spot, dest, place
  <2>2. CASE q # spot /\ At(q, j, l)
    <3>1. q \in Nat /\ j \in Nat /\ Stays(q, j, q, j)
      BY <2>2, AtNumbers
    <3> HIDE DEF Stays, Shifts, Leaves
    <3> QED
      BY <1>4, <2>2, <3>1
  <2>3. CASE q = spot /\ j \in Nat /\ At(q, j + 1, l)
    <3>1. j >= 1
      <4>1. j # 0
        <5> SUFFICES ASSUME j = 0
                     PROVE  FALSE
          OBVIOUS
        <5>1. At(3 * n + 2, j, l)'
          BY <1>5, <2>3 DEF spot
        <5>2. PICK m \in Servers : 3 * n + 2 = 3 * m + 2 /\ j \in DOMAIN simulation'[m + 1]
          <6>1. PICK m \in Servers :
                  \/ 3 * n + 2 = 3 * m \/ 3 * n + 2 = 3 * m + 1
                  \/ 3 * n + 2 = 3 * m + 2 /\ j \in DOMAIN simulation'[m + 1]
            BY <5>1 DEF At
          <6>2. m \in Nat
            BY Chain
          <6> QED
            BY <1>2, <6>1, <6>2, Spots
        <5>3. simulation'[m + 1] \in Seq(DOMAIN lists')
          BY Chain DEF TypeInv, ListsInv
        <5> QED
          BY <5>2, <5>3
      <4> QED
        BY <2>3, <4>1
    <3>2. PICK i : i = j + 1
      OBVIOUS
    <3>3. At(q, i, l) /\ Shifts(q, i, q, j) /\ q \in Nat /\ i \in Nat /\ j \in Nat
      BY <1>2, <2>3, <3>1, <3>2
    <3> HIDE DEF Stays, Shifts, Leaves
    <3>4. <<q, i, q, j>> \in R
      BY <1>4, <3>3
    <3> QED
      BY <3>3, <3>4
  <2>4. CASE q = dest /\ j = place /\ l = list /\ n + 1 \in Servers
    <3>1. At(spot, 1, l)
      BY <1>1, <2>4 DEF spot
    <3>2. Leaves(spot, 1, q, j) /\ spot \in Nat /\ 1 \in Nat /\ q \in Nat /\ j \in Nat
      BY <1>2, <1>3, <2>4
    <3> HIDE DEF Stays, Shifts, Leaves
    <3> QED
      BY <1>4, <3>1, <3>2
  <2> QED
    BY <2>1, <2>2, <2>3, <2>4
<1>6. \A p, i, q, j : <<p, i, q, j>> \in R => p \in Nat /\ i \in Nat /\ q \in Nat /\ j \in Nat /\ p <= q
  BY <1>2, <1>4
<1>7. \A p, i, q, j, r, k : <<p, i, q, j>> \in R /\ <<p, i, r, k>> \in R => q = r /\ j = k
  BY <1>2, <1>4
<1>8. ASSUME NEW p, NEW i, NEW q, NEW j, NEW r, NEW k, NEW s, NEW m, NEW l, NEW g,
             At(p, i, l), At(q, j, g), <<p, i, r, k>> \in R, <<q, j, s, m>> \in R, Behind(q, j, p, i)
      PROVE  Behind(s, m, r, k)
  <2>1. p \in Nat /\ q \in Nat /\ r \in Nat /\ s \in Nat
        /\ i \in Nat /\ j \in Nat /\ k \in Nat /\ m \in Nat /\ p <= r /\ q <= s
    BY <1>6, <1>8
  <2>2. i >= 1 /\ j >= 1
    BY <1>8, AtNumbers
  <2>3. CASE Leaves(q, j, s, m)
    <3>1. p > spot
      BY <1>2, <1>8, <2>1, <2>2, <2>3 DEF Behind
    <3>2. r = p /\ k = i
      BY <1>2, <1>4, <1>8, <3>1
    <3>3. p = dest => i < place
      BY <1>3, <1>8, <2>3
    <3> QED
      BY <1>2, <2>1, <2>3, <3>1, <3>2, <3>3 DEF Behind
  <2>4. CASE ~Leaves(q, j, s, m)
    <3>1. s = q
      BY <1>4, <1>8, <2>4
    <3>2. CASE Leaves(p, i, r, k)
      BY <1>2, <1>8, <2>1, <3>1, <3>2 DEF Behind
    <3>3. CASE ~Leaves(p, i, r, k)
      BY <1>4, <1>8, <2>1, <2>4, <3>1, <3>3 DEF Behind
    <3> QED
      BY <3>2, <3>3
  <2> QED
    BY <2>3, <2>4
<1>9. \A b \in Agents : made[b] <= made'[b]
  BY <1>1 DEF TypeInv, LinkInv
<1> HIDE DEF Stays, Shifts, Leaves
<1>10. Unique' /\ Ordered'
  <2>1. \A q, j, l : At(q, j, l)' => \E p, i : At(p, i, l) /\ <<p, i, q, j>> \in R
    BY <1>5
  <2>2. \A p, i, q, j : <<p, i, q, j>> \in R => p <= q /\ q \in Nat
    BY <1>6
  <2>3. \A a \in Agents : \A p, i, q, j, r, k, s, m, l, g :
              /\ Unbroken(a) /\ At(p, i, l) /\ At(q, j, g) /\ lists[g] = All /\ l < g
              /\ <<p, i, r, k>> \in R /\ <<q, j, s, m>> \in R
              /\ Behind(q, j, p, i) /\ s <= 3 * (a - 1) + 2
              => Behind(s, m, r, k)
    BY <1>8
  <2> QED
    BY <1>1, <1>7, <1>9, <2>1, <2>2, <2>3, TokensMove DEF TokenInv
(* What is still on its way keeps behind those that handled it, or an older one. *)
<1>11. ASSUME NEW a \in Agents, NEW q, NEW j, NEW l, At(q, j, l)',
              \A p, i : At(p, i, l) => p > 3 * (a - 1) + 2
       PROVE  q > 3 * (a - 1) + 2
  <2>1. PICK p, i : At(p, i, l) /\ <<p, i, q, j>> \in R
    BY <1>5, <1>11
  <2>2. p > 3 * (a - 1) + 2 /\ p <= q /\ p \in Nat /\ q \in Nat
    BY <1>6, <1>11, <2>1
  <2> QED
    BY <1>2, <2>2
<1>12. At(spot, 1, list) /\ list \in Nat /\ spot = 3 * ((n + 1) - 1) + 2
  BY <1>1, <1>2, AtNumbers DEF spot
(* The list itself is past the agent. *)
<1>13. ASSUME NEW q, NEW j, At(q, j, list)'
       PROVE  q > spot
  <2>1. PICK p, i : At(p, i, list) /\ <<p, i, q, j>> \in R
    BY <1>5, <1>13
  <2>2. p = spot /\ i = 1
    BY <1>12, <2>1 DEF TokenInv, Unique
  <2>3. q = dest
    BY <1>4, <2>1, <2>2 DEF Stays, Shifts, Leaves
  <2> QED
    BY <1>2, <2>3
<1>14. /\ \A a \in Agents : a # n + 1 => handled'[a] = handled[a]
       /\ handled[n + 1] \in Seq(DOMAIN lists)
       /\ handled'[n + 1] = Append(handled[n + 1], list)
  BY <1>1, <1>2 DEF TypeInv, ListsInv
<1> DEFINE len == Len(handled[n + 1])
<1>15. /\ DOMAIN handled'[n + 1] = 1 .. (len + 1) /\ DOMAIN handled[n + 1] = 1 .. len /\ len \in Nat
       /\ handled'[n + 1][len + 1] = list
       /\ \A h \in 1 .. len : handled'[n + 1][h] = handled[n + 1][h] /\ handled[n + 1][h] \in Nat
  <2>1. DOMAIN lists \subseteq Nat
    BY DEF TypeInv, ListsInv
  <2> QED
    BY <1>14, <2>1
<1> HIDE DEF len
(* It was not handled before. *)
<1>16. ASSUME NEW h \in 1 .. len
       PROVE  handled[n + 1][h] # list
  <2>1. \A p, i : At(p, i, handled[n + 1][h]) => p > 3 * ((n + 1) - 1) + 2
    BY <1>2, <1>15 DEF TokenInv, PastOnce
  <2>2. At(spot, 1, handled[n + 1][h]) => spot > spot
    BY <1>12, <2>1
  <2> QED
    BY <1>2, <1>12, <2>2
<1>17. ASSUME NEW a \in Agents, NEW h \in DOMAIN handled'[a]
       PROVE  \/ h \in DOMAIN handled[a] /\ handled'[a][h] = handled[a][h]
              \/ a = n + 1 /\ h = len + 1 /\ handled'[a][h] = list
  <2>1. CASE a # n + 1
    BY <1>14, <2>1
  <2>2. CASE a = n + 1
    BY <1>15, <2>2
  <2> QED
    BY <2>1, <2>2
<1>18. PastOnce'
  <2>1. ASSUME NEW a \in Agents, NEW h \in DOMAIN handled'[a], NEW l, l = handled'[a][h],
               NEW q, NEW j, At(q, j, l)'
        PROVE  q > 3 * (a - 1) + 2
    <3>1. CASE h \in DOMAIN handled[a] /\ l = handled[a][h]
      BY <1>11, <2>1, <3>1 DEF TokenInv, PastOnce
    <3>2. CASE a = n + 1 /\ l = list
      BY <1>12, <1>13, <2>1, <3>2
    <3> QED
      BY <1>17, <2>1, <3>1, <3>2
  <2>2. ASSUME NEW a \in Agents
        PROVE  IsInjective(handled'[a])
    <3>1. IsInjective(handled[a])
      BY DEF TokenInv, PastOnce
    <3>2. CASE a # n + 1
      BY <1>14, <3>1, <3>2
    <3>3. CASE a = n + 1
      <4>1. ASSUME NEW h \in DOMAIN handled'[a], NEW k \in DOMAIN handled'[a],
                   handled'[a][h] = handled'[a][k]
            PROVE  h = k
        <5>1. CASE h \in 1 .. len /\ k \in 1 .. len
          BY <1>15, <3>1, <3>3, <4>1, <5>1 DEF IsInjective
        <5>2. CASE h \notin 1 .. len \/ k \notin 1 .. len
          <6>1. h \in 1 .. (len + 1) /\ k \in 1 .. (len + 1)
            BY <1>15, <3>3
          <6>2. CASE h = len + 1 /\ k = len + 1
            BY <6>2
          <6>3. CASE h = len + 1 /\ k \in 1 .. len
            BY <1>15, <1>16, <3>3, <4>1, <6>3
          <6>4. CASE k = len + 1 /\ h \in 1 .. len
            BY <1>15, <1>16, <3>3, <4>1, <6>4
          <6> QED
            BY <1>15, <5>2, <6>1, <6>2, <6>3, <6>4
        <5> QED
          BY <5>1, <5>2
      <4> QED
        BY <4>1 DEF IsInjective
    <3> QED
      BY <3>2, <3>3
  <2> QED
    BY <2>1, <2>2 DEF PastOnce
<1>19. PastOrdered'
  <2> SUFFICES ASSUME NEW a \in Agents, Unbroken(a)', NEW h \in DOMAIN handled'[a],
                      lists'[handled'[a][h]] = All
               PROVE  /\ \A q, j, l : At(q, j, l)' /\ l < handled'[a][h] => q > 3 * (a - 1) + 2
                      /\ \A k \in DOMAIN handled'[a] : k > h => handled'[a][k] > handled'[a][h]
    BY DEF PastOrdered
  <2>1. Unbroken(a) /\ lists[handled'[a][h]] = All
    BY <1>1, <1>9, UnbrokenWas
  <2>2. ASSUME NEW q, NEW j, NEW l, At(q, j, l)', l < handled'[a][h]
        PROVE  q > 3 * (a - 1) + 2
    <3>1. CASE h \in DOMAIN handled[a] /\ handled'[a][h] = handled[a][h]
      <4>1. \A p, i : At(p, i, l) => p > 3 * (a - 1) + 2
        BY <2>1, <2>2, <3>1 DEF TokenInv, PastOrdered
      <4> QED
        BY <1>11, <2>2, <4>1
    <3>2. CASE a = n + 1 /\ handled'[a][h] = list
      <4>1. \A p, i : At(p, i, l) => p > 3 * (a - 1) + 2
        <5> SUFFICES ASSUME NEW p, NEW i, At(p, i, l)
                     PROVE  p > spot
          BY <1>12, <3>2
        <5>1. Behind(spot, 1, p, i)
          BY <1>12, <2>1, <2>2, <3>2 DEF TokenInv, Ordered
        <5>2. i >= 1 /\ i \in Nat /\ p \in Nat
          BY AtNumbers
        <5> QED
          BY <1>2, <5>1, <5>2 DEF Behind
      <4> QED
        BY <1>11, <2>2, <4>1
    <3> QED
      BY <1>17, <3>1, <3>2
  <2>3. ASSUME NEW k \in DOMAIN handled'[a], k > h
        PROVE  handled'[a][k] > handled'[a][h]
    <3>1. CASE h \in DOMAIN handled[a] /\ handled'[a][h] = handled[a][h]
      <4>1. CASE k \in DOMAIN handled[a] /\ handled'[a][k] = handled[a][k]
        BY <2>1, <2>3, <3>1, <4>1 DEF TokenInv, PastOrdered
      <4>2. CASE a = n + 1 /\ k = len + 1 /\ handled'[a][k] = list
        <5>1. ~(list < handled[a][h])
          <6> SUFFICES ASSUME list < handled[a][h]
                       PROVE  FALSE
            OBVIOUS
          <6>1. spot > 3 * (a - 1) + 2
            BY <1>12, <2>1, <3>1 DEF TokenInv, PastOrdered
          <6> QED
            BY <1>2, <1>12, <4>2, <6>1
        <5>2. handled[a][h] # list /\ handled[a][h] \in Nat
          BY <1>15, <1>16, <3>1, <4>2
        <5> QED
          BY <1>12, <3>1, <4>2, <5>1, <5>2
      <4> QED
        BY <1>17, <4>1, <4>2
    <3>2. CASE a = n + 1 /\ h = len + 1 /\ handled'[a][h] = list
      BY <1>15, <2>3, <3>2
    <3> QED
      BY <1>17, <3>1, <3>2
  <2> QED
    BY <2>2, <2>3
<1> QED
  BY <1>10, <1>18, <1>19 DEF TokenInv

LEMMA TokensInit ==
    ASSUME Init
    PROVE  TokenInv
<1>1. \A p, i, l : ~At(p, i, l)
  BY Chain DEF Init, At
<1>2. \A a \in Agents : handled[a] = <<>>
  BY DEF Init
<1> QED
  BY <1>1, <1>2 DEF TokenInv, Unique, PastOnce, Ordered, PastOrdered, IsInjective

LEMMA TokensStep ==
    ASSUME TypeInv, TypeInv', TokenInv, [Next]_vars
    PROVE  TokenInv'
<1>1. CASE \E target \in Targets : Issue(target)
  BY <1>1, IssueTokens
<1>2. CASE \E n \in Servers : \E full \in BOOLEAN : PollServer(n, full)
  BY <1>2, PollTokens DEF PollServer
<1>3. CASE \E n \in Servers : \E i \in DOMAIN sends[n] : Serve(n, i)
  BY <1>3, ServeTokens
<1>4. CASE \E n \in Servers : \E i \in DOMAIN sends[n] : PassOver(n, i)
  <2>1. PICK n \in Servers : \E i \in DOMAIN sends[n] : PassOver(n, i)
    BY <1>4
  <2>2. PICK i \in DOMAIN sends[n] : PassOver(n, i)
    BY <2>1
  <2> QED
    BY <2>2, NothingMoved DEF PassOver, links
<1>5. CASE \E a \in Agents : Connect(a) \/ LinkBreaks(a) \/ AgentRestarts(a)
  BY <1>5, BreakTokens
<1>6. CASE \E a \in Agents : SimulationHandles(a)
  <2>1. PICK a \in Agents : SimulationHandles(a)
    BY <1>6
  <2>2. PICK n \in Servers : a = n + 1
    BY Chain
  <2> QED
    BY <2>1, <2>2, SimulationTokens
<1>7. CASE \E a \in Agents : \E full \in BOOLEAN : Report(a, full)
  <2>1. PICK a \in Agents : \E full \in BOOLEAN : Report(a, full)
    BY <1>7
  <2>2. CASE link[a] # 0
    <3> DEFINE came == [late EXCEPT ![<<a, link[a]>>] = Frames(a)]
               n == a - 1
    <3>1. Poll(n, came) /\ n \in Servers
      BY <2>1, <2>2, Chain DEF Report
    <3> HIDE DEF came, n
    <3> QED
      BY <3>1, PollTokens
  <2>3. CASE link[a] = 0
    BY <2>1, <2>3, SameTokens DEF Report, links
  <2> QED
    BY <2>2, <2>3
<1>8. CASE TimePasses
  BY <1>8, SameTokens DEF TimePasses, links
<1>9. CASE UNCHANGED vars
  BY <1>9, SameTokens DEF vars, links
<1> QED
  BY <1>1, <1>2, <1>3, <1>4, <1>5, <1>6, <1>7, <1>8, <1>9, Zenon DEF Next

(***************************************************************************)
(* No simulation handles a list twice, whatever breaks and connects again  *)
(* and whoever is known through whichever connections.                     *)
(***************************************************************************)
THEOREM NoListTwice == Spec => []HandledOnce
<1>1. Init => TypeInv /\ TokenInv
  BY InitTypes, TokensInit
<1>2. (TypeInv /\ TokenInv) /\ [Next]_vars => (TypeInv /\ TokenInv)'
  BY TypesStep, TokensStep
<1>3. TypeInv /\ TokenInv => HandledOnce
  BY DEF TokenInv, PastOnce, HandledOnce
<1> QED
  BY <1>1, <1>2, <1>3, PTL DEF Spec

(***************************************************************************)
(* A simulation handles no list after a broadcast that is younger, as long *)
(* as no connection on the way to its agent was made again.                *)
(***************************************************************************)
THEOREM LastBroadcastWins == Spec => []BroadcastsComeLast
<1>1. Init => TypeInv /\ TokenInv
  BY InitTypes, TokensInit
<1>2. (TypeInv /\ TokenInv) /\ [Next]_vars => (TypeInv /\ TokenInv)'
  BY TypesStep, TokensStep
<1>3. TypeInv /\ TokenInv => BroadcastsComeLast
  <2> SUFFICES ASSUME TypeInv, TokenInv, NEW a \in Agents, Unbroken(a),
                      NEW i \in DOMAIN handled[a], NEW j \in DOMAIN handled[a],
                      i < j, lists[handled[a][i]] = All
               PROVE  handled[a][i] < handled[a][j]
    BY DEF BroadcastsComeLast, Unbroken
  <2>1. handled[a] \in Seq(DOMAIN lists) /\ DOMAIN lists \subseteq Nat
    BY DEF TypeInv, ListsInv
  <2>2. i \in Nat /\ j \in Nat /\ handled[a][i] \in Nat /\ handled[a][j] \in Nat
    BY <2>1
  <2>3. handled[a][j] > handled[a][i]
    BY <2>2 DEF TokenInv, PastOrdered
  <2> QED
    BY <2>2, <2>3
<1> QED
  BY <1>1, <1>2, <1>3, PTL DEF Spec
=============================================================================
