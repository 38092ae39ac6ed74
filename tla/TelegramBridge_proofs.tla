-------------------------- MODULE TelegramBridge_proofs --------------------------
(***************************************************************************)
(* TelegramBridge forwards the messages of an account in order, and none   *)
(* that a saved response is of, for all agents, accounts, registrations,   *)
(* inputs and limits.  What waits to be appended is as new as what was: a  *)
(* consumer works off its inbox in order, and what it leaves out its relay *)
(* no longer repeats.                                                      *)
(***************************************************************************)
EXTENDS TelegramBridge, FiniteSetTheorems, SequenceTheorems, TLAPS

---------------------------------------------------------------------------
(***************************************************************************)
(* Sequences.                                                              *)
(***************************************************************************)

In(s, x) == \E i \in 1..Len(s) : s[i] = x
Increasing(s) == \A i, j \in 1..Len(s) : i < j => s[i] < s[j]

\* Removing an element closes the gap.
LEMMA RemoveAtIs ==
    ASSUME NEW S, NEW s \in Seq(S), NEW p \in 1..Len(s)
    PROVE  /\ RemoveAt(s, p) \in Seq(S) /\ Len(RemoveAt(s, p)) = Len(s) - 1
           /\ \A i \in 1..(Len(s) - 1) : RemoveAt(s, p)[i] = IF i < p THEN s[i] ELSE s[i + 1]
<1> DEFINE f == SubSeq(s, 1, p - 1)
           g == SubSeq(s, p + 1, Len(s))
<1>1. RemoveAt(s, p) = f \o g
  BY DEF RemoveAt
<1>2. Len(s) \in Nat /\ p \in Nat /\ p >= 1 /\ p <= Len(s)
  OBVIOUS
<1>3. f \in Seq(S) /\ Len(f) = p - 1 /\ \A i \in 1..(p - 1) : f[i] = s[i]
  BY <1>2
<1>4. g \in Seq(S) /\ Len(g) = Len(s) - p /\ \A i \in 1..(Len(s) - p) : g[i] = s[p + i]
  BY <1>2
<1> HIDE DEF f, g
<1>5. f \o g \in Seq(S) /\ Len(f \o g) = Len(f) + Len(g)
  BY <1>3, <1>4, ConcatProperties
<1>6. Len(f \o g) = Len(s) - 1
  BY <1>2, <1>3, <1>4, <1>5
<1>7. \A i \in 1..(Len(s) - 1) : (f \o g)[i] = IF i < p THEN s[i] ELSE s[i + 1]
  BY <1>2, <1>3, <1>4
<1> QED BY <1>1, <1>5, <1>6, <1>7

\* A sequence that has n different values is at least as long.
LEMMA LongEnough ==
    ASSUME NEW s \in Seq(Nat), NEW n \in Nat, NEW f,
           \A i \in 1..n : In(s, f[i]),
           \A i, j \in 1..n : f[i] = f[j] => i = j
    PROVE  Len(s) >= n
<1> DEFINE g == [i \in 1..n |-> CHOOSE k \in 1..Len(s) : s[k] = f[i]]
<1>1. \A i \in 1..n : g[i] \in 1..Len(s) /\ s[g[i]] = f[i]
  BY DEF In
<1>2. g \in [1..n -> 1..Len(s)]
  BY <1>1
<1> HIDE DEF g
<1>3. \A i, j \in 1..n : g[i] = g[j] => i = j
  BY <1>1
<1>4. g \in Injection(1..n, 1..Len(s))
  BY <1>2, <1>3 DEF Injection, IsInjective
<1>5. Len(s) \in Nat
  OBVIOUS
<1>6. ASSUME NEW m \in Nat
      PROVE  IsFiniteSet(1..m) /\ Cardinality(1..m) = m
  BY FS_Interval
<1>7. Cardinality(1..n) <= Cardinality(1..Len(s))
  <2>1. IsFiniteSet(1..Len(s))
    BY <1>5, <1>6
  <2> QED BY <1>4, <2>1, FS_Injection
<1> QED BY <1>5, <1>6, <1>7

\* Adding a newer update keeps the order.
LEMMA AppendIs ==
    ASSUME NEW s \in Seq(Nat), Increasing(s), NEW new \in Nat,
           \A i \in 1..Len(s) : s[i] < new
    PROVE  /\ Append(s, new) \in Seq(Nat) /\ Increasing(Append(s, new))
           /\ Len(Append(s, new)) = Len(s) + 1
           /\ \A x : In(Append(s, new), x) <=> In(s, x) \/ x = new
<1> DEFINE a == Append(s, new)
<1>1. /\ a \in Seq(Nat) /\ Len(s) \in Nat /\ Len(a) = Len(s) + 1 /\ a[Len(s) + 1] = new
      /\ \A i \in 1..Len(s) : a[i] = s[i] /\ a[i] \in Nat
  OBVIOUS
<1> HIDE DEF a
<1>2. Increasing(a)
  <2> SUFFICES ASSUME NEW i \in 1..Len(a), NEW j \in 1..Len(a), i < j PROVE a[i] < a[j]
    BY DEF Increasing
  <2>1. i \in 1..Len(s) /\ a[i] = s[i]
    BY <1>1, SMTT(30)
  <2>2. CASE j = Len(s) + 1
    BY <1>1, <2>1, <2>2
  <2>3. CASE j \in 1..Len(s)
    <3>1. a[j] = s[j]
      BY <1>1, <2>3
    <3> QED BY <2>1, <2>3, <3>1 DEF Increasing
  <2>4. Len(s) \in Nat /\ j \in 1..(Len(s) + 1)
    BY <1>1
  <2>5. j = Len(s) + 1 \/ j \in 1..Len(s)
    BY <2>4
  <2> QED BY <2>2, <2>3, <2>5
<1>3. ASSUME NEW x
      PROVE  In(a, x) <=> In(s, x) \/ x = new
  <2>1. ASSUME NEW i \in 1..Len(a), a[i] = x
        PROVE  In(s, x) \/ x = new
    <3>1. CASE i = Len(s) + 1
      BY <1>1, <2>1, <3>1
    <3>2. CASE i # Len(s) + 1
      <4>1. i \in 1..Len(s)
        BY <1>1, <3>2
      <4> QED BY <1>1, <2>1, <4>1 DEF In
    <3> QED BY <3>1, <3>2
  <2>2. ASSUME NEW i \in 1..Len(s), s[i] = x
        PROVE  In(a, x)
    <3>1. i \in 1..Len(a) /\ a[i] = x
      BY <1>1, <2>2
    <3> QED BY <3>1 DEF In
  <2>3. ASSUME x = new
        PROVE  In(a, x)
    <3>1. Len(s) + 1 \in 1..Len(a)
      BY <1>1
    <3> QED BY <1>1, <2>3, <3>1 DEF In
  <2> QED BY <2>1, <2>2, <2>3 DEF In
<1> QED BY <1>1, <1>2, <1>3 DEF a

\* Removing an element keeps the order of the others.
LEMMA RemoveKeepsOrder ==
    ASSUME NEW s \in Seq(Nat), Increasing(s), NEW p \in 1..Len(s)
    PROVE  /\ RemoveAt(s, p) \in Seq(Nat) /\ Increasing(RemoveAt(s, p))
           /\ \A x : In(RemoveAt(s, p), x) => In(s, x)
           /\ \A x : In(s, x) => In(RemoveAt(s, p), x) \/ x = s[p]
<1> DEFINE r == RemoveAt(s, p)
<1>1. /\ r \in Seq(Nat) /\ Len(r) = Len(s) - 1
      /\ \A i \in 1..(Len(s) - 1) : r[i] = IF i < p THEN s[i] ELSE s[i + 1]
  BY RemoveAtIs
<1>2. Len(s) \in Nat /\ \A i \in 1..Len(s) : s[i] \in Nat
  OBVIOUS
<1> HIDE DEF r
<1>3. \A i \in 1..Len(r) :
         \E k \in 1..Len(s) : r[i] = s[k] /\ k = (IF i < p THEN i ELSE i + 1)
  <2> SUFFICES ASSUME NEW i \in 1..Len(r)
               PROVE  \E k \in 1..Len(s) : r[i] = s[k] /\ k = (IF i < p THEN i ELSE i + 1)
    OBVIOUS
  <2>1. i \in 1..(Len(s) - 1) /\ i \in 1..Len(s) /\ i + 1 \in 1..Len(s)
    BY <1>1, <1>2
  <2>2. CASE i < p
    BY <1>1, <2>1, <2>2
  <2>3. CASE ~(i < p)
    BY <1>1, <2>1, <2>3
  <2> QED BY <2>2, <2>3
<1>4. Increasing(r)
  <2> SUFFICES ASSUME NEW i \in 1..Len(r), NEW j \in 1..Len(r), i < j PROVE r[i] < r[j]
    BY DEF Increasing
  <2>1. PICK k \in 1..Len(s) : r[i] = s[k] /\ k = (IF i < p THEN i ELSE i + 1)
    BY <1>3
  <2>2. PICK l \in 1..Len(s) : r[j] = s[l] /\ l = (IF j < p THEN j ELSE j + 1)
    BY <1>3
  <2>3. i \in Int /\ j \in Int /\ p \in Int
    BY <1>1, <1>2
  <2>4. k < l
    <3>1. CASE i < p
      BY <2>1, <2>2, <2>3, <3>1
    <3>2. CASE ~(i < p)
      <4>1. ~(j < p)
        BY <2>3, <3>2
      <4> QED BY <2>1, <2>2, <2>3, <3>2, <4>1
    <3> QED BY <3>1, <3>2
  <2> QED BY <2>1, <2>2, <2>4 DEF Increasing
<1>5. ASSUME NEW x, In(r, x)
      PROVE  In(s, x)
  BY <1>3, <1>5 DEF In
<1>6. ASSUME NEW x, In(s, x), x # s[p]
      PROVE  In(r, x)
  <2>1. PICK i \in 1..Len(s) : s[i] = x
    BY <1>6 DEF In
  <2>2. CASE i < p
    <3>1. i \in 1..Len(r)
      BY <1>1, <1>2, <2>2
    <3>2. r[i] = x
      BY <1>1, <2>1, <2>2, <3>1
    <3> QED BY <3>1, <3>2 DEF In
  <2>3. CASE ~(i < p)
    <3>1. i - 1 \in 1..Len(r) /\ ~(i - 1 < p) /\ (i - 1) + 1 = i
      BY <1>1, <1>2, <1>6, <2>1, <2>3
    <3>2. r[i - 1] = x
      BY <1>1, <2>1, <3>1
    <3> QED BY <3>1, <3>2 DEF In
  <2> QED BY <2>2, <2>3
<1> QED BY <1>1, <1>4, <1>5, <1>6 DEF r

\* So does leaving the first one out.
LEMMA TailKeepsOrder ==
    ASSUME NEW s \in Seq(Nat), Increasing(s), s # <<>>
    PROVE  /\ Tail(s) \in Seq(Nat) /\ Increasing(Tail(s)) /\ Len(Tail(s)) = Len(s) - 1
           /\ Head(s) \in Nat /\ In(s, Head(s))
           /\ \A i \in 1..Len(Tail(s)) : Head(s) < Tail(s)[i]
           /\ \A x : In(s, x) <=> In(Tail(s), x) \/ x = Head(s)
<1> DEFINE r == Tail(s)
<1>1. /\ r \in Seq(Nat) /\ Len(r) = Len(s) - 1 /\ Len(s) \in Nat /\ Len(s) >= 1
      /\ \A i \in 1..Len(r) : r[i] = s[i + 1]
      /\ \A i \in 1..Len(s) : s[i] \in Nat
      /\ Head(s) = s[1]
  OBVIOUS
<1> HIDE DEF r
<1>2. 1 \in 1..Len(s) /\ \A i \in 1..Len(r) : i + 1 \in 1..Len(s)
  BY <1>1
<1>3. Increasing(r)
  <2> SUFFICES ASSUME NEW i \in 1..Len(r), NEW j \in 1..Len(r), i < j PROVE r[i] < r[j]
    BY DEF Increasing
  <2>1. i + 1 \in 1..Len(s) /\ j + 1 \in 1..Len(s) /\ i + 1 < j + 1
    BY <1>2
  <2>2. s[i + 1] < s[j + 1]
    BY <2>1 DEF Increasing
  <2> QED BY <1>1, <2>2
<1>4. ASSUME NEW i \in 1..Len(r)
      PROVE  Head(s) < r[i]
  <2>1. 1 \in 1..Len(s) /\ i + 1 \in 1..Len(s) /\ 1 < i + 1
    BY <1>2
  <2>2. s[1] < s[i + 1]
    BY <2>1 DEF Increasing
  <2> QED BY <1>1, <2>2
<1>5. ASSUME NEW x
      PROVE  In(s, x) <=> In(r, x) \/ x = Head(s)
  <2>1. ASSUME NEW i \in 1..Len(s), s[i] = x, x # Head(s)
        PROVE  In(r, x)
    <3>1. i - 1 \in 1..Len(r) /\ (i - 1) + 1 = i
      BY <1>1, <2>1
    <3>2. r[i - 1] = x
      BY <1>1, <2>1, <3>1
    <3> QED BY <3>1, <3>2 DEF In
  <2> QED BY <1>1, <1>2, <2>1 DEF In
<1> QED BY <1>1, <1>2, <1>3, <1>4, <1>5 DEF r, In

\* A relay remembers the newest updates.
LEMMA RememberIs ==
    ASSUME NEW s \in Seq(Nat), Increasing(s), Len(s) <= RecentLimit,
           NEW new \in Nat, \A i \in 1..Len(s) : s[i] < new
    PROVE  /\ Remember(s, new) \in Seq(Nat) /\ Increasing(Remember(s, new))
           /\ Len(Remember(s, new)) <= RecentLimit
           /\ In(Remember(s, new), new)
           /\ \A x : In(Remember(s, new), x) => In(s, x) \/ x = new
           /\ \A x, y : In(Remember(s, new), x) /\ In(s, y) /\ x < y => In(Remember(s, new), y)
<1> DEFINE a == Append(s, new)
           r == Remember(s, new)
<1>0. RecentLimit \in Nat /\ RecentLimit >= 1 /\ Len(s) \in Nat
  BY BridgeAssumption
<1>1. /\ a \in Seq(Nat) /\ Increasing(a) /\ Len(a) = Len(s) + 1
      /\ \A x : In(a, x) <=> In(s, x) \/ x = new
  BY AppendIs
<1>2. r = IF Len(a) > RecentLimit THEN Tail(a) ELSE a
  BY DEF Remember
<1> HIDE DEF a, r
<1>3. CASE ~(Len(a) > RecentLimit)
  <2>1. r = a /\ Len(a) <= RecentLimit
    BY <1>0, <1>1, <1>2, <1>3
  <2>2. /\ r \in Seq(Nat) /\ Increasing(r) /\ Len(r) <= RecentLimit /\ In(r, new)
        /\ \A x : In(r, x) <=> In(s, x) \/ x = new
    BY <1>1, <2>1
  <2> QED BY <2>2 DEF r
<1>4. CASE Len(a) > RecentLimit
  <2>1. r = Tail(a) /\ a # <<>> /\ Len(a) <= RecentLimit + 1 /\ Len(a) >= 2
    BY <1>0, <1>1, <1>2, <1>4
  <2>2. /\ r \in Seq(Nat) /\ Increasing(r) /\ Len(r) = Len(a) - 1 /\ Head(a) \in Nat
        /\ \A i \in 1..Len(r) : Head(a) < r[i]
        /\ \A x : In(a, x) <=> In(r, x) \/ x = Head(a)
    BY <1>1, <2>1, TailKeepsOrder
  <2>3. Len(r) <= RecentLimit /\ Len(r) >= 1
    BY <1>0, <1>1, <2>1, <2>2
  <2>4. Head(a) # new
    <3>1. Len(s) >= 1 /\ Head(a) = a[1]
      BY <1>0, <1>1, <2>1
    <3>2. a[1] = s[1]
      BY <3>1 DEF a
    <3> QED BY <1>0, <3>1, <3>2
  <2>5. In(r, new)
    BY <1>1, <2>2, <2>4
  <2>6. \A x : In(r, x) => In(s, x) \/ x = new
    BY <1>1, <2>2
  <2>7. ASSUME NEW x, NEW y, In(r, x), In(s, y), x < y
        PROVE  In(r, y)
    <3>1. PICK i \in 1..Len(r) : r[i] = x
      BY <2>7 DEF In
    <3>2. Head(a) < x /\ x \in Nat
      BY <2>2, <3>1
    <3>3. PICK j \in 1..Len(s) : s[j] = y
      BY <2>7 DEF In
    <3>4. y \in Nat
      BY <3>3
    <3>5. y # Head(a)
      BY <2>2, <2>7, <3>2, <3>4
    <3> QED BY <1>1, <2>2, <2>7, <3>5
  <2> QED BY <2>2, <2>3, <2>5, <2>6, <2>7 DEF r
<1> QED BY <1>3, <1>4

\* An update that a full queue drops is one the relay no longer remembers: QueueLimit
\* newer ones would be in its memory too.
LEMMA DroppedIsForgotten ==
    ASSUME NEW s \in Seq(Nat), Increasing(s), Len(s) >= QueueLimit,
           NEW r \in Seq(Nat), Len(r) <= RecentLimit,
           NEW new \in Nat, \A i \in 1..Len(s) : s[i] < new, In(r, new),
           \A i \in 1..Len(s) : i >= Len(s) - QueueLimit + 1 => In(r, s[i])
    PROVE  FALSE
<1> DEFINE p == Len(s) - QueueLimit
           f == [i \in 1..(QueueLimit + 1) |-> IF i <= QueueLimit THEN s[p + i] ELSE new]
<1>1. QueueLimit \in Nat /\ RecentLimit \in Nat /\ RecentLimit <= QueueLimit /\ Len(s) \in Nat
  BY BridgeAssumption
<1>2. p \in Nat /\ Len(s) = p + QueueLimit
  BY <1>1
<1> HIDE DEF p
<1>3. ASSUME NEW i \in 1..(QueueLimit + 1)
      PROVE  /\ i <= QueueLimit => p + i \in 1..Len(s) /\ p + i >= Len(s) - QueueLimit + 1
             /\ i <= QueueLimit => f[i] = s[p + i]
             /\ ~(i <= QueueLimit) => f[i] = new /\ i = QueueLimit + 1
  BY <1>1, <1>2
<1> HIDE DEF f
<1>4. \A i \in 1..(QueueLimit + 1) : In(r, f[i])
  BY <1>3
<1>5. ASSUME NEW i \in 1..(QueueLimit + 1), NEW j \in 1..(QueueLimit + 1), i < j
      PROVE  f[i] # f[j]
  <2>1. i <= QueueLimit /\ f[i] = s[p + i] /\ p + i \in 1..Len(s)
    <3>1. i <= QueueLimit
      BY <1>1, <1>5
    <3> QED BY <1>3, <3>1
  <2>2. CASE j <= QueueLimit
    <3>1. f[j] = s[p + j] /\ p + j \in 1..Len(s) /\ p + i < p + j
      BY <1>2, <1>3, <1>5, <2>2
    <3>2. s[p + i] < s[p + j]
      BY <2>1, <3>1 DEF Increasing
    <3>3. s[p + i] \in Nat
      BY <2>1
    <3> QED BY <2>1, <3>1, <3>2, <3>3
  <2>3. CASE ~(j <= QueueLimit)
    <3>1. f[j] = new
      BY <1>3, <2>3
    <3>2. s[p + i] < new /\ s[p + i] \in Nat
      BY <2>1
    <3> QED BY <2>1, <3>1, <3>2
  <2> QED BY <2>2, <2>3
<1>6. \A i, j \in 1..(QueueLimit + 1) : f[i] = f[j] => i = j
  <2> SUFFICES ASSUME NEW i \in 1..(QueueLimit + 1), NEW j \in 1..(QueueLimit + 1), f[i] = f[j]
               PROVE  i = j
    OBVIOUS
  <2>1. ~(i < j) /\ ~(j < i)
    BY <1>5
  <2> QED BY <1>1, <2>1
<1>7. Len(r) >= QueueLimit + 1
  <2>1. PICK n \in Nat : n = QueueLimit + 1
    BY <1>1
  <2>2. /\ \A i \in 1..n : In(r, f[i])
        /\ \A i, j \in 1..n : f[i] = f[j] => i = j
    BY <1>4, <1>6, <2>1
  <2>3. Len(r) >= n
    BY <2>2, LongEnough
  <2> QED BY <2>1, <2>3
<1> QED BY <1>1, <1>7

---------------------------------------------------------------------------
(***************************************************************************)
(* The invariant.                                                          *)
(***************************************************************************)

ConsumerSteps == {"away", "reading", "sending", "answered", "clearing", "hung", "ended"}
ConsumerSet ==
    [account : Accounts, alone : BOOLEAN, running : BOOLEAN, step : ConsumerSteps, stream : BOOLEAN,
     inbox : Seq(Nat), update : Nat, agent : Agents \cup {None}, thread : Nat]
LogRow == [update : Nat, thread : Nat, saved : BOOLEAN]

\* The variables the order of the messages depends on have their types.
BridgeType ==
    /\ updates \in Seq(Inputs)
    /\ recent \in [Accounts -> Seq(Nat)]
    /\ owner \in [Accounts -> Agents \cup {None}]
    /\ consumers \in Seq(ConsumerSet)
    /\ binding \in [Chats -> Nat]
    /\ log \in Seq(LogRow)

All == {consumers[c] : c \in 1..Len(consumers)}
Of(x, u) == x \in 1..Len(updates) /\ updates[x].account = u
Appended(x) == \E n \in 1..Len(log) : log[n].update = x /\ log[n].saved
Repeats(u, x) == \E i \in 1..Len(recent[u]) : recent[u][i] = x

\* A message of an account whose response is not saved.
Waiting(x, u) == Of(x, u) /\ updates[x].kind = "message" /\ ~Appended(x)

\* What a consumer is at or will come to in its session.
Held(k, x) == In(k.inbox, x) \/ k.update = x
InSession(k) == k.step \notin {"away", "hung", "ended"}

\* A consumer throws away what comes while nobody owns its account.
Deaf(k) == k.step = "reading" /\ owner[k.account] = None

\* A relay repeats the newest updates of its account in order.
RecentInv ==
    \A u \in Accounts :
        /\ Len(recent[u]) <= RecentLimit
        /\ \A i, j \in 1..Len(recent[u]) : i < j => recent[u][i] < recent[u][j]
        /\ \A x : Repeats(u, x) => Of(x, u)
        /\ \A x, y : Repeats(u, x) /\ Of(y, u) /\ x < y => Repeats(u, y)

\* A consumer works its account's updates off in order, and knows what it is at.
ConsumerInv(k) ==
    /\ Increasing(k.inbox)
    /\ \A x : In(k.inbox, x) => Of(x, k.account)
    /\ k.update # 0 => Of(k.update, k.account) /\ \A x : In(k.inbox, x) => k.update < x
    /\ ~InSession(k) => k.inbox = <<>> /\ ~k.stream
    /\ k.update # 0 <=> k.step \in {"sending", "answered", "clearing"}
    /\ k.step = "sending" => updates[k.update].kind = "message"
    /\ k.step = "clearing" => updates[k.update].kind = "clear"
    /\ k.step = "answered" => Appended(k.update)

\* A consumer that found itself alone is the only one of its account.
AloneInv ==
    \A c, d \in 1..Len(consumers) :
        /\ c < d
        /\ consumers[c].account = consumers[d].account
        /\ consumers[d].alone
        => consumers[c].step = "ended"

\* The log is of updates.
LogInv == \A n \in 1..Len(log) : log[n].update \in 1..Len(updates)

\* Where consumers follow one another, what may still be appended is as new as
\* what was.
NewestInv ==
    \A u \in Accounts : ReadOneByOne(u) =>
        \A x : /\ Waiting(x, u)
               /\ Repeats(u, x) \/ \E k \in All : k.account = u /\ Held(k, x)
               => \A n \in 1..Len(log) : updates[log[n].update].account = u => log[n].update <= x

\* A message that the relay repeats and the consumer has left out came after what
\* the consumer has, and ends with the session.
Follows(k) ==
    InSession(k) /\ ~Deaf(k) =>
        \A x : Waiting(x, k.account) /\ Repeats(k.account, x) =>
            Held(k, x) \/ (~k.stream /\ \A y : Held(k, y) => y < x)
FollowInv == \A k \in All : ReadOneByOne(k.account) => Follows(k)

\* The log has nothing that a saved response is of before, and the updates of an
\* account in order.
OrderInv ==
    \A m, n \in 1..Len(log) : m < n =>
        /\ log[m].saved => log[m].update # log[n].update
        /\ \A u \in Accounts :
              /\ ReadOneByOne(u)
              /\ updates[log[m].update].account = u
              /\ updates[log[n].update].account = u
              => log[m].update <= log[n].update

BridgeInv ==
    /\ BridgeType
    /\ RecentInv /\ AloneInv /\ LogInv
    /\ \A k \in All : ConsumerInv(k)
    /\ NewestInv /\ FollowInv /\ OrderInv

\* Nothing has been written at first.
LEMMA BridgeInit == Init => BridgeInv
<1> SUFFICES ASSUME Init PROVE BridgeInv
  OBVIOUS
<1>1. /\ updates = <<>> /\ consumers = <<>> /\ log = <<>>
      /\ recent = [u \in Accounts |-> <<>>] /\ owner = [u \in Accounts |-> None]
      /\ binding = [chat \in Chats |-> 0]
  BY DEF Init
<1>2. updates \in Seq(Inputs)
  BY <1>1
<1>3. consumers \in Seq(ConsumerSet)
  BY <1>1
<1>4. log \in Seq(LogRow)
  BY <1>1
<1>5. recent \in [Accounts -> Seq(Nat)]
  <2>1. <<>> \in Seq(Nat)
    OBVIOUS
  <2> QED BY <1>1, <2>1
<1>6. BridgeType
  BY <1>1, <1>2, <1>3, <1>4, <1>5 DEF BridgeType
<1>7. Len(consumers) = 0 /\ Len(log) = 0
  BY <1>1
<1>8. All = {}
  BY <1>7 DEF All
<1>9. ASSUME NEW u \in Accounts
      PROVE  Len(recent[u]) = 0 /\ Len(recent[u]) <= RecentLimit
  BY <1>1, BridgeAssumption
<1>10. RecentInv
  BY <1>9 DEF RecentInv, Repeats
<1> QED BY <1>6, <1>7, <1>8, <1>10
        DEF BridgeInv, AloneInv, LogInv, NewestInv, FollowInv, OrderInv

---------------------------------------------------------------------------
(***************************************************************************)
(* A step of one consumer.                                                 *)
(***************************************************************************)

\* A message without a saved response is appended, with or without one.
Adds(y) ==
    /\ ~Appended(y)
    /\ \E row \in LogRow : row.update = y /\ log' = Append(log, row)

\* One more message in the log.
LEMMA LogGrows ==
    ASSUME log \in Seq(LogRow), NEW row \in LogRow, log' = Append(log, row)
    PROVE  /\ log' \in Seq(LogRow) /\ Len(log) \in Nat /\ Len(log') = Len(log) + 1
           /\ log'[Len(log) + 1].update = row.update
           /\ \A n \in 1..Len(log) : log'[n] = log[n]
           /\ \A x : Appended(x)' <=> Appended(x) \/ (row.saved /\ x = row.update)
<1>1. /\ log' \in Seq(LogRow) /\ Len(log) \in Nat /\ Len(log') = Len(log) + 1
      /\ log'[Len(log) + 1] = row
      /\ \A n \in 1..Len(log) : log'[n] = log[n]
  OBVIOUS
<1>2. ASSUME NEW x
      PROVE  Appended(x)' <=> Appended(x) \/ (row.saved /\ x = row.update)
  <2>1. ASSUME NEW n \in 1..Len(log'), log'[n].update = x, log'[n].saved
        PROVE  Appended(x) \/ (row.saved /\ x = row.update)
    <3>1. n \in 1..(Len(log) + 1)
      BY <1>1
    <3>2. n = Len(log) + 1 \/ n \in 1..Len(log)
      BY <1>1, <3>1
    <3>3. CASE n = Len(log) + 1
      BY <1>1, <2>1, <3>3
    <3>4. CASE n \in 1..Len(log)
      BY <1>1, <2>1, <3>4 DEF Appended
    <3> QED BY <3>2, <3>3, <3>4
  <2>2. ASSUME NEW n \in 1..Len(log), log[n].update = x, log[n].saved
        PROVE  Appended(x)'
    <3>1. n \in 1..Len(log') /\ log'[n].update = x /\ log'[n].saved
      BY <1>1, <2>2
    <3> QED BY <3>1 DEF Appended
  <2>3. ASSUME row.saved, x = row.update
        PROVE  Appended(x)'
    <3>1. Len(log) + 1 \in 1..Len(log')
      BY <1>1
    <3>2. log'[Len(log) + 1].update = x /\ log'[Len(log) + 1].saved
      BY <1>1, <2>3
    <3> QED BY <3>1, <3>2 DEF Appended
  <2> QED BY <2>1, <2>2, <2>3 DEF Appended
<1> QED BY <1>1, <1>2

\* A step of one consumer, c, that becomes k: it takes nothing up that it did not
\* have and that its relay does not repeat, and it appends at most what it is at.
LEMMA SessionStep ==
    ASSUME BridgeInv,
           NEW c \in 1..Len(consumers), NEW k \in ConsumerSet,
           consumers' = [consumers EXCEPT ![c] = k],
           UNCHANGED <<updates, recent, owner>>,
           binding' \in [Chats -> Nat],
           log' = log \/ (consumers[c].step = "sending" /\ Adds(consumers[c].update)),
           k.account = consumers[c].account, k.alone = consumers[c].alone,
           consumers[c].step = "ended" => k.step = "ended",
           ConsumerInv(k)',
           \A x : Waiting(x, k.account)' /\ Held(k, x) =>
                     Held(consumers[c], x) \/ Repeats(k.account, x),
           (ReadOneByOne(k.account) /\ Follows(consumers[c])) => Follows(k)'
    PROVE  BridgeInv'
<1> USE DEF BridgeInv
<1>1. /\ updates \in Seq(Inputs) /\ consumers \in Seq(ConsumerSet) /\ log \in Seq(LogRow)
      /\ Len(consumers) \in Nat /\ Len(log) \in Nat /\ Len(updates) \in Nat
      /\ DOMAIN consumers = 1..Len(consumers)
  BY DEF BridgeType
<1>o. PICK o \in ConsumerSet : o = consumers[c]
  BY <1>1
<1>2. /\ consumers' \in Seq(ConsumerSet) /\ Len(consumers') = Len(consumers)
      /\ DOMAIN consumers' = 1..Len(consumers)
      /\ consumers'[c] = k
      /\ \A d \in 1..Len(consumers) : d # c => consumers'[d] = consumers[d]
  BY <1>1, ExceptSeq
<1>3. /\ o.update \in Nat /\ o.account \in Accounts /\ k.account \in Accounts
      /\ k.account = o.account
  BY <1>1, <1>o DEF ConsumerSet
<1>4. o \in All
  BY <1>o DEF All
<1>5. ConsumerInv(o)
  BY <1>4
<1>6. /\ log' \in Seq(LogRow) /\ Len(log') \in Nat
      /\ \A x : Appended(x) => Appended(x)'
      /\ \A n \in 1..Len(log') :
            \/ n \in 1..Len(log) /\ log'[n] = log[n]
            \/ /\ n = Len(log) + 1 /\ log'[n].update = o.update
               /\ o.step = "sending" /\ ~Appended(o.update)
  <2>1. CASE log' = log
    BY <1>1, <2>1 DEF Appended
  <2>2. CASE log' # log
    <3>1. o.step = "sending" /\ Adds(o.update)
      BY <1>o, <2>2
    <3>2. PICK row \in LogRow : row.update = o.update /\ log' = Append(log, row)
      BY <3>1 DEF Adds
    <3>3. /\ log' \in Seq(LogRow) /\ Len(log) \in Nat /\ Len(log') = Len(log) + 1
          /\ log'[Len(log) + 1].update = o.update
          /\ \A n \in 1..Len(log) : log'[n] = log[n]
          /\ \A x : Appended(x) => Appended(x)'
      BY <1>1, <3>2, LogGrows
    <3>4. \A n \in 1..Len(log') : n \in 1..Len(log) \/ n = Len(log) + 1
      BY <3>3
    <3>5. ~Appended(o.update)
      BY <3>1 DEF Adds
    <3> QED BY <3>1, <3>3, <3>4, <3>5
  <2> QED BY <2>1, <2>2
<1>7. /\ \A x, u : Of(x, u)' <=> Of(x, u)
      /\ \A x, u : Repeats(u, x)' <=> Repeats(u, x)
      /\ \A x, u : Waiting(x, u)' => Waiting(x, u)
  BY <1>6 DEF Of, Repeats, Waiting
<1>8. \A u : ReadOneByOne(u)' <=> ReadOneByOne(u)
  BY <1>1, <1>2, <1>3, <1>o DEF ReadOneByOne
<1>9. ASSUME NEW m \in All'
      PROVE  m = k \/ \E d \in 1..Len(consumers) : d # c /\ m = consumers[d] /\ m \in All
  BY <1>2 DEF All
<1>10. BridgeType'
  BY <1>2, <1>6 DEF BridgeType
<1>11. RecentInv'
  BY <1>7 DEF RecentInv
<1>12. AloneInv'
  BY <1>2, <1>3, <1>o DEF AloneInv
<1>13. LogInv'
  <2>1. o.step = "sending" => o.update \in 1..Len(updates)
    BY <1>5 DEF ConsumerInv, Of
  <2> QED BY <1>6, <2>1 DEF LogInv
<1>14. \A m \in All' : ConsumerInv(m)'
  <2> SUFFICES ASSUME NEW m \in All' PROVE ConsumerInv(m)'
    OBVIOUS
  <2>1. CASE m = k
    BY <2>1
  <2>2. CASE m \in All
    <3>1. ConsumerInv(m)
      BY <2>2
    <3> QED BY <1>6, <1>7, <3>1 DEF ConsumerInv
  <2> QED BY <1>9, <2>1, <2>2
\* What still waits for the account is newer than what is sent now.
<1>15. ASSUME NEW x, NEW u \in Accounts, u = o.account, ReadOneByOne(u), o.step = "sending",
              Waiting(x, u), x # o.update,
              Repeats(u, x) \/ (\E m \in All' : m.account = u /\ Held(m, x)),
              Waiting(x, u)'
       PROVE  o.update < x
  <2>1. Held(o, x) => o.update < x
    <3>1. o.update # 0
      BY <1>5, <1>15 DEF ConsumerInv
    <3> QED BY <1>5, <1>15, <3>1 DEF ConsumerInv, Held
  <2>2. CASE Repeats(u, x)
    <3>1. Follows(o)
      BY <1>4, <1>15 DEF FollowInv
    <3>2. InSession(o) /\ ~Deaf(o)
      BY <1>15 DEF InSession, Deaf
    <3>3. Held(o, x) \/ \A y : Held(o, y) => y < x
      BY <1>15, <2>2, <3>1, <3>2 DEF Follows
    <3>4. Held(o, o.update)
      BY DEF Held
    <3> QED BY <2>1, <3>3, <3>4
  <2>3. CASE ~Repeats(u, x)
    <3>1. PICK m \in All' : m.account = u /\ Held(m, x)
      BY <1>15, <2>3
    <3>2. CASE m = k
      BY <1>3, <1>15, <1>o, <2>1, <2>3, <3>1, <3>2
    <3>3. ASSUME NEW d \in 1..Len(consumers), d # c, m = consumers[d], m \in All
          PROVE  FALSE
      <4>1. consumers[c].alone /\ m.alone
        BY <1>1, <1>15, <1>o, <3>1, <3>3 DEF ReadOneByOne
      <4>2. m.step = "ended"
        <5>1. CASE c < d
          BY <1>15, <1>o, <3>1, <3>3, <4>1, <5>1 DEF AloneInv
        <5>2. CASE d < c
          BY <1>15, <1>o, <3>1, <3>3, <4>1, <5>2 DEF AloneInv
        <5> QED BY <1>1, <3>3, <5>1, <5>2
      <4>3. ConsumerInv(m)
        BY <3>3
      <4>4. m.inbox = <<>> /\ m.update = 0
        BY <4>2, <4>3 DEF ConsumerInv, InSession
      <4>5. x = 0
        BY <3>1, <4>4 DEF Held, In
      <4> QED BY <1>1, <1>15, <4>5 DEF Waiting, Of
    <3> QED BY <1>9, <3>2, <3>3
  <2> QED BY <2>2, <2>3
<1>16. NewestInv'
  <2> SUFFICES ASSUME NEW u \in Accounts, ReadOneByOne(u)', NEW x, Waiting(x, u)',
                      Repeats(u, x)' \/ (\E m \in All' : m.account = u /\ Held(m, x)),
                      NEW n \in 1..Len(log'), updates[log'[n].update].account = u
               PROVE  log'[n].update <= x
    BY DEF NewestInv, Held, In
  <2>1. ReadOneByOne(u) /\ Waiting(x, u) /\ (Repeats(u, x)' <=> Repeats(u, x))
    BY <1>7, <1>8
  <2>2. CASE n \in 1..Len(log) /\ log'[n] = log[n]
    <3>1. Repeats(u, x) \/ \E m \in All : m.account = u /\ Held(m, x)
      <4>1. CASE Repeats(u, x)
        BY <4>1
      <4>2. CASE ~Repeats(u, x)
        <5>1. PICK m \in All' : m.account = u /\ Held(m, x)
          BY <2>1, <4>2
        <5>2. CASE m = k
          BY <1>3, <1>4, <1>o, <4>2, <5>1, <5>2
        <5> QED BY <1>9, <5>1, <5>2
      <4> QED BY <4>1, <4>2
    <3> QED BY <2>1, <2>2, <3>1 DEF NewestInv
  <2>3. CASE /\ n = Len(log) + 1 /\ log'[n].update = o.update
             /\ o.step = "sending" /\ ~Appended(o.update)
    <3>1. u = o.account
      BY <1>5, <2>3 DEF ConsumerInv, Of
    <3>2. CASE x = o.update
      BY <1>3, <2>3, <3>2
    <3>3. CASE x # o.update
      <4>1. o.update < x
        BY <1>15, <2>1, <2>3, <3>1, <3>3
      <4>2. x \in Nat
        BY <1>1, <2>1 DEF Waiting, Of
      <4> QED BY <1>3, <2>3, <4>1, <4>2
    <3> QED BY <3>2, <3>3
  <2> QED BY <1>6, <2>2, <2>3
<1>17. FollowInv'
  <2> SUFFICES ASSUME NEW m \in All', ReadOneByOne(m.account)' PROVE Follows(m)'
    BY DEF FollowInv
  <2>1. ReadOneByOne(m.account)
    BY <1>8
  <2>2. CASE m = k
    BY <1>3, <1>4, <1>o, <2>1, <2>2 DEF FollowInv
  <2>3. CASE m \in All
    <3>1. Follows(m)
      BY <2>1, <2>3 DEF FollowInv
    <3> QED BY <1>7, <3>1 DEF Follows, Deaf
  <2> QED BY <1>9, <2>2, <2>3
<1>18. OrderInv'
  <2> SUFFICES ASSUME NEW m \in 1..Len(log'), NEW n \in 1..Len(log'), m < n
               PROVE  /\ log'[m].saved => log'[m].update # log'[n].update
                      /\ \A u \in Accounts :
                            /\ ReadOneByOne(u)'
                            /\ updates[log'[m].update].account = u
                            /\ updates[log'[n].update].account = u
                            => log'[m].update <= log'[n].update
    BY DEF OrderInv
  <2>1. m \in 1..Len(log) /\ log'[m] = log[m]
    BY <1>1, <1>6
  <2>2. CASE n \in 1..Len(log) /\ log'[n] = log[n]
    BY <1>8, <2>1, <2>2 DEF OrderInv
  <2>3. CASE /\ n = Len(log) + 1 /\ log'[n].update = o.update
             /\ o.step = "sending" /\ ~Appended(o.update)
    <3>1. log[m].saved => log[m].update # o.update
      BY <2>1, <2>3 DEF Appended
    <3>2. ASSUME NEW u \in Accounts, ReadOneByOne(u), updates[log[m].update].account = u,
                 updates[o.update].account = u
          PROVE  log[m].update <= o.update
      <4>1. Waiting(o.update, u) /\ u = o.account
        BY <1>5, <2>3, <3>2 DEF Waiting, ConsumerInv, Of
      <4>2. Held(o, o.update)
        BY DEF Held
      <4> QED BY <1>4, <2>1, <3>2, <4>1, <4>2 DEF NewestInv
    <3> QED BY <1>8, <2>1, <2>3, <3>1, <3>2
  <2> QED BY <1>6, <2>2, <2>3
<1> QED BY <1>10, <1>11, <1>12, <1>13, <1>14, <1>16, <1>17, <1>18

\* A consumer between two sessions, or after its last one, has nothing.
LEMMA EndedIs ==
    ASSUME NEW r \in ConsumerSet
    PROVE  /\ Ended(r) \in ConsumerSet
           /\ Ended(r).account = r.account /\ Ended(r).alone = r.alone
           /\ Ended(r).step \in {"away", "ended"} /\ (~r.running => Ended(r).step = "ended")
           /\ Ended(r).inbox = <<>> /\ Ended(r).update = 0 /\ ~Ended(r).stream
<1>1. <<>> \in Seq(Nat)
  OBVIOUS
<1> QED BY <1>1 DEF Ended, Consumer, ConsumerSet, ConsumerSteps

\* So nothing is asked of it.
LEMMA EndedIsFine ==
    ASSUME NEW k \in ConsumerSet, k.step \in {"away", "hung", "ended"},
           k.inbox = <<>>, k.update = 0, ~k.stream
    PROVE  /\ ConsumerInv(k)' /\ Follows(k)' /\ ConsumerInv(k)
           /\ \A x : Held(k, x) => x = 0
<1>1. Len(k.inbox) = 0
  OBVIOUS
<1>2. Increasing(k.inbox) /\ \A x : ~In(k.inbox, x)
  BY <1>1 DEF Increasing, In
<1> QED BY <1>2 DEF ConsumerInv, Follows, InSession, Held

\* The end of a session, or a consumer that will not notice it.
LEMMA EndingStep ==
    ASSUME BridgeInv,
           NEW c \in 1..Len(consumers), NEW k \in ConsumerSet,
           k.account = consumers[c].account, k.alone = consumers[c].alone,
           consumers[c].step = "ended" => k.step = "ended",
           k.step \in {"away", "hung", "ended"}, k.inbox = <<>>, k.update = 0, ~k.stream,
           consumers' = [consumers EXCEPT ![c] = k],
           UNCHANGED <<updates, recent, owner, binding>>,
           log' = log \/ (consumers[c].step = "sending" /\ Adds(consumers[c].update))
    PROVE  BridgeInv'
<1>1. /\ ConsumerInv(k)' /\ Follows(k)'
      /\ \A x : Held(k, x) => x = 0
  BY EndedIsFine
<1>2. ~Waiting(0, k.account)'
  BY DEF Waiting, Of
<1>3. binding' \in [Chats -> Nat]
  BY DEF BridgeInv, BridgeType
<1>4. \A x : Waiting(x, k.account)' /\ Held(k, x) => Held(consumers[c], x) \/ Repeats(k.account, x)
  BY <1>1, <1>2
<1> QED BY <1>1, <1>3, <1>4, SessionStep

\* What is known of a consumer.
LEMMA ConsumerIs ==
    ASSUME BridgeInv, NEW c \in DOMAIN consumers
    PROVE  /\ c \in 1..Len(consumers) /\ consumers[c] \in ConsumerSet
           /\ consumers[c] \in All /\ ConsumerInv(consumers[c])
           /\ binding \in [Chats -> Nat] /\ updates \in Seq(Inputs)
<1>1. consumers \in Seq(ConsumerSet) /\ binding \in [Chats -> Nat] /\ updates \in Seq(Inputs)
  BY DEF BridgeInv, BridgeType
<1>2. c \in 1..Len(consumers) /\ consumers[c] \in ConsumerSet
  BY <1>1
<1>3. consumers[c] \in All
  BY <1>2 DEF All
<1> QED BY <1>1, <1>2, <1>3 DEF BridgeInv

\* The ends of sessions: the stream's end, noticed or not, and a refused message.
LEMMA EndSteps ==
    ASSUME BridgeInv, NEW c \in DOMAIN consumers, End(c) \/ Hang(c) \/ Refuse(c)
    PROVE  BridgeInv'
<1>1. c \in 1..Len(consumers) /\ consumers[c] \in ConsumerSet
  BY ConsumerIs
<1>2. PICK o \in ConsumerSet : o = consumers[c]
  BY <1>1
<1>3. PICK e \in ConsumerSet : e = Ended(o)
  BY EndedIs
<1>4. /\ e.account = o.account /\ e.alone = o.alone /\ e.step \in {"away", "ended"}
      /\ e.inbox = <<>> /\ e.update = 0 /\ ~e.stream
  BY <1>3, EndedIs
<1>5. o.step # "ended" /\ UNCHANGED <<updates, recent, owner, binding, log>>
  BY <1>2 DEF End, Hang, Refuse, At, registry, service
<1>6. CASE End(c) \/ Refuse(c)
  <2>1. consumers' = [consumers EXCEPT ![c] = e]
    BY <1>2, <1>3, <1>6 DEF End, Refuse, Moves
  <2> QED BY <1>1, <1>2, <1>4, <1>5, <2>1, EndingStep
<1>7. CASE Hang(c)
  <2>1. PICK k : k = [e EXCEPT !.step = "hung"]
    OBVIOUS
  <2>2. /\ k \in ConsumerSet /\ k.account = e.account /\ k.alone = e.alone /\ k.step = "hung"
        /\ k.inbox = e.inbox /\ k.update = e.update /\ k.stream = e.stream
    BY <2>1 DEF ConsumerSet, ConsumerSteps
  <2>3. consumers' = [consumers EXCEPT ![c] = k]
    BY <1>2, <1>3, <1>7, <2>1 DEF Hang, Moves
  <2> QED BY <1>1, <1>2, <1>4, <1>5, <2>2, <2>3, EndingStep
<1> QED BY <1>6, <1>7

\* A consumer that goes on with what it has keeps what its relay repeats.
LEMMA FollowsKept ==
    ASSUME BridgeInv, NEW o, NEW k, k.account = o.account,
           InSession(o), ~Deaf(o), k.stream => o.stream,
           UNCHANGED <<updates, recent>>,
           \A x, u : Waiting(x, u)' => Waiting(x, u),
           \A x : Waiting(x, o.account)' /\ Held(o, x) => Held(k, x),
           \A x : Held(k, x) => Held(o, x) \/ x = 0,
           Follows(o)
    PROVE  Follows(k)'
<1>1. updates \in Seq(Inputs) /\ Len(updates) \in Nat
  BY DEF BridgeInv, BridgeType
<1>2. ASSUME NEW x, Waiting(x, k.account)', Repeats(k.account, x)'
      PROVE  Held(k, x) \/ (~k.stream /\ \A y : Held(k, y) => y < x)
  <2>1. Waiting(x, o.account) /\ Repeats(o.account, x) /\ Waiting(x, o.account)'
    BY <1>2 DEF Repeats
  <2>2. x > 0
    BY <1>1, <2>1 DEF Waiting, Of
  <2>3. CASE Held(o, x)
    BY <2>1, <2>3
  <2>4. CASE ~Held(o, x)
    <3>1. ~o.stream /\ \A y : Held(o, y) => y < x
      BY <2>1, <2>4 DEF Follows
    <3> QED BY <2>2, <3>1
  <2> QED BY <2>3, <2>4
<1> QED BY <1>2 DEF Follows

\* Nothing new waits when no update comes and none leaves the log.
LEMMA WaitingKept ==
    ASSUME updates' = updates, log' = log
    PROVE  /\ \A x, u : Waiting(x, u)' <=> Waiting(x, u)
           /\ \A x : Appended(x)' <=> Appended(x)
           /\ \A x, u : Of(x, u)' <=> Of(x, u)
  BY DEF Waiting, Appended, Of

\* What the service does about a message is seen in the log.
LEMMA AnswersIs ==
    ASSUME BridgeInv, NEW o \in ConsumerSet, NEW t \in Nat, Answers(o, t) \/ Fails(o, t)
    PROVE  /\ log' = log \/ Adds(o.update)
           /\ Answers(o, t) => Appended(o.update)'
<1>1. log \in Seq(LogRow) /\ DOMAIN log = 1..Len(log)
  BY DEF BridgeInv, BridgeType
<1>2. o.update \in Nat
  BY DEF ConsumerSet
<1>3. Saved(o.update) # {} <=> Appended(o.update)
  BY <1>1 DEF Saved, Appended
<1>4. ASSUME NEW b \in BOOLEAN, Takes(o, t, <<Row(o, t, b)>>)
      PROVE  Adds(o.update) /\ (b => Appended(o.update)')
  <2>1. PICK row \in LogRow : row = Row(o, t, b)
    BY <1>2 DEF Row, LogRow
  <2>2. row.update = o.update /\ row.saved = b
    BY <2>1 DEF Row
  <2>3. ~Appended(o.update) /\ log' = log \o <<row>>
    BY <1>3, <1>4, <2>1 DEF Takes
  <2>4. log' = Append(log, row)
    BY <1>1, <2>3, AppendIsConcat
  <2>5. Adds(o.update)
    BY <2>2, <2>3, <2>4 DEF Adds
  <2>6. Appended(o.update)' <=> Appended(o.update) \/ (row.saved /\ o.update = row.update)
    BY <1>1, <2>4, LogGrows
  <2> QED BY <2>2, <2>5, <2>6
<1>5. CASE t \in Saved(o.update) /\ UNCHANGED service
  <2>1. log' = log /\ Appended(o.update)
    BY <1>3, <1>5 DEF service
  <2> QED BY <2>1 DEF Appended
<1>6. CASE Takes(o, t, <<Row(o, t, TRUE)>>)
  BY <1>4, <1>6
<1>7. ASSUME Answers(o, t)
      PROVE  Appended(o.update)'
  BY <1>5, <1>6, <1>7 DEF Answers
<1>8. CASE Answers(o, t)
  BY <1>5, <1>6, <1>7, <1>8 DEF Answers, service
<1>9. CASE Fails(o, t)
  <2>1. CASE Takes(o, t, <<>>)
    <3>1. log' = log \o <<>>
      BY <2>1 DEF Takes
    <3>2. log' = log
      BY <1>1, <3>1, ConcatEmptySeq
    <3> QED BY <1>7, <3>2
  <2>2. CASE Takes(o, t, <<Row(o, t, FALSE)>>)
    <3>1. Adds(o.update)
      BY <1>4, <2>2
    <3> QED BY <1>7, <3>1
  <2> QED BY <1>9, <2>1, <2>2 DEF Fails
<1> QED BY <1>8, <1>9

\* The answer to a message comes back.
LEMMA SendStep ==
    ASSUME BridgeInv, NEW c \in DOMAIN consumers, Send(c)
    PROVE  BridgeInv'
<1>1. /\ c \in 1..Len(consumers) /\ consumers[c] \in ConsumerSet /\ ConsumerInv(consumers[c])
      /\ binding \in [Chats -> Nat]
  BY ConsumerIs
<1>2. PICK o \in ConsumerSet : o = consumers[c]
  BY <1>1
<1>3. PICK t \in 1..(Len(threads) + 1) :
          Answers(o, t) /\ Moves(c, [o EXCEPT !.step = "answered", !.thread = t])
  BY <1>2 DEF Send
<1>4. t \in Nat /\ o.update \in Nat
  BY <1>3 DEF ConsumerSet
<1>5. PICK k : k = [o EXCEPT !.step = "answered", !.thread = t]
  OBVIOUS
<1>6. /\ k \in ConsumerSet /\ k.account = o.account /\ k.alone = o.alone /\ k.step = "answered"
      /\ k.stream = o.stream /\ k.inbox = o.inbox /\ k.update = o.update
  BY <1>4, <1>5 DEF ConsumerSet, ConsumerSteps
<1>7. /\ consumers' = [consumers EXCEPT ![c] = k]
      /\ o.step = "sending" /\ UNCHANGED <<updates, recent, owner, binding>>
  BY <1>2, <1>3, <1>5 DEF Send, Moves, At, registry
<1>8. (log' = log \/ Adds(o.update)) /\ Appended(o.update)'
  BY <1>3, <1>4, AnswersIs
<1>9. \A x : Appended(x) => Appended(x)'
  <2>1. log \in Seq(LogRow)
    BY DEF BridgeInv, BridgeType
  <2>2. CASE log' = log
    BY <2>2 DEF Appended
  <2>3. CASE Adds(o.update)
    <3>1. PICK row \in LogRow : log' = Append(log, row)
      BY <2>3 DEF Adds
    <3> QED BY <2>1, <3>1, LogGrows
  <2> QED BY <1>8, <2>2, <2>3
<1>10. /\ \A x, u : Waiting(x, u)' => Waiting(x, u)
       /\ \A x, u : Of(x, u)' <=> Of(x, u)
       /\ \A x : Held(k, x) <=> Held(o, x)
  BY <1>6, <1>7, <1>9 DEF Waiting, Of, Held
<1>11. ConsumerInv(k)'
  <2>1. ConsumerInv(o) /\ o.update # 0
    BY <1>1, <1>2, <1>7 DEF ConsumerInv
  <2>2. Appended(k.update)'
    BY <1>6, <1>8
  <2> QED BY <1>6, <1>7, <1>10, <2>1, <2>2 DEF ConsumerInv, InSession
<1>12. Follows(o) => Follows(k)'
  BY <1>6, <1>7, <1>10, FollowsKept DEF InSession, Deaf
<1>13. log' = log \/ (consumers[c].step = "sending" /\ Adds(consumers[c].update))
  BY <1>2, <1>7, <1>8
<1> QED BY <1>1, <1>2, <1>6, <1>7, <1>10, <1>11, <1>12, <1>13, SessionStep

\* The answer to a message is lost, or the message is, or the service fails.
LEMMA LoseAnswerStep ==
    ASSUME BridgeInv, NEW c \in DOMAIN consumers, LoseAnswer(c)
    PROVE  BridgeInv'
<1>1. c \in 1..Len(consumers) /\ consumers[c] \in ConsumerSet
  BY ConsumerIs
<1>2. PICK o \in ConsumerSet : o = consumers[c]
  BY <1>1
<1>3. PICK k \in ConsumerSet : k = Ended(o)
  BY EndedIs
<1>4. /\ k.account = o.account /\ k.alone = o.alone /\ k.step \in {"away", "ended"}
      /\ k.inbox = <<>> /\ k.update = 0 /\ ~k.stream
  BY <1>3, EndedIs
<1>5. /\ consumers' = [consumers EXCEPT ![c] = k]
      /\ o.step = "sending" /\ UNCHANGED <<updates, recent, owner, binding>>
      /\ \/ UNCHANGED service
         \/ \E t \in 1..(Len(threads) + 1) : Answers(o, t) \/ Fails(o, t)
  BY <1>2, <1>3 DEF LoseAnswer, Moves, At, registry
<1>6. log' = log \/ Adds(o.update)
  <2>1. CASE UNCHANGED service
    BY <2>1 DEF service
  <2>2. ASSUME NEW t \in 1..(Len(threads) + 1), Answers(o, t) \/ Fails(o, t)
        PROVE  log' = log \/ Adds(o.update)
    <3>1. t \in Nat
      OBVIOUS
    <3> QED BY <2>2, <3>1, AnswersIs
  <2> QED BY <1>5, <2>1, <2>2
<1>7. log' = log \/ (consumers[c].step = "sending" /\ Adds(consumers[c].update))
  BY <1>2, <1>5, <1>6
<1> QED BY <1>1, <1>2, <1>4, <1>5, <1>7, EndingStep

\* A step of a consumer that leaves the log alone.
LEMMA GoOnStep ==
    ASSUME BridgeInv,
           NEW c \in 1..Len(consumers), NEW o \in ConsumerSet, o = consumers[c],
           NEW k \in ConsumerSet,
           consumers' = [consumers EXCEPT ![c] = k],
           UNCHANGED <<updates, recent, owner, log>>,
           binding' \in [Chats -> Nat],
           k.account = o.account, k.alone = o.alone,
           o.step = "ended" => k.step = "ended",
           ConsumerInv(k),
           \A x : Waiting(x, k.account) /\ Held(k, x) => Held(o, x) \/ Repeats(k.account, x),
           (ReadOneByOne(k.account) /\ Follows(o)) => Follows(k)'
    PROVE  BridgeInv'
<1>1. /\ \A x, u : Waiting(x, u)' <=> Waiting(x, u)
      /\ \A x : Appended(x)' <=> Appended(x)
      /\ \A x, u : Of(x, u)' <=> Of(x, u)
  BY WaitingKept
<1>2. ConsumerInv(k)'
  BY <1>1 DEF ConsumerInv
<1>3. \A x : Waiting(x, k.account)' /\ Held(k, x) => Held(consumers[c], x) \/ Repeats(k.account, x)
  BY <1>1
<1> QED BY <1>2, <1>3, SessionStep

\* A session begins with what the relay repeats.
LEMMA ConnectStep ==
    ASSUME BridgeInv, NEW c \in DOMAIN consumers, Connect(c)
    PROVE  BridgeInv'
<1>1. /\ c \in 1..Len(consumers) /\ consumers[c] \in ConsumerSet /\ binding \in [Chats -> Nat]
  BY ConsumerIs
<1>2. PICK o \in ConsumerSet : o = consumers[c]
  BY <1>1
<1>3. o.account \in Accounts /\ recent[o.account] \in Seq(Nat)
  BY DEF ConsumerSet, BridgeInv, BridgeType
<1>4. PICK s \in Seq(Nat) : s = recent[o.account]
  BY <1>3
<1>5. PICK k : k = [Idle(o) EXCEPT !.stream = TRUE, !.inbox = s]
  OBVIOUS
<1>6. /\ k \in ConsumerSet /\ k.account = o.account /\ k.alone = o.alone /\ k.step = "reading"
      /\ k.stream /\ k.inbox = s /\ k.update = 0
  BY <1>5 DEF Idle, ConsumerSet, ConsumerSteps
<1>7. /\ consumers' = [consumers EXCEPT ![c] = k] /\ o.step = "away"
      /\ UNCHANGED <<updates, recent, owner, log>> /\ binding' = binding
  BY <1>2, <1>4, <1>5 DEF Connect, Moves, At, registry, service
<1>8. \A x : In(s, x) <=> Repeats(o.account, x)
  BY <1>4 DEF In, Repeats
<1>9. Increasing(s) /\ \A x : In(s, x) => Of(x, o.account)
  BY <1>3, <1>4, <1>8 DEF BridgeInv, RecentInv, Increasing
<1>10. ConsumerInv(k)
  BY <1>6, <1>9 DEF ConsumerInv, InSession
<1>11. \A x : Held(k, x) <=> In(s, x) \/ x = 0
  BY <1>6 DEF Held
<1>12. Follows(k)'
  BY <1>6, <1>7, <1>8, <1>11 DEF Follows, Repeats
<1>13. ~Waiting(0, k.account)
  BY DEF Waiting, Of
<1> QED BY <1>1, <1>2, <1>6, <1>7, <1>8, <1>10, <1>11, <1>12, <1>13, GoOnStep

\* A stream breaks, or its consumer is stopped: the session goes on to its end.
LEMMA StreamStep ==
    ASSUME BridgeInv, NEW c \in DOMAIN consumers, LoseStream(c) \/ StopConsumer(c)
    PROVE  BridgeInv'
<1>1. /\ c \in 1..Len(consumers) /\ consumers[c] \in ConsumerSet /\ ConsumerInv(consumers[c])
      /\ binding \in [Chats -> Nat]
  BY ConsumerIs
<1>2. PICK o \in ConsumerSet : o = consumers[c]
  BY <1>1
<1>3. /\ UNCHANGED <<updates, recent, owner, log>> /\ binding' = binding
  BY DEF LoseStream, StopConsumer, registry, service
<1>4. ASSUME NEW k \in ConsumerSet, NEW run \in BOOLEAN,
             k = [o EXCEPT !.running = run, !.stream = FALSE],
             consumers' = [consumers EXCEPT ![c] = k]
      PROVE  BridgeInv'
  <2>1. /\ k.account = o.account /\ k.alone = o.alone /\ k.step = o.step
        /\ ~k.stream /\ k.inbox = o.inbox /\ k.update = o.update
    BY <1>4 DEF ConsumerSet
  <2>2. ConsumerInv(k)
    BY <1>1, <1>2, <2>1 DEF ConsumerInv, InSession
  <2>3. \A x : Held(k, x) <=> Held(o, x)
    BY <2>1 DEF Held
  <2>4. Follows(o) => Follows(k)'
    BY <1>3, <2>1, <2>3, WaitingKept DEF Follows, InSession, Deaf, Repeats
  <2> QED BY <1>1, <1>2, <1>3, <1>4, <2>1, <2>2, <2>3, <2>4, GoOnStep
<1>5. CASE LoseStream(c)
  <2>1. PICK k : k = [o EXCEPT !.running = o.running, !.stream = FALSE]
    OBVIOUS
  <2>2. k \in ConsumerSet /\ o.running \in BOOLEAN /\ k = [o EXCEPT !.stream = FALSE]
    BY <2>1 DEF ConsumerSet
  <2>3. consumers' = [consumers EXCEPT ![c] = k]
    BY <1>2, <1>5, <2>2 DEF LoseStream, Moves
  <2> QED BY <1>4, <2>1, <2>2, <2>3
<1>6. CASE StopConsumer(c)
  <2>1. PICK r : r = [o EXCEPT !.running = FALSE, !.stream = FALSE]
    OBVIOUS
  <2>2. r \in ConsumerSet /\ ~r.running /\ r.account = o.account /\ r.alone = o.alone /\ r.step = o.step
    BY <2>1 DEF ConsumerSet
  <2>3. consumers' = [consumers EXCEPT
                        ![c] = IF r.step \in {"away", "hung"} THEN Ended(r) ELSE r]
    BY <1>2, <1>6, <2>1 DEF StopConsumer
  <2>4. CASE r.step \in {"away", "hung"}
    <3>1. PICK k \in ConsumerSet : k = Ended(r)
      BY <2>2, EndedIs
    <3>2. /\ k.account = r.account /\ k.alone = r.alone /\ k.step = "ended"
          /\ k.inbox = <<>> /\ k.update = 0 /\ ~k.stream
      BY <2>2, <3>1, EndedIs
    <3>3. consumers' = [consumers EXCEPT ![c] = k]
      BY <2>3, <2>4, <3>1
    <3> QED BY <1>1, <1>2, <1>3, <2>2, <3>2, <3>3, EndingStep
  <2>5. CASE r.step \notin {"away", "hung"}
    <3>1. consumers' = [consumers EXCEPT ![c] = r]
      BY <2>3, <2>5
    <3> QED BY <1>4, <2>1, <2>2, <3>1
  <2> QED BY <2>4, <2>5
<1> QED BY <1>5, <1>6

\* The first update of an inbox is taken out.
LEMMA TakenIs ==
    ASSUME BridgeInv, NEW o \in All, o.step = "reading", o.inbox # <<>>
    PROVE  /\ Tail(o.inbox) \in Seq(Nat) /\ Increasing(Tail(o.inbox))
           /\ Head(o.inbox) \in Nat /\ Head(o.inbox) # 0 /\ Of(Head(o.inbox), o.account)
           /\ o.update = 0
           /\ \A x : In(Tail(o.inbox), x) => Of(x, o.account) /\ Head(o.inbox) < x
           /\ \A x : In(o.inbox, x) <=> In(Tail(o.inbox), x) \/ x = Head(o.inbox)
<1>1. o \in ConsumerSet /\ ConsumerInv(o)
  BY DEF BridgeInv, BridgeType, All
<1>2. o.inbox \in Seq(Nat) /\ Increasing(o.inbox) /\ o.update = 0
  BY <1>1 DEF ConsumerSet, ConsumerInv
<1>3. /\ Tail(o.inbox) \in Seq(Nat) /\ Increasing(Tail(o.inbox))
      /\ Head(o.inbox) \in Nat /\ In(o.inbox, Head(o.inbox))
      /\ \A i \in 1..Len(Tail(o.inbox)) : Head(o.inbox) < Tail(o.inbox)[i]
      /\ \A x : In(o.inbox, x) <=> In(Tail(o.inbox), x) \/ x = Head(o.inbox)
  BY <1>2, TailKeepsOrder
<1>4. Of(Head(o.inbox), o.account)
  BY <1>1, <1>3 DEF ConsumerInv
<1>5. Head(o.inbox) # 0
  <2>1. updates \in Seq(Inputs) /\ Len(updates) \in Nat
    BY DEF BridgeInv, BridgeType
  <2> QED BY <1>4, <2>1 DEF Of
<1>6. \A x : In(Tail(o.inbox), x) => Of(x, o.account) /\ Head(o.inbox) < x
  BY <1>1, <1>3 DEF ConsumerInv, In
<1> QED BY <1>2, <1>3, <1>4, <1>5, <1>6

\* An update nobody owns the account of is thrown away.
LEMMA DropStep ==
    ASSUME BridgeInv, NEW c \in DOMAIN consumers, Drop(c)
    PROVE  BridgeInv'
<1>1. /\ c \in 1..Len(consumers) /\ consumers[c] \in ConsumerSet /\ consumers[c] \in All
      /\ binding \in [Chats -> Nat]
  BY ConsumerIs
<1>2. PICK o \in ConsumerSet : o = consumers[c] /\ o \in All
  BY <1>1
<1>3. /\ consumers' = [consumers EXCEPT ![c] = [o EXCEPT !.inbox = Tail(@)]]
      /\ o.step = "reading" /\ o.inbox # <<>> /\ owner[o.account] = None
      /\ UNCHANGED <<updates, recent, owner, log>> /\ binding' = binding
  BY <1>2 DEF Drop, Moves, At, registry, service
<1>4. PICK k : k = [o EXCEPT !.inbox = Tail(@)]
  OBVIOUS
<1>5. /\ Tail(o.inbox) \in Seq(Nat) /\ Increasing(Tail(o.inbox)) /\ o.update = 0
      /\ \A x : In(Tail(o.inbox), x) => Of(x, o.account) /\ In(o.inbox, x)
  BY <1>2, <1>3, TakenIs
<1>6. /\ k \in ConsumerSet /\ k.account = o.account /\ k.alone = o.alone /\ k.step = "reading"
      /\ k.inbox = Tail(o.inbox) /\ k.update = 0
  BY <1>3, <1>4, <1>5 DEF ConsumerSet
<1>7. ConsumerInv(k)
  BY <1>5, <1>6 DEF ConsumerInv, InSession
<1>8. \A x : Held(k, x) => Held(o, x)
  BY <1>5, <1>6 DEF Held
<1>9. Follows(k)'
  BY <1>3, <1>6 DEF Follows, Deaf
<1>10. consumers' = [consumers EXCEPT ![c] = k]
  BY <1>3, <1>4
<1> QED BY <1>1, <1>2, <1>3, <1>6, <1>7, <1>8, <1>9, <1>10, GoOnStep

\* The next update is begun.
LEMMA BeginSteps ==
    ASSUME BridgeInv, NEW c \in DOMAIN consumers, BeginMessage(c) \/ BeginClear(c)
    PROVE  BridgeInv'
<1>1. /\ c \in 1..Len(consumers) /\ consumers[c] \in ConsumerSet /\ consumers[c] \in All
      /\ binding \in [Chats -> Nat] /\ updates \in Seq(Inputs)
  BY ConsumerIs
<1>2. PICK o \in ConsumerSet : o = consumers[c] /\ o \in All
  BY <1>1
<1>3. /\ o.step = "reading" /\ o.inbox # <<>> /\ owner[o.account] # None
      /\ UNCHANGED <<updates, recent, owner, log>> /\ binding' = binding
  BY <1>2 DEF BeginMessage, BeginClear, Reads, At, registry, service
<1>4. PICK x : x = Head(o.inbox)
  OBVIOUS
<1>5. /\ Tail(o.inbox) \in Seq(Nat) /\ Increasing(Tail(o.inbox))
      /\ x \in Nat /\ x # 0 /\ Of(x, o.account) /\ o.update = 0
      /\ \A y : In(Tail(o.inbox), y) => Of(y, o.account) /\ x < y
      /\ \A y : In(o.inbox, y) <=> In(Tail(o.inbox), y) \/ y = x
  BY <1>2, <1>3, <1>4, TakenIs
<1>6. owner[o.account] \in Agents \cup {None}
  BY DEF BridgeInv, BridgeType, ConsumerSet
<1>7. ASSUME NEW k \in ConsumerSet, k.account = o.account, k.alone = o.alone, k.stream = o.stream,
             k.inbox = Tail(o.inbox), k.update = x,
             \/ k.step = "sending" /\ updates[x].kind = "message"
             \/ k.step = "clearing" /\ updates[x].kind = "clear",
             consumers' = [consumers EXCEPT ![c] = k]
      PROVE  BridgeInv'
  <2>1. ConsumerInv(k)
    BY <1>5, <1>7 DEF ConsumerInv, InSession
  <2>2. \A y : Held(o, y) <=> Held(k, y) \/ y = 0
    BY <1>5, <1>7 DEF Held
  <2>3. \A y, u : (Waiting(y, u)' => Waiting(y, u)) /\ ~Waiting(0, u)'
    BY <1>3, WaitingKept DEF Waiting, Of
  <2>4. InSession(o) /\ ~Deaf(o)
    BY <1>3 DEF InSession, Deaf
  <2>5. Follows(o) => Follows(k)'
    BY <1>3, <1>7, <2>2, <2>3, <2>4, FollowsKept
  <2> QED BY <1>1, <1>2, <1>3, <1>7, <2>1, <2>2, <2>5, GoOnStep
<1>8. CASE BeginClear(c)
  <2>1. PICK k : k = Took(o, "clearing")
    OBVIOUS
  <2>2. /\ k \in ConsumerSet /\ k.account = o.account /\ k.alone = o.alone /\ k.stream = o.stream
        /\ k.inbox = Tail(o.inbox) /\ k.update = x /\ k.step = "clearing"
    BY <1>4, <1>5, <1>6, <2>1 DEF Took, ConsumerSet, ConsumerSteps
  <2>3. consumers' = [consumers EXCEPT ![c] = k] /\ updates[x].kind = "clear"
    BY <1>2, <1>4, <1>8, <2>1 DEF BeginClear, Reads, Moves
  <2> QED BY <1>7, <2>2, <2>3
<1>9. CASE BeginMessage(c)
  <2>1. PICK t : t = binding[updates[x].chat]
    OBVIOUS
  <2>2. t \in Nat
    <3>1. updates[x] \in Inputs
      BY <1>1, <1>5 DEF Of
    <3>2. updates[x].chat \in Chats
      BY <3>1 DEF Chats
    <3> QED BY <1>1, <2>1, <3>2
  <2>3. PICK k : k = [Took(o, "sending") EXCEPT !.thread = t]
    OBVIOUS
  <2>4. /\ k \in ConsumerSet /\ k.account = o.account /\ k.alone = o.alone /\ k.stream = o.stream
        /\ k.inbox = Tail(o.inbox) /\ k.update = x /\ k.step = "sending"
    BY <1>4, <1>5, <1>6, <2>2, <2>3 DEF Took, ConsumerSet, ConsumerSteps
  <2>5. consumers' = [consumers EXCEPT ![c] = k] /\ updates[x].kind = "message"
    BY <1>2, <1>4, <1>9, <2>1, <2>3 DEF BeginMessage, Reads, Moves
  <2> QED BY <1>7, <2>4, <2>5
<1> QED BY <1>8, <1>9

\* A message whose answer has come, or a clear command, is done with.
LEMMA DoneSteps ==
    ASSUME BridgeInv, NEW c \in DOMAIN consumers, Bind(c) \/ Clear(c) \/ ClearFails(c)
    PROVE  BridgeInv'
<1>1. /\ c \in 1..Len(consumers) /\ consumers[c] \in ConsumerSet /\ ConsumerInv(consumers[c])
      /\ binding \in [Chats -> Nat] /\ updates \in Seq(Inputs)
  BY ConsumerIs
<1>2. PICK o \in ConsumerSet : o = consumers[c]
  BY <1>1
<1>3. PICK k : k = Idle(o)
  OBVIOUS
<1>4. /\ k \in ConsumerSet /\ k.account = o.account /\ k.alone = o.alone /\ k.stream = o.stream
      /\ k.step = "reading" /\ k.inbox = o.inbox /\ k.update = 0
  BY <1>3 DEF Idle, ConsumerSet, ConsumerSteps
<1>5. /\ consumers' = [consumers EXCEPT ![c] = k] /\ o.step \in {"answered", "clearing"}
      /\ UNCHANGED <<updates, recent, owner, log>>
  BY <1>2, <1>3 DEF Bind, Clear, ClearFails, Cleared, Moves, At, registry, service
<1>6. binding' \in [Chats -> Nat]
  <2>1. o.thread \in Nat
    BY DEF ConsumerSet
  <2> QED BY <1>1, <1>2, <2>1 DEF Bind, Clear, ClearFails
<1>7. \A u : ~Waiting(o.update, u) /\ ~Waiting(0, u)
  BY <1>1, <1>2, <1>5 DEF ConsumerInv, Waiting, Of
<1>8. \A x, u : Waiting(x, u)' <=> Waiting(x, u)
  BY <1>5, WaitingKept
<1>9. /\ \A x, u : Waiting(x, u) /\ Held(o, x) => Held(k, x)
      /\ \A x : Held(k, x) => Held(o, x) \/ x = 0
  BY <1>4, <1>7 DEF Held
<1>10. ConsumerInv(k)
  BY <1>1, <1>2, <1>4, <1>5 DEF ConsumerInv, InSession
<1>11. InSession(o) /\ ~Deaf(o)
  BY <1>5 DEF InSession, Deaf
<1>12. Follows(o) => Follows(k)'
  BY <1>4, <1>5, <1>8, <1>9, <1>11, FollowsKept
<1> QED BY <1>1, <1>2, <1>4, <1>5, <1>6, <1>7, <1>9, <1>10, <1>12, GoOnStep

---------------------------------------------------------------------------
(***************************************************************************)
(* Registrations, restarts, and what does not concern consumers.           *)
(***************************************************************************)

\* What is known of a consumer stays true while updates and the log only grow.
LEMMA ConsumerKept ==
    ASSUME NEW k, ConsumerInv(k),
           \A x, u : Of(x, u) => Of(x, u)' /\ updates'[x].kind = updates[x].kind,
           \A x : Appended(x) => Appended(x)'
    PROVE  ConsumerInv(k)'
<1>1. k.step \in {"sending", "clearing"} => Of(k.update, k.account)
  BY DEF ConsumerInv
<1>2. k.step \in {"sending", "clearing"} => updates'[k.update].kind = updates[k.update].kind
  BY <1>1
<1> QED BY <1>2 DEF ConsumerInv

\* Agents that end threads, and steps of nobody.
LEMMA FrameSteps ==
    ASSUME BridgeInv, UNCHANGED <<updates, recent, owner, consumers, binding, log>>
    PROVE  BridgeInv'
<1>1. /\ All' = All
      /\ \A x, u : (Of(x, u)' <=> Of(x, u)) /\ (Waiting(x, u)' <=> Waiting(x, u))
      /\ \A x : Appended(x)' <=> Appended(x)
      /\ \A x, u : Repeats(u, x)' <=> Repeats(u, x)
      /\ \A u : ReadOneByOne(u)' <=> ReadOneByOne(u)
  BY DEF All, Of, Waiting, Appended, Repeats, ReadOneByOne
<1>2. BridgeType' /\ AloneInv' /\ LogInv'
  BY DEF BridgeInv, BridgeType, AloneInv, LogInv
<1>3. RecentInv'
  BY <1>1 DEF BridgeInv, RecentInv
<1>4. \A k \in All' : ConsumerInv(k)'
  BY <1>1 DEF BridgeInv, ConsumerInv
<1>5. NewestInv'
  BY <1>1 DEF BridgeInv, NewestInv
<1>6. FollowInv'
  BY <1>1 DEF BridgeInv, FollowInv, Follows, Deaf
<1>7. OrderInv'
  BY <1>1 DEF BridgeInv, OrderInv
<1> QED BY <1>2, <1>3, <1>4, <1>5, <1>6, <1>7 DEF BridgeInv

\* A new consumer has nothing. If it is not alone, nothing more is said of the
\* account; if it is, the one before has ended.
LEMMA RegisterStep ==
    ASSUME BridgeInv, NEW agent \in Agents, NEW account \in Accounts, Register(agent, account)
    PROVE  BridgeInv'
<1> USE DEF BridgeInv
<1>1. /\ consumers \in Seq(ConsumerSet) /\ Len(consumers) \in Nat
      /\ DOMAIN consumers = 1..Len(consumers)
      /\ owner \in [Accounts -> Agents \cup {None}]
  BY DEF BridgeType
<1>2. PICK b \in BOOLEAN :
          b <=> \A c \in 1..Len(consumers) :
                   consumers[c].account = account => consumers[c].step = "ended"
  OBVIOUS
<1>3. PICK k : k = Consumer(account, b)
  OBVIOUS
<1>4. /\ k \in ConsumerSet /\ k.account = account /\ k.alone = b /\ k.step = "away"
      /\ k.inbox = <<>> /\ k.update = 0 /\ ~k.stream
  <2>1. <<>> \in Seq(Nat)
    OBVIOUS
  <2> QED BY <1>3, <2>1 DEF Consumer, ConsumerSet, ConsumerSteps
<1>5. consumers' = Append(consumers, k)
  <2>1. b = (\A c \in DOMAIN consumers :
                consumers[c].account = account => consumers[c].step = "ended")
    BY <1>1, <1>2
  <2> QED BY <1>3, <2>1 DEF Register
<1>6. /\ consumers' \in Seq(ConsumerSet) /\ Len(consumers') = Len(consumers) + 1
      /\ DOMAIN consumers' = 1..Len(consumers')
      /\ consumers'[Len(consumers) + 1] = k
      /\ \A c \in 1..Len(consumers) : consumers'[c] = consumers[c]
  BY <1>1, <1>4, <1>5
<1>7. UNCHANGED <<updates, recent, binding, log>>
  BY DEF Register, service
<1>8. /\ owner' \in [Accounts -> Agents \cup {None}]
      /\ \A u \in Accounts : u # account => owner'[u] \in {owner[u], None}
  BY <1>1 DEF Register
<1>9. /\ \A x, u : (Of(x, u)' <=> Of(x, u)) /\ (Waiting(x, u)' <=> Waiting(x, u))
      /\ \A x : Appended(x)' <=> Appended(x)
      /\ \A x, u : Repeats(u, x)' <=> Repeats(u, x)
  BY <1>7 DEF Of, Waiting, Appended, Repeats
<1>10. \A c \in 1..Len(consumers') : c \in 1..Len(consumers) \/ c = Len(consumers) + 1
  BY <1>1, <1>6
<1>11. \A m \in All' : m \in All \/ m = k
  BY <1>6, <1>10 DEF All
<1>12. \A u : ReadOneByOne(u)' => ReadOneByOne(u) /\ (u = account => b)
  <2> SUFFICES ASSUME NEW u, ReadOneByOne(u)' PROVE ReadOneByOne(u) /\ (u = account => b)
    OBVIOUS
  <2>1. \A c \in 1..Len(consumers') : consumers'[c].account = u => consumers'[c].alone
    BY <1>6 DEF ReadOneByOne
  <2>2. \A c \in 1..Len(consumers) : c \in 1..Len(consumers')
    BY <1>1, <1>6
  <2>3. ReadOneByOne(u)
    BY <1>1, <1>6, <2>1, <2>2 DEF ReadOneByOne
  <2>4. Len(consumers) + 1 \in 1..Len(consumers')
    BY <1>1, <1>6
  <2> QED BY <1>4, <1>6, <2>1, <2>3, <2>4
<1>13. /\ ConsumerInv(k)' /\ Follows(k)'
       /\ \A x : Held(k, x) => x = 0
  BY <1>4, EndedIsFine
<1>14. BridgeType'
  BY <1>6, <1>7, <1>8 DEF BridgeType
<1>15. RecentInv'
  BY <1>7, <1>9 DEF RecentInv
<1>16. AloneInv'
  <2> SUFFICES ASSUME NEW c \in 1..Len(consumers'), NEW d \in 1..Len(consumers'), c < d,
                      consumers'[c].account = consumers'[d].account, consumers'[d].alone
               PROVE  consumers'[c].step = "ended"
    BY DEF AloneInv
  <2>1. c \in 1..Len(consumers)
    BY <1>1, <1>6
  <2>2. CASE d \in 1..Len(consumers)
    BY <1>6, <2>1, <2>2 DEF AloneInv
  <2>3. CASE d = Len(consumers) + 1
    BY <1>2, <1>4, <1>6, <2>1, <2>3
  <2> QED BY <1>10, <2>2, <2>3
<1>17. LogInv'
  BY <1>7 DEF LogInv
<1>18. \A m \in All' : ConsumerInv(m)'
  <2>1. ASSUME NEW m \in All
        PROVE  ConsumerInv(m)'
    <3>1. ConsumerInv(m)
      OBVIOUS
    <3> QED BY <1>7, <1>9, <3>1, ConsumerKept
  <2> QED BY <1>11, <1>13, <2>1
<1>19. NewestInv'
  <2> SUFFICES ASSUME NEW u \in Accounts, ReadOneByOne(u)', NEW x, Waiting(x, u),
                      Repeats(u, x) \/ \E m \in All' : m.account = u /\ Held(m, x),
                      NEW n \in 1..Len(log), updates[log[n].update].account = u
               PROVE  log[n].update <= x
    BY <1>7, <1>9 DEF NewestInv
  <2>1. x # 0
    BY DEF Waiting, Of
  <2>2. Repeats(u, x) \/ \E m \in All : m.account = u /\ Held(m, x)
    BY <1>11, <1>13, <2>1
  <2> QED BY <1>12, <2>2 DEF NewestInv
<1>20. FollowInv'
  <2> SUFFICES ASSUME NEW m \in All', ReadOneByOne(m.account)' PROVE Follows(m)'
    BY DEF FollowInv
  <2>1. CASE m = k
    BY <1>13, <2>1
  <2>2. CASE m \in All
    <3>1. Follows(m) /\ m.account \in Accounts
      <4>1. ReadOneByOne(m.account)
        BY <1>12
      <4>2. m \in ConsumerSet
        BY <1>1, <2>2 DEF All
      <4> QED BY <2>2, <4>1, <4>2 DEF FollowInv, ConsumerSet
    <3>2. CASE m.account = account
      <4>1. m.step = "ended"
        BY <1>2, <1>12, <2>2, <3>2 DEF All
      <4> QED BY <4>1 DEF Follows, InSession
    <3>3. CASE m.account # account
      <4>1. Deaf(m) => Deaf(m)'
        BY <1>8, <3>1, <3>3 DEF Deaf
      <4> QED BY <1>9, <3>1, <4>1 DEF Follows
    <3> QED BY <3>2, <3>3
  <2> QED BY <1>11, <2>1, <2>2
<1>21. OrderInv'
  BY <1>7, <1>12 DEF OrderInv
<1> QED BY <1>14, <1>15, <1>16, <1>17, <1>18, <1>19, <1>20, <1>21

\* A step of the consumers together, which take nothing up but what is new.
LEMMA TogetherStep ==
    ASSUME BridgeInv, BridgeType', RecentInv', log' = log,
           Len(consumers') = Len(consumers),
           \A x, u : Of(x, u) => Of(x, u)' /\ updates'[x] = updates[x],
           \A x, u : Of(x, u)' => Of(x, u) \/ x > Len(updates),
           \A x : \A u \in Accounts : Repeats(u, x)' => Repeats(u, x) \/ x > Len(updates),
           \A c \in 1..Len(consumers) : \A o, k \in ConsumerSet :
              o = consumers[c] /\ k = consumers'[c] =>
                 /\ k.account = o.account /\ k.alone = o.alone
                 /\ o.step = "ended" => k.step = "ended"
                 /\ ConsumerInv(k)'
                 /\ \A x : Held(k, x) => Held(o, x) \/ x > Len(updates) \/ x = 0
                 /\ Follows(o) => Follows(k)'
    PROVE  BridgeInv'
<1> USE DEF BridgeInv
<1>1. /\ consumers \in Seq(ConsumerSet) /\ Len(consumers) \in Nat
      /\ consumers' \in Seq(ConsumerSet)
      /\ DOMAIN consumers = 1..Len(consumers) /\ DOMAIN consumers' = 1..Len(consumers)
      /\ updates \in Seq(Inputs) /\ Len(updates) \in Nat
  BY DEF BridgeType
<1>2. \A c \in 1..Len(consumers) : consumers[c] \in ConsumerSet /\ consumers'[c] \in ConsumerSet
  BY <1>1
<1>3. ASSUME NEW k \in All'
      PROVE  \E c \in 1..Len(consumers) : \E o \in All :
                /\ o = consumers[c] /\ k = consumers'[c]
                /\ o \in ConsumerSet /\ k \in ConsumerSet
                /\ k.account = o.account /\ k.alone = o.alone
                /\ o.step = "ended" => k.step = "ended"
                /\ ConsumerInv(k)'
                /\ \A x : Held(k, x) => Held(o, x) \/ x > Len(updates) \/ x = 0
                /\ Follows(o) => Follows(k)'
  <2>1. PICK c \in 1..Len(consumers) : k = consumers'[c]
    BY DEF All
  <2>2. PICK o \in ConsumerSet : o = consumers[c]
    BY <1>2
  <2>3. o \in All /\ k \in ConsumerSet
    BY <1>2, <2>1, <2>2 DEF All
  <2> QED BY <2>1, <2>2, <2>3
<1>4. /\ \A x : Appended(x)' <=> Appended(x)
      /\ \A x, u : Waiting(x, u)' => Waiting(x, u) \/ x > Len(updates)
      /\ \A u : ~Waiting(0, u)'
  BY DEF Appended, Waiting, Of
<1>5. \A c \in 1..Len(consumers) : /\ consumers'[c].account = consumers[c].account
                                   /\ consumers'[c].alone = consumers[c].alone
                                   /\ consumers[c].step = "ended" => consumers'[c].step = "ended"
  BY <1>2
<1>6. \A u : ReadOneByOne(u)' <=> ReadOneByOne(u)
  BY <1>1, <1>5 DEF ReadOneByOne
<1>7. AloneInv'
  BY <1>5 DEF AloneInv
<1>8. LogInv' /\ \A n \in 1..Len(log) : updates'[log[n].update] = updates[log[n].update]
  <2> SUFFICES ASSUME NEW n \in 1..Len(log)
               PROVE  /\ log[n].update \in 1..Len(updates')
                      /\ updates'[log[n].update] = updates[log[n].update]
    BY DEF LogInv
  <2>1. PICK x : x = log[n].update
    OBVIOUS
  <2>2. Of(x, updates[x].account)
    BY <2>1 DEF LogInv, Of
  <2>3. PICK u : u = updates[x].account
    OBVIOUS
  <2>4. Of(x, u)' /\ updates'[x] = updates[x]
    BY <2>2, <2>3
  <2> QED BY <2>1, <2>4 DEF Of
<1>9. \A k \in All' : ConsumerInv(k)'
  BY <1>3
<1>10. NewestInv'
  <2> SUFFICES ASSUME NEW u \in Accounts, ReadOneByOne(u), NEW x, Waiting(x, u)',
                      Repeats(u, x)' \/ \E k \in All' : k.account = u /\ Held(k, x),
                      NEW n \in 1..Len(log), updates[log[n].update].account = u
               PROVE  log[n].update <= x
    BY <1>6, <1>8 DEF NewestInv
  <2>1. CASE x > Len(updates)
    <3>1. x \in Nat
      <4>1. Len(updates') \in Nat
        BY DEF BridgeType
      <4> QED BY <4>1 DEF Waiting, Of
    <3>2. PICK y : y = log[n].update
      OBVIOUS
    <3>3. y \in 1..Len(updates)
      BY <3>2 DEF LogInv
    <3> QED BY <1>1, <2>1, <3>1, <3>2, <3>3
  <2>2. CASE ~(x > Len(updates))
    <3>1. Waiting(x, u) /\ x # 0
      BY <1>4, <2>2
    <3>2. Repeats(u, x) \/ \E o \in All : o.account = u /\ Held(o, x)
      <4>1. CASE Repeats(u, x)'
        BY <2>2, <4>1
      <4>2. ASSUME NEW k \in All', k.account = u, Held(k, x)
            PROVE  \E o \in All : o.account = u /\ Held(o, x)
        <5>1. PICK o \in All : /\ k.account = o.account
                               /\ \A y : Held(k, y) => Held(o, y) \/ y > Len(updates) \/ y = 0
          BY <1>3
        <5> QED BY <2>2, <3>1, <4>2, <5>1
      <4> QED BY <4>1, <4>2
    <3> QED BY <3>1, <3>2 DEF NewestInv
  <2> QED BY <2>1, <2>2
<1>11. FollowInv'
  <2> SUFFICES ASSUME NEW k \in All', ReadOneByOne(k.account)' PROVE Follows(k)'
    BY DEF FollowInv
  <2>1. PICK o \in All : k.account = o.account /\ (Follows(o) => Follows(k)')
    BY <1>3
  <2>2. ReadOneByOne(o.account)
    BY <1>6, <2>1
  <2> QED BY <2>1, <2>2 DEF FollowInv
<1>12. OrderInv'
  BY <1>6, <1>8 DEF OrderInv
<1> QED BY <1>7, <1>8, <1>9, <1>10, <1>11, <1>12

\* The relay's restart ends streams and forgets what it would repeat.
LEMMA RelayStep ==
    ASSUME BridgeInv, NEW account \in Accounts, RestartRelay(account)
    PROVE  BridgeInv'
<1> USE DEF BridgeInv
<1>1. /\ consumers \in Seq(ConsumerSet) /\ Len(consumers) \in Nat
      /\ DOMAIN consumers = 1..Len(consumers)
      /\ recent \in [Accounts -> Seq(Nat)]
  BY DEF BridgeType
<1> DEFINE Cut(k) == [k EXCEPT !.stream = @ /\ k.account # account]
<1>2. ASSUME NEW k \in ConsumerSet
      PROVE  /\ Cut(k) \in ConsumerSet /\ Cut(k).account = k.account /\ Cut(k).alone = k.alone
             /\ Cut(k).step = k.step /\ Cut(k).inbox = k.inbox /\ Cut(k).update = k.update
             /\ Cut(k).stream => k.stream
  <2>1. PICK b \in BOOLEAN : b = (k.stream /\ k.account # account)
    OBVIOUS
  <2>2. Cut(k) = [k EXCEPT !.stream = b]
    BY <2>1
  <2> QED BY <2>1, <2>2 DEF ConsumerSet
<1>3. consumers' = [c \in 1..Len(consumers) |-> Cut(consumers[c])]
  BY <1>1 DEF RestartRelay
<1> HIDE DEF Cut
<1>4. \A c \in 1..Len(consumers) : consumers[c] \in ConsumerSet
  BY <1>1
<1>5. /\ consumers' \in Seq(ConsumerSet) /\ Len(consumers') = Len(consumers)
      /\ DOMAIN consumers' = 1..Len(consumers)
      /\ \A c \in 1..Len(consumers) : consumers'[c] = Cut(consumers[c])
  BY <1>1, <1>2, <1>3, <1>4
<1>6. /\ UNCHANGED <<updates, owner, binding, log>>
      /\ recent' \in [Accounts -> Seq(Nat)]
      /\ \A u \in Accounts : recent'[u] = recent[u] \/ recent'[u] = <<>>
  <2>1. <<>> \in Seq(Nat)
    OBVIOUS
  <2> QED BY <1>1, <2>1 DEF RestartRelay, registry, service
<1>7. BridgeType'
  BY <1>5, <1>6 DEF BridgeType
<1>8. /\ \A x, u : (Of(x, u)' <=> Of(x, u)) /\ (Waiting(x, u)' <=> Waiting(x, u))
      /\ \A x : Appended(x)' <=> Appended(x)
  BY <1>6, WaitingKept
<1>9. ASSUME NEW u \in Accounts, NEW x
      PROVE  Repeats(u, x)' => Repeats(u, x)
  <2>1. CASE recent'[u] = recent[u]
    BY <2>1 DEF Repeats
  <2>2. CASE recent'[u] = <<>>
    <3>1. Len(recent'[u]) = 0
      BY <2>2
    <3> QED BY <3>1 DEF Repeats
  <2> QED BY <1>6, <2>1, <2>2
<1>10. RecentInv'
  <2> SUFFICES ASSUME NEW u \in Accounts
               PROVE  /\ Len(recent'[u]) <= RecentLimit
                      /\ \A i, j \in 1..Len(recent'[u]) : i < j => recent'[u][i] < recent'[u][j]
                      /\ \A x : Repeats(u, x)' => Of(x, u)'
                      /\ \A x, y : Repeats(u, x)' /\ Of(y, u)' /\ x < y => Repeats(u, y)'
    BY DEF RecentInv
  <2>1. CASE recent'[u] = recent[u]
    <3>1. \A x : Repeats(u, x)' <=> Repeats(u, x)
      BY <2>1 DEF Repeats
    <3> QED BY <1>8, <2>1, <3>1 DEF RecentInv
  <2>2. CASE recent'[u] = <<>>
    <3>1. Len(recent'[u]) = 0 /\ 0 <= RecentLimit
      BY <2>2, BridgeAssumption
    <3>2. \A x : ~Repeats(u, x)'
      BY <3>1 DEF Repeats
    <3> QED BY <3>1, <3>2
  <2> QED BY <1>6, <2>1, <2>2
<1>11. ASSUME NEW c \in 1..Len(consumers), NEW o \in ConsumerSet, NEW k \in ConsumerSet,
              o = consumers[c], k = consumers'[c]
       PROVE  /\ k.account = o.account /\ k.alone = o.alone
              /\ o.step = "ended" => k.step = "ended"
              /\ ConsumerInv(k)'
              /\ \A x : Held(k, x) => Held(o, x)
              /\ Follows(o) => Follows(k)'
  <2>1. k = Cut(o)
    BY <1>5, <1>11
  <2>2. /\ k.account = o.account /\ k.alone = o.alone /\ k.step = o.step
        /\ k.inbox = o.inbox /\ k.update = o.update /\ (k.stream => o.stream)
    BY <1>2, <2>1
  <2>3. ConsumerInv(o)
    BY <1>11 DEF All
  <2>4. ConsumerInv(k)
    BY <2>2, <2>3 DEF ConsumerInv, InSession
  <2>5. \A x : Held(k, x) <=> Held(o, x)
    BY <2>2 DEF Held
  <2>6. ConsumerInv(k)'
    BY <1>6, <1>8, <2>4 DEF ConsumerInv
  <2>7. k.account \in Accounts
    BY DEF ConsumerSet
  <2>8. Follows(o) => Follows(k)'
    BY <1>6, <1>8, <1>9, <2>2, <2>5, <2>7 DEF Follows, InSession, Deaf
  <2> QED BY <2>2, <2>5, <2>6, <2>8
<1>12. \A x, u : Of(x, u) => Of(x, u)' /\ updates'[x] = updates[x]
  BY <1>6, <1>8
<1> QED BY <1>5, <1>6, <1>7, <1>8, <1>9, <1>10, <1>11, <1>12, TogetherStep

\* A restart of the bridge ends the sessions of all consumers.
LEMMA RestartStep ==
    ASSUME BridgeInv, Restart
    PROVE  BridgeInv'
<1> USE DEF BridgeInv
<1>1. /\ consumers \in Seq(ConsumerSet) /\ Len(consumers) \in Nat
      /\ DOMAIN consumers = 1..Len(consumers)
  BY DEF BridgeType
<1> DEFINE AtRest(k) == Ended([k EXCEPT !.running = FALSE])
<1>2. ASSUME NEW k \in ConsumerSet
      PROVE  /\ AtRest(k) \in ConsumerSet /\ AtRest(k).account = k.account /\ AtRest(k).alone = k.alone
             /\ AtRest(k).step = "ended" /\ AtRest(k).inbox = <<>> /\ AtRest(k).update = 0
             /\ ~AtRest(k).stream
  <2>1. PICK r : r = [k EXCEPT !.running = FALSE]
    OBVIOUS
  <2>2. r \in ConsumerSet /\ ~r.running /\ r.account = k.account /\ r.alone = k.alone
    BY <2>1 DEF ConsumerSet
  <2>3. AtRest(k) = Ended(r)
    BY <2>1
  <2> QED BY <2>2, <2>3, EndedIs
<1>3. consumers' = [c \in 1..Len(consumers) |-> AtRest(consumers[c])]
  BY <1>1 DEF Restart
<1> HIDE DEF AtRest
<1>4. \A c \in 1..Len(consumers) : consumers[c] \in ConsumerSet
  BY <1>1
<1>5. /\ consumers' \in Seq(ConsumerSet) /\ Len(consumers') = Len(consumers)
      /\ \A c \in 1..Len(consumers) : consumers'[c] = AtRest(consumers[c])
  BY <1>1, <1>2, <1>3, <1>4
<1>6. /\ UNCHANGED <<updates, recent, log>>
      /\ owner' \in [Accounts -> Agents \cup {None}] /\ binding' \in [Chats -> Nat]
  BY DEF Restart, service
<1>7. BridgeType'
  BY <1>5, <1>6 DEF BridgeType
<1>8. \A x, u : (Of(x, u)' <=> Of(x, u)) /\ (Repeats(u, x)' <=> Repeats(u, x))
  BY <1>6 DEF Of, Repeats
<1>9. RecentInv'
  BY <1>6, <1>8 DEF RecentInv
<1>10. ASSUME NEW c \in 1..Len(consumers), NEW o \in ConsumerSet, NEW k \in ConsumerSet,
              o = consumers[c], k = consumers'[c]
       PROVE  /\ k.account = o.account /\ k.alone = o.alone
              /\ o.step = "ended" => k.step = "ended"
              /\ ConsumerInv(k)'
              /\ \A x : Held(k, x) => Held(o, x) \/ x > Len(updates) \/ x = 0
              /\ Follows(o) => Follows(k)'
  <2>1. k = AtRest(o)
    BY <1>5, <1>10
  <2>2. /\ k.account = o.account /\ k.alone = o.alone /\ k.step = "ended"
        /\ k.inbox = <<>> /\ k.update = 0 /\ ~k.stream
    BY <1>2, <2>1
  <2> QED BY <2>2, EndedIsFine
<1>11. \A x, u : Of(x, u) => Of(x, u)' /\ updates'[x] = updates[x]
  BY <1>6, <1>8
<1> QED BY <1>5, <1>6, <1>7, <1>8, <1>9, <1>10, <1>11, TogetherStep

\* What a queue holds after an update has come, with or without the oldest.
LEMMA EnqueueIs ==
    ASSUME NEW s \in Seq(Nat), Increasing(s), NEW new \in Nat, \A i \in 1..Len(s) : s[i] < new,
           NEW b \in BOOLEAN, b => Len(s) >= QueueLimit,
           NEW p, p = Len(s) - QueueLimit + 1
    PROVE  /\ Enqueue(s, new, b) \in Seq(Nat) /\ Increasing(Enqueue(s, new, b))
           /\ In(Enqueue(s, new, b), new)
           /\ \A x : In(Enqueue(s, new, b), x) => In(s, x) \/ x = new
           /\ \A x : In(s, x) => In(Enqueue(s, new, b), x) \/ (b /\ x = s[p])
<1>1. CASE ~b
  <2>1. Enqueue(s, new, b) = Append(s, new)
    BY <1>1 DEF Enqueue
  <2>2. /\ Append(s, new) \in Seq(Nat) /\ Increasing(Append(s, new))
        /\ \A x : In(Append(s, new), x) <=> In(s, x) \/ x = new
    BY AppendIs
  <2> QED BY <2>1, <2>2
<1>2. CASE b
  <2>1. p \in 1..Len(s)
    <3>1. QueueLimit \in Nat /\ QueueLimit >= 1 /\ Len(s) \in Nat /\ Len(s) >= QueueLimit
      BY <1>2, BridgeAssumption
    <3> QED BY <3>1
  <2>2. PICK r : r = RemoveAt(s, p)
    OBVIOUS
  <2>3. /\ r \in Seq(Nat) /\ Increasing(r)
        /\ \A x : In(r, x) => In(s, x)
        /\ \A x : In(s, x) => In(r, x) \/ x = s[p]
    BY <2>1, <2>2, RemoveKeepsOrder
  <2>4. \A i \in 1..Len(r) : r[i] < new
    <3> SUFFICES ASSUME NEW i \in 1..Len(r) PROVE r[i] < new
      OBVIOUS
    <3>1. PICK y : y = r[i]
      OBVIOUS
    <3>2. In(s, y)
      BY <2>3, <3>1 DEF In
    <3> QED BY <3>1, <3>2 DEF In
  <2>5. Enqueue(s, new, b) = Append(r, new)
    BY <1>2, <2>2 DEF Enqueue
  <2>6. /\ Append(r, new) \in Seq(Nat) /\ Increasing(Append(r, new))
        /\ \A x : In(Append(r, new), x) <=> In(r, x) \/ x = new
    BY <2>3, <2>4, AppendIs
  <2> QED BY <1>2, <2>3, <2>5, <2>6
<1> QED BY <1>1, <1>2

\* The next update is one of this account.
NextIs(new, account) ==
    /\ updates' \in Seq(Inputs) /\ Len(updates) \in Nat /\ Len(updates') = Len(updates) + 1
    /\ \A x, u : Of(x, u) => Of(x, u)' /\ updates'[x] = updates[x]
    /\ \A x, u : Of(x, u)' => Of(x, u) \/ (x = new /\ u = account)
    /\ Of(new, account)'

\* A new update of an account: its number is the next.
LEMMA UpdatesAre ==
    ASSUME updates \in Seq(Inputs), NEW input \in Inputs, updates' = Append(updates, input),
           NEW new, new = Len(updates) + 1
    PROVE  NextIs(new, input.account)
<1>1. /\ updates' \in Seq(Inputs) /\ Len(updates) \in Nat /\ Len(updates') = Len(updates) + 1
      /\ updates'[Len(updates) + 1] = input
      /\ \A x \in 1..Len(updates) : updates'[x] = updates[x] /\ x \in 1..Len(updates')
      /\ Len(updates) + 1 \in 1..Len(updates')
      /\ \A x \in 1..Len(updates') : x \in 1..Len(updates) \/ x = Len(updates) + 1
  OBVIOUS
<1>2. \A x, u : Of(x, u) => Of(x, u)' /\ updates'[x] = updates[x]
  BY <1>1 DEF Of
<1>3. \A x, u : Of(x, u)' => Of(x, u) \/ (x = new /\ u = input.account)
  <2> SUFFICES ASSUME NEW x, NEW u, Of(x, u)', ~Of(x, u)
               PROVE  x = new /\ u = input.account
    OBVIOUS
  <2>1. x \in 1..Len(updates') /\ updates'[x].account = u
    BY DEF Of
  <2>2. x \notin 1..Len(updates)
    BY <1>1, <2>1 DEF Of
  <2>3. x = new
    BY <1>1, <2>1, <2>2
  <2> QED BY <1>1, <2>1, <2>3
<1>4. Of(new, input.account)'
  BY <1>1 DEF Of
<1> QED BY <1>1, <1>2, <1>3, <1>4 DEF NextIs

\* The relay remembers it.
LEMMA RelayRemembers ==
    ASSUME BridgeInv, NEW input \in Inputs, Arrive(input),
           NEW new, new = Len(updates) + 1
    PROVE  /\ RecentInv' /\ recent' \in [Accounts -> Seq(Nat)]
           /\ Repeats(input.account, new)'
           /\ \A x : \A u \in Accounts : Repeats(u, x)' => Repeats(u, x) \/ x = new
<1> USE DEF BridgeInv
<1>1. /\ updates \in Seq(Inputs) /\ recent \in [Accounts -> Seq(Nat)] /\ input.account \in Accounts
      /\ updates' = Append(updates, input)
      /\ recent' = [recent EXCEPT ![input.account] = Remember(@, Len(updates) + 1)]
  BY BridgeAssumption DEF BridgeType, Arrive
<1>2. /\ Len(updates) \in Nat
      /\ \A x, u : Of(x, u) => Of(x, u)'
      /\ \A x, u : Of(x, u)' => Of(x, u) \/ (x = new /\ u = input.account)
      /\ Of(new, input.account)'
  <2>1. NextIs(new, input.account)
    BY <1>1, UpdatesAre
  <2> QED BY <2>1 DEF NextIs
<1>3. new \in Nat /\ new = Len(updates) + 1
  BY <1>2
<1>4. PICK a \in Accounts : a = input.account
  BY <1>1
<1>5. PICK s \in Seq(Nat) : s = recent[a]
  BY <1>1
<1>6. PICK r : r = Remember(s, new)
  OBVIOUS
<1>7. \A x : In(s, x) <=> Repeats(a, x)
  BY <1>5 DEF In, Repeats
<1>8. Increasing(s) /\ Len(s) <= RecentLimit /\ \A x : In(s, x) => Of(x, a)
  BY <1>5, <1>7 DEF RecentInv, Increasing
<1>9. \A x, u : Of(x, u) => x \in Nat /\ x < new
  BY <1>2, <1>3 DEF Of
<1>10. \A i \in 1..Len(s) : s[i] < new
  <2> SUFFICES ASSUME NEW i \in 1..Len(s) PROVE s[i] < new
    OBVIOUS
  <2>1. PICK x : x = s[i]
    OBVIOUS
  <2>2. In(s, x)
    BY <2>1 DEF In
  <2> QED BY <1>8, <1>9, <2>1, <2>2
<1>11. /\ r \in Seq(Nat) /\ Increasing(r) /\ Len(r) <= RecentLimit /\ In(r, new)
       /\ \A x : In(r, x) => In(s, x) \/ x = new
       /\ \A x, y : In(r, x) /\ In(s, y) /\ x < y => In(r, y)
  BY <1>6, <1>8, <1>10, RememberIs
<1>12. recent' = [recent EXCEPT ![a] = r]
  BY <1>1, <1>3, <1>4, <1>5, <1>6
<1>13. /\ recent' \in [Accounts -> Seq(Nat)] /\ recent'[a] = r
       /\ \A u \in Accounts : u # a => recent'[u] = recent[u]
  BY <1>1, <1>11, <1>12
<1>14. \A x : Repeats(a, x)' <=> In(r, x)
  BY <1>13 DEF In, Repeats
<1>15. \A u \in Accounts : u # a => \A x : Repeats(u, x)' <=> Repeats(u, x)
  BY <1>13 DEF Repeats
<1>16. \A x : \A u \in Accounts : Repeats(u, x)' => Repeats(u, x) \/ x = new
  BY <1>7, <1>11, <1>14, <1>15
<1>17. RecentInv'
  <2> SUFFICES ASSUME NEW u \in Accounts
               PROVE  /\ Len(recent'[u]) <= RecentLimit
                      /\ \A i, j \in 1..Len(recent'[u]) : i < j => recent'[u][i] < recent'[u][j]
                      /\ \A x : Repeats(u, x)' => Of(x, u)'
                      /\ \A x, y : Repeats(u, x)' /\ Of(y, u)' /\ x < y => Repeats(u, y)'
    BY DEF RecentInv
  <2>1. CASE u = a
    <3>1. /\ Len(recent'[u]) <= RecentLimit
          /\ \A i, j \in 1..Len(recent'[u]) : i < j => recent'[u][i] < recent'[u][j]
      BY <1>11, <1>13, <2>1 DEF Increasing
    <3>2. \A x : Repeats(u, x)' => Of(x, u)'
      BY <1>2, <1>3, <1>4, <1>8, <1>11, <1>14, <2>1
    <3>3. ASSUME NEW x, NEW y, Repeats(u, x)', Of(y, u)', x < y
          PROVE  Repeats(u, y)'
      <4>1. CASE y = new
        BY <1>11, <1>14, <2>1, <4>1
      <4>2. CASE y # new
        <5>1. Of(y, u) /\ y \in Nat /\ y < new
          BY <1>2, <1>3, <1>9, <3>3, <4>2
        <5>2. x # new
          BY <3>3, <5>1
        <5>3. Repeats(u, x)
          BY <1>7, <1>11, <1>14, <2>1, <3>3, <5>2
        <5>4. Repeats(u, y)
          BY <3>3, <5>1, <5>3 DEF RecentInv
        <5> QED BY <1>7, <1>11, <1>14, <2>1, <3>3, <5>4
      <4> QED BY <4>1, <4>2
    <3> QED BY <3>1, <3>2, <3>3
  <2>2. CASE u # a
    <3>1. recent'[u] = recent[u] /\ \A x : Repeats(u, x)' <=> Repeats(u, x)
      BY <1>13, <1>15, <2>2
    <3>2. \A x : Of(x, u)' <=> Of(x, u)
      BY <1>2, <1>4, <2>2
    <3> QED BY <3>1, <3>2 DEF RecentInv
  <2> QED BY <2>1, <2>2
<1>18. Repeats(a, new)'
  BY <1>11, <1>14
<1> QED BY <1>3, <1>4, <1>13, <1>16, <1>17, <1>18

\* A consumer that the update reaches has it last, and has lost none that the relay
\* repeats: what a full queue drops would be among more than the relay remembers.
LEMMA ReaderFollows ==
    ASSUME BridgeInv, NEW input \in Inputs, Arrive(input),
           NEW new, new = Len(updates) + 1,
           NEW o \in All, NEW b \in BOOLEAN, b => Len(o.inbox) >= QueueLimit,
           NEW k \in ConsumerSet,
           \/ /\ o.account = input.account /\ o.stream
              /\ k = [o EXCEPT !.inbox = Enqueue(@, new, b)]
           \/ ~(o.account = input.account /\ o.stream) /\ k = o
    PROVE  /\ k.account = o.account /\ k.alone = o.alone
           /\ o.step = "ended" => k.step = "ended"
           /\ ConsumerInv(k)'
           /\ \A x : Held(k, x) => Held(o, x) \/ x > Len(updates) \/ x = 0
           /\ Follows(o) => Follows(k)'
<1> USE DEF BridgeInv
<1>1. /\ updates \in Seq(Inputs) /\ consumers \in Seq(ConsumerSet)
      /\ updates' = Append(updates, input) /\ UNCHANGED <<owner, log>>
  BY DEF BridgeType, Arrive, registry, service
<1>2. /\ Len(updates) \in Nat /\ new \in Nat
      /\ \A x, u : Of(x, u) => Of(x, u)' /\ updates'[x] = updates[x]
      /\ \A x, u : Of(x, u)' => Of(x, u) \/ (x = new /\ u = input.account)
      /\ Of(new, input.account)'
      /\ \A x, u : Of(x, u) => x \in Nat /\ x < new
  <2>1. /\ Len(updates) \in Nat
        /\ \A x, u : Of(x, u) => Of(x, u)' /\ updates'[x] = updates[x]
        /\ \A x, u : Of(x, u)' => Of(x, u) \/ (x = new /\ u = input.account)
        /\ Of(new, input.account)'
    <3>1. NextIs(new, input.account)
      BY <1>1, UpdatesAre
    <3> QED BY <3>1 DEF NextIs
  <2>2. \A x, u : Of(x, u) => x \in Nat /\ x < new
    BY <2>1 DEF Of
  <2> QED BY <2>1, <2>2
<1>3. /\ RecentInv' /\ recent' \in [Accounts -> Seq(Nat)]
      /\ Repeats(input.account, new)'
      /\ \A x : \A u \in Accounts : Repeats(u, x)' => Repeats(u, x) \/ x = new
  BY RelayRemembers
<1>4. o \in ConsumerSet /\ ConsumerInv(o) /\ o.account \in Accounts
  <2>1. o \in ConsumerSet
    BY <1>1 DEF All
  <2> QED BY <2>1 DEF ConsumerSet
<1>5. \A x : Appended(x)' <=> Appended(x)
  BY <1>1 DEF Appended
<1>6. ConsumerInv(o)'
  BY <1>2, <1>4, <1>5, ConsumerKept
<1>7. \A x : Held(o, x) => x \in Nat /\ x < new
  BY <1>2, <1>4 DEF Held, ConsumerInv
<1>8. ASSUME NEW x, NEW u \in Accounts, Waiting(x, u)', Repeats(u, x)', x # new
      PROVE  Waiting(x, u) /\ Repeats(u, x)
  BY <1>2, <1>3, <1>5, <1>8 DEF Waiting
<1>9. CASE ~(o.account = input.account /\ o.stream) /\ k = o
  <2>1. ASSUME Follows(o), InSession(o), ~Deaf(o), NEW x,
               Waiting(x, o.account)', Repeats(o.account, x)'
        PROVE  Held(o, x) \/ (~o.stream /\ \A y : Held(o, y) => y < x)
    <3>1. CASE x = new
      <4>1. o.account = input.account
        BY <1>2, <2>1, <3>1 DEF Waiting
      <4> QED BY <1>7, <1>9, <3>1, <4>1
    <3>2. CASE x # new
      <4>1. Waiting(x, o.account) /\ Repeats(o.account, x)
        BY <1>4, <1>8, <2>1, <3>2
      <4> QED BY <2>1, <4>1 DEF Follows
    <3> QED BY <3>1, <3>2
  <2>2. Follows(o) => Follows(o)'
    BY <1>1, <2>1 DEF Follows, Deaf
  <2> QED BY <1>6, <1>9, <2>2
<1>10. CASE /\ o.account = input.account /\ o.stream
            /\ k = [o EXCEPT !.inbox = Enqueue(@, new, b)]
  <2>1. PICK s \in Seq(Nat) : s = o.inbox
    BY <1>4 DEF ConsumerSet
  <2>2. PICK e : e = Enqueue(s, new, b)
    OBVIOUS
  <2>3. PICK p : p = Len(s) - QueueLimit + 1
    OBVIOUS
  <2>4. Increasing(s) /\ \A x : In(s, x) => Of(x, o.account) /\ x < new
    BY <1>2, <1>4, <2>1 DEF ConsumerInv
  <2>5. \A i \in 1..Len(s) : s[i] < new
    BY <2>4 DEF In
  <2>6. /\ e \in Seq(Nat) /\ Increasing(e) /\ In(e, new)
        /\ \A x : In(e, x) => In(s, x) \/ x = new
        /\ \A x : In(s, x) => In(e, x) \/ (b /\ x = s[p])
    <3>1. b => Len(s) >= QueueLimit
      BY <2>1
    <3>2. Increasing(s) /\ new \in Nat
      BY <1>2, <2>4
    <3>3. /\ Enqueue(s, new, b) \in Seq(Nat) /\ Increasing(Enqueue(s, new, b))
          /\ In(Enqueue(s, new, b), new)
          /\ \A x : In(Enqueue(s, new, b), x) => In(s, x) \/ x = new
          /\ \A x : In(s, x) => In(Enqueue(s, new, b), x) \/ (b /\ x = s[p])
      BY <2>3, <2>5, <3>1, <3>2, EnqueueIs
    <3> QED BY <2>2, <3>3
  <2>7. /\ k.inbox = e /\ k.account = o.account /\ k.alone = o.alone /\ k.step = o.step
        /\ k.update = o.update /\ k.stream = o.stream
    BY <1>4, <1>10, <2>1, <2>2 DEF ConsumerSet
  <2>8. ConsumerInv(k)'
    <3>1. InSession(o)
      BY <1>4, <1>10 DEF ConsumerInv
    <3>2. k.update # 0 => k.update < new
      BY <1>7, <2>7 DEF Held
    <3>3. \A x : In(e, x) => Of(x, o.account)'
      BY <1>2, <1>10, <2>4, <2>6
    <3>4. k.update # 0 => \A x : In(e, x) => k.update < x
      BY <1>4, <2>1, <2>6, <2>7, <3>2 DEF ConsumerInv
    <3> QED BY <1>6, <2>6, <2>7, <3>1, <3>3, <3>4 DEF ConsumerInv, InSession
  <2>9. \A x : Held(k, x) => Held(o, x) \/ x > Len(updates)
    BY <1>2, <2>1, <2>6, <2>7 DEF Held
  <2>10. ASSUME Follows(o), InSession(o), ~Deaf(o), NEW x,
                Waiting(x, o.account)', Repeats(o.account, x)'
         PROVE  Held(k, x)
    <3>1. CASE x = new
      BY <2>6, <2>7, <3>1 DEF Held
    <3>2. CASE x # new
      <4>1. Waiting(x, o.account) /\ Repeats(o.account, x)
        BY <1>4, <1>8, <2>10, <3>2
      <4>2. Held(o, x)
        BY <1>10, <2>10, <4>1 DEF Follows
      <4>3. CASE o.update = x
        BY <2>7, <4>3 DEF Held
      <4>4. CASE In(s, x) /\ In(e, x)
        BY <2>7, <4>4 DEF Held
      <4>5. CASE In(s, x) /\ b /\ x = s[p]
        <5>1. PICK r \in Seq(Nat) : r = recent'[o.account]
          BY <1>3, <1>4
        <5>2. \A y : In(r, y) <=> Repeats(o.account, y)'
          BY <5>1 DEF In, Repeats
        <5>3. Len(r) <= RecentLimit /\ In(r, new)
          BY <1>3, <1>4, <1>10, <5>1, <5>2 DEF RecentInv
        <5>4. ASSUME NEW i \in 1..Len(s), i >= p
              PROVE  In(r, s[i])
          <6>1. PICK y : y = s[i]
            OBVIOUS
          <6>2. In(s, y)
            BY <6>1 DEF In
          <6>3. Of(y, o.account)'
            BY <1>2, <2>4, <6>2
          <6>4. y = x \/ x < y
            <7>1. p \in 1..Len(s)
              <8>1. QueueLimit \in Nat /\ QueueLimit >= 1 /\ Len(s) \in Nat /\ Len(s) >= QueueLimit
                BY <2>1, <4>5, BridgeAssumption
              <8> QED BY <2>3, <8>1
            <7>2. p = i \/ p < i
              BY <5>4, <7>1
            <7> QED BY <2>4, <4>5, <6>1, <7>1, <7>2 DEF Increasing
          <6>5. Repeats(o.account, y)'
            BY <1>3, <1>4, <2>10, <6>3, <6>4 DEF RecentInv
          <6> QED BY <5>2, <6>1, <6>5
        <5>5. Len(s) >= QueueLimit
          BY <2>1, <4>5
        <5> QED BY <1>2, <2>3, <2>4, <2>5, <5>3, <5>4, <5>5, DroppedIsForgotten
      <4> QED BY <2>1, <2>6, <4>2, <4>3, <4>4, <4>5 DEF Held
    <3> QED BY <3>1, <3>2
  <2>11. Follows(o) => Follows(k)'
    <3>1. InSession(k) <=> InSession(o)
      BY <2>7 DEF InSession
    <3>2. Deaf(k)' <=> Deaf(o)
      BY <1>1, <2>7 DEF Deaf
    <3> QED BY <2>7, <2>10, <3>1, <3>2 DEF Follows
  <2> QED BY <2>7, <2>8, <2>9, <2>11
<1> QED BY <1>9, <1>10

\* A user writes.
LEMMA ArriveStep ==
    ASSUME BridgeInv, NEW input \in Inputs, Arrive(input),
           NEW new, new = Len(updates) + 1
    PROVE  BridgeInv'
<1> USE DEF BridgeInv
<1>1. /\ consumers \in Seq(ConsumerSet) /\ Len(consumers) \in Nat
      /\ DOMAIN consumers = 1..Len(consumers)
      /\ updates \in Seq(Inputs) /\ updates' = Append(updates, input)
      /\ UNCHANGED <<owner, binding, log>>
  BY DEF BridgeType, Arrive, registry, service
<1>2. new = Len(updates) + 1
  OBVIOUS
<1>3. /\ updates' \in Seq(Inputs) /\ Len(updates) \in Nat
      /\ \A x, u : Of(x, u) => Of(x, u)' /\ updates'[x] = updates[x]
      /\ \A x, u : Of(x, u)' => Of(x, u) \/ x > Len(updates)
  <2>1. /\ updates' \in Seq(Inputs) /\ Len(updates) \in Nat
        /\ \A x, u : Of(x, u) => Of(x, u)' /\ updates'[x] = updates[x]
        /\ \A x, u : Of(x, u)' => Of(x, u) \/ (x = new /\ u = input.account)
    <3>1. NextIs(new, input.account)
      BY <1>1, <1>2, UpdatesAre
    <3> QED BY <3>1 DEF NextIs
  <2> QED BY <1>2, <2>1
<1>4. /\ RecentInv' /\ recent' \in [Accounts -> Seq(Nat)]
      /\ \A x : \A u \in Accounts : Repeats(u, x)' => Repeats(u, x) \/ x > Len(updates)
  <2>1. /\ RecentInv' /\ recent' \in [Accounts -> Seq(Nat)]
        /\ \A x : \A u \in Accounts : Repeats(u, x)' => Repeats(u, x) \/ x = new
    BY <1>2, RelayRemembers
  <2> QED BY <1>2, <1>3, <2>1
<1> DEFINE Hears(o) == o.account = input.account /\ o.stream
<1>5. PICK full : /\ \A c \in full : Len(consumers[c].inbox) >= QueueLimit
                  /\ consumers' = [c \in 1..Len(consumers) |->
                        IF Hears(consumers[c])
                        THEN [consumers[c] EXCEPT !.inbox = Enqueue(@, new, c \in full)]
                        ELSE consumers[c]]
  <2> DEFINE readers == {c \in DOMAIN consumers :
                            consumers[c].account = input.account /\ consumers[c].stream}
             Reached(full) == [c \in DOMAIN consumers |->
                IF c \in readers
                THEN [consumers[c] EXCEPT !.inbox = Enqueue(@, new, c \in full)]
                ELSE consumers[c]]
  <2>1. PICK full \in SUBSET {c \in readers : Len(consumers[c].inbox) >= QueueLimit} :
            consumers' = Reached(full)
    <3>1. \E full \in SUBSET {c \in readers : Len(consumers[c].inbox) >= QueueLimit} :
            consumers' = [c \in DOMAIN consumers |->
                IF c \in readers
                THEN [consumers[c] EXCEPT !.inbox = Enqueue(@, Len(updates) + 1, c \in full)]
                ELSE consumers[c]]
      BY DEF Arrive
    <3> QED BY <1>2, <3>1
  <2>2. \A c \in full : Len(consumers[c].inbox) >= QueueLimit
    BY <2>1
  <2>3. consumers' = [c \in 1..Len(consumers) |->
            IF Hears(consumers[c])
            THEN [consumers[c] EXCEPT !.inbox = Enqueue(@, new, c \in full)]
            ELSE consumers[c]]
    BY <1>1, <2>1
  <2> QED BY <2>2, <2>3
<1>6. ASSUME NEW c \in 1..Len(consumers), NEW o \in All, o = consumers[c]
      PROVE  /\ consumers'[c] \in ConsumerSet
             /\ \E b \in BOOLEAN : /\ b => Len(o.inbox) >= QueueLimit
                   /\ \/ Hears(o) /\ consumers'[c] = [o EXCEPT !.inbox = Enqueue(@, new, b)]
                      \/ ~Hears(o) /\ consumers'[c] = o
  <2>1. PICK b \in BOOLEAN : b <=> c \in full
    OBVIOUS
  <2>2. b => Len(o.inbox) >= QueueLimit
    BY <1>5, <1>6, <2>1
  <2>3. \/ Hears(o) /\ consumers'[c] = [o EXCEPT !.inbox = Enqueue(@, new, b)]
        \/ ~Hears(o) /\ consumers'[c] = o
    BY <1>5, <1>6, <2>1 DEF Enqueue
  <2>4. o \in ConsumerSet /\ ConsumerInv(o) /\ o.inbox \in Seq(Nat)
    <3>1. o \in ConsumerSet
      BY <1>1 DEF All
    <3> QED BY <3>1 DEF ConsumerSet
  <2>5. Increasing(o.inbox) /\ \A i \in 1..Len(o.inbox) : o.inbox[i] < new
    <3>1. \A x : In(o.inbox, x) => Of(x, o.account)
      BY <2>4 DEF ConsumerInv
    <3>2. \A x, u : Of(x, u) => x < new
      BY <1>2, <1>3 DEF Of
    <3>3. \A x : In(o.inbox, x) => x < new
      BY <3>1, <3>2
    <3> QED BY <2>4, <3>3 DEF ConsumerInv, In
  <2>6. PICK p : p = Len(o.inbox) - QueueLimit + 1
    OBVIOUS
  <2>7. new \in Nat
    BY <1>2, <1>3
  <2>8. Enqueue(o.inbox, new, b) \in Seq(Nat)
    <3>1. PICK s \in Seq(Nat) : s = o.inbox
      BY <2>4
    <3>2. /\ Increasing(s) /\ \A i \in 1..Len(s) : s[i] < new
          /\ b => Len(s) >= QueueLimit
          /\ p = Len(s) - QueueLimit + 1
      BY <2>2, <2>5, <2>6, <3>1
    <3>3. Enqueue(s, new, b) \in Seq(Nat)
      BY <2>7, <3>2, EnqueueIs
    <3> QED BY <3>1, <3>3
  <2>9. consumers'[c] \in ConsumerSet
    <3>1. PICK e \in Seq(Nat) : e = Enqueue(o.inbox, new, b)
      BY <2>8
    <3>2. [o EXCEPT !.inbox = e] \in ConsumerSet
      BY <2>4 DEF ConsumerSet
    <3> QED BY <2>3, <2>4, <3>1, <3>2
  <2> QED BY <2>2, <2>3, <2>9
<1>7. \A c \in 1..Len(consumers) : consumers[c] \in All
  BY DEF All
<1>8. /\ consumers' \in Seq(ConsumerSet) /\ Len(consumers') = Len(consumers)
  <2>1. \A c \in 1..Len(consumers) : consumers'[c] \in ConsumerSet
    BY <1>6, <1>7
  <2>2. \E F : consumers' = [c \in 1..Len(consumers) |-> F[c]]
    <3>1. PICK F : F = [c \in 1..Len(consumers) |->
                           IF Hears(consumers[c])
                           THEN [consumers[c] EXCEPT !.inbox = Enqueue(@, new, c \in full)]
                           ELSE consumers[c]]
      OBVIOUS
    <3>2. consumers' = F
      BY <1>5, <3>1
    <3>3. F = [c \in 1..Len(consumers) |-> F[c]]
      BY <3>1
    <3> QED BY <3>2, <3>3
  <2>3. consumers' \in [1..Len(consumers) -> ConsumerSet]
    BY <2>1, <2>2
  <2> QED BY <1>1, <2>3
<1>9. BridgeType'
  BY <1>1, <1>3, <1>4, <1>8 DEF BridgeType
<1>10. ASSUME NEW c \in 1..Len(consumers), NEW o \in ConsumerSet, NEW k \in ConsumerSet,
              o = consumers[c], k = consumers'[c]
       PROVE  /\ k.account = o.account /\ k.alone = o.alone
              /\ o.step = "ended" => k.step = "ended"
              /\ ConsumerInv(k)'
              /\ \A x : Held(k, x) => Held(o, x) \/ x > Len(updates) \/ x = 0
              /\ Follows(o) => Follows(k)'
  <2>1. o \in All
    BY <1>7, <1>10
  <2>2. PICK b \in BOOLEAN : /\ b => Len(o.inbox) >= QueueLimit
            /\ \/ Hears(o) /\ k = [o EXCEPT !.inbox = Enqueue(@, new, b)]
               \/ ~Hears(o) /\ k = o
    BY <1>6, <1>10, <2>1
  <2> QED BY <1>2, <2>1, <2>2, ReaderFollows
<1> QED BY <1>1, <1>3, <1>4, <1>8, <1>9, <1>10, TogetherStep

---------------------------------------------------------------------------
(***************************************************************************)
(* The theorem.                                                            *)
(***************************************************************************)

\* Every step keeps the invariant.
LEMMA BridgeNext == BridgeInv /\ [Next]_vars => BridgeInv'
<1> SUFFICES ASSUME BridgeInv, [Next]_vars PROVE BridgeInv'
  OBVIOUS
<1>1. CASE \E input \in Inputs : Arrive(input)
  <2>1. PICK input \in Inputs : Arrive(input)
    BY <1>1
  <2>2. PICK new : new = Len(updates) + 1
    OBVIOUS
  <2> QED BY <2>1, <2>2, ArriveStep
<1>2. CASE \E account \in Accounts : RestartRelay(account)
  BY <1>2, RelayStep
<1>3. CASE \E w \in Wanted : Register(w[1], w[2])
  <2>1. PICK w \in Wanted : Register(w[1], w[2])
    BY <1>3
  <2>2. w[1] \in Agents /\ w[2] \in Accounts
    BY BridgeAssumption
  <2> QED BY <2>1, <2>2, RegisterStep
<1>4. CASE \E c \in DOMAIN consumers :
              Steps(c) \/ LoseStream(c) \/ Hang(c) \/ LoseAnswer(c) \/ ClearFails(c)
  <2>1. PICK c \in DOMAIN consumers :
            Steps(c) \/ LoseStream(c) \/ Hang(c) \/ LoseAnswer(c) \/ ClearFails(c)
    BY <1>4
  <2>2. CASE StopConsumer(c) \/ LoseStream(c)
    BY <2>2, StreamStep
  <2>3. CASE End(c) \/ Hang(c) \/ Refuse(c)
    BY <2>3, EndSteps
  <2>4. CASE Connect(c)
    BY <2>4, ConnectStep
  <2>5. CASE Drop(c)
    BY <2>5, DropStep
  <2>6. CASE BeginMessage(c) \/ BeginClear(c)
    BY <2>6, BeginSteps
  <2>7. CASE Send(c)
    BY <2>7, SendStep
  <2>8. CASE LoseAnswer(c)
    BY <2>8, LoseAnswerStep
  <2>9. CASE Bind(c) \/ Clear(c) \/ ClearFails(c)
    BY <2>9, DoneSteps
  <2> QED BY <2>1, <2>2, <2>3, <2>4, <2>5, <2>6, <2>7, <2>8, <2>9 DEF Steps
<1>5. CASE \E t \in DOMAIN threads : EndThread(t)
  <2>1. UNCHANGED <<updates, recent, owner, consumers, binding, log>>
    BY <1>5 DEF EndThread, registry
  <2> QED BY <2>1, FrameSteps
<1>6. CASE Restart
  BY <1>6, RestartStep
<1>7. CASE UNCHANGED vars
  <2>1. UNCHANGED <<updates, recent, owner, consumers, binding, log>>
    BY <1>7 DEF vars, registry, service
  <2> QED BY <2>1, FrameSteps
<1> QED BY <1>1, <1>2, <1>3, <1>4, <1>5, <1>6, <1>7 DEF Next

\* What is promised of the log follows.
LEMMA BridgeOrder == BridgeInv => ForwardedInOrder
<1> SUFFICES ASSUME BridgeInv, NEW n \in DOMAIN log, NEW m \in 1..(n - 1)
             PROVE  LET account == updates[log[n].update].account IN
                    /\ log[m].saved => log[m].update # log[n].update
                    /\ (updates[log[m].update].account = account /\ ReadOneByOne(account))
                        => log[m].update <= log[n].update
  BY DEF ForwardedInOrder
<1>1. /\ log \in Seq(LogRow) /\ DOMAIN log = 1..Len(log) /\ Len(log) \in Nat
      /\ updates \in Seq(Inputs)
  BY DEF BridgeInv, BridgeType
<1>2. n \in 1..Len(log) /\ m \in 1..Len(log) /\ m < n
  BY <1>1
<1>3. PICK y : y = log[n].update
  OBVIOUS
<1>4. y \in 1..Len(updates)
  BY <1>2, <1>3 DEF BridgeInv, LogInv
<1>5. updates[y] \in Inputs
  BY <1>1, <1>4
<1>6. updates[y].account \in Accounts
  BY <1>5, BridgeAssumption
<1> QED BY <1>2, <1>3, <1>6 DEF BridgeInv, OrderInv

\* Whatever relays repeat, requests lose, restarts forget and accounts change hands:
\* a message is appended once, or once more after the service failed to save that it
\* was; and the messages of an account in the order in which its relay came to
\* remember them, as long as its consumers follow one another.
THEOREM MessagesAreForwardedInOrder == Spec => []ForwardedInOrder
<1>1. Spec => []BridgeInv
  BY BridgeInit, BridgeNext, PTL DEF Spec
<1> QED BY <1>1, BridgeOrder, PTL
=============================================================================
