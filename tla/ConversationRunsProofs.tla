----------------------- MODULE ConversationRunsProofs -----------------------
(***************************************************************************)
(* Theorems about ConversationRuns: its types, that a busy conversation    *)
(* has exactly one live generation, that a tool which may not be replayed  *)
(* runs once, that requests are charged and shown once, and that deferred  *)
(* responses are tracked.                                                  *)
(***************************************************************************)
EXTENDS ConversationRuns, TLAPS, WellFoundedInduction

-----------------------------------------------------------------------------
(* Induction, from the well-foundedness of < on the naturals                *)

LEMMA Less == ASSUME NEW m \in Nat, NEW n \in Nat, m < n PROVE <<m, n>> \in OpToRel(<, Nat)
  BY DEF OpToRel

LEMMA Least == ASSUME NEW T, T \subseteq Nat, T # {} PROVE \E m \in T : \A k \in T : m <= k
<1>1. PICK m \in T : \A y \in T : ~(<<y, m>> \in OpToRel(<, Nat))
  BY NatLessThanWellFounded, WFMin
<1>2. ASSUME NEW k \in T PROVE ~(k < m)
  <2>1. k \in Nat /\ m \in Nat
    OBVIOUS
  <2> SUFFICES ASSUME k < m PROVE FALSE
    OBVIOUS
  <2>2. <<k, m>> \in OpToRel(<, Nat)
    BY <2>1, Less
  <2> QED BY <1>1, <2>2, Zenon
<1>3. \A k \in T : m <= k
  BY <1>2
<1> QED BY <1>3

LEMMA Induct ==
  ASSUME NEW T, 0 \in T, \A n \in Nat : n \in T => n + 1 \in T
  PROVE  \A n \in Nat : n \in T
<1> SUFFICES ASSUME Nat \ T # {} PROVE FALSE
  OBVIOUS
<1>1. PICK m \in Nat \ T : \A k \in Nat \ T : m <= k
  BY Least
<1>2. m # 0 /\ m - 1 \in Nat /\ ~(m <= m - 1)
  OBVIOUS
<1>3. m - 1 \in T
  BY <1>1, <1>2
<1> QED BY <1>2, <1>3, (m - 1) + 1 = m

\* A nonempty set of naturals with an upper bound has a largest element.
LEMMA MaxIn ==
  ASSUME NEW S, S \subseteq Nat, S # {}, NEW n \in Nat, \A x \in S : x <= n
  PROVE  Max(S) \in S /\ \A x \in S : x <= Max(S)
<1> DEFINE T == {n - x : x \in S}
<1>1. T \subseteq Nat /\ T # {}
  <2>1. \A x \in S : n - x \in Nat
    OBVIOUS
  <2> QED BY <2>1
<1> HIDE DEF T
<1>2. PICK m \in T : \A k \in T : m <= k
  BY <1>1, Least
<1>3. PICK y \in S : m = n - y
  BY DEF T
<1>4. \A x \in S : n - y <= n - x
  BY <1>2, <1>3 DEF T
<1>5. \A x \in S : y >= x
  BY <1>4
<1>6. \E x \in S : \A z \in S : x >= z
  BY <1>5
<1>7. Max(S) \in S /\ \A z \in S : Max(S) >= z
  BY <1>6 DEF Max
<1> QED BY <1>7

LEMMA MinIn ==
  ASSUME NEW S, S \subseteq Nat, S # {}
  PROVE  Min(S) \in S /\ \A x \in S : Min(S) <= x
<1>1. \E x \in S : \A z \in S : x <= z
  BY Least
<1> QED BY <1>1 DEF Min

LEMMA IsSeq == ASSUME NEW X, NEW n \in Nat, NEW f \in [1..n -> X] PROVE f \in Seq(X) /\ Len(f) = n
  OBVIOUS

LEMMA SeqExcept ==
  ASSUME NEW X, NEW q \in Seq(X), NEW i, NEW v \in X
  PROVE  /\ [q EXCEPT ![i] = v] \in Seq(X) /\ Len([q EXCEPT ![i] = v]) = Len(q)
         /\ DOMAIN [q EXCEPT ![i] = v] = DOMAIN q
<1>1. DOMAIN q = 1..Len(q) /\ Len(q) \in Nat
  OBVIOUS
<1> DEFINE f == [q EXCEPT ![i] = v]
<1>2. DOMAIN f = DOMAIN q /\ f = [k \in DOMAIN q |-> f[k]]
  OBVIOUS
<1>3. ASSUME NEW k \in 1..Len(q) PROVE f[k] \in X
  BY <1>1, q[k] \in X
<1> HIDE DEF f
<1>4. f \in [1..Len(q) -> X]
  BY <1>1, <1>2, <1>3
<1>5. f \in Seq(X) /\ Len(f) = Len(q)
  BY <1>1, <1>4, IsSeq
<1> QED BY <1>2, <1>5 DEF f

-----------------------------------------------------------------------------
(* The recursive functions of the model                                     *)

\* q is the function At() defines, over a sequence of n elements.
Walk(q, seq, S, n) ==
  q = [k \in 0..n |->
         IF k = 0 THEN <<>> ELSE IF k \in S THEN Append(q[k - 1], seq[k]) ELSE q[k - 1]]

LEMMA WalkAt ==
  ASSUME NEW q, NEW seq, NEW S, NEW n \in Nat, Walk(q, seq, S, n), NEW k \in 0..n
  PROVE  q[k] = IF k = 0 THEN <<>> ELSE IF k \in S THEN Append(q[k - 1], seq[k]) ELSE q[k - 1]
<1> DEFINE b(j) == IF j = 0 THEN <<>> ELSE IF j \in S THEN Append(q[j - 1], seq[j]) ELSE q[j - 1]
<1>1. q = [j \in 0..n |-> b(j)]
  BY DEF Walk
<1> HIDE DEF b
<1>2. q[k] = b(k)
  BY <1>1
<1> QED BY <1>2 DEF b

LEMMA WalkExists == ASSUME NEW seq, NEW S, NEW n \in Nat PROVE \E q : Walk(q, seq, S, n)
<1> DEFINE T == {m \in Nat : \E q : Walk(q, seq, S, m)}
<1>1. 0 \in T
  <2> DEFINE q == [k \in 0..0 |-> <<>>]
  <2>1. Walk(q, seq, S, 0)
    BY DEF Walk
  <2> QED BY <2>1
<1>2. ASSUME NEW m \in Nat, m \in T PROVE m + 1 \in T
  <2>1. PICK q : Walk(q, seq, S, m)
    BY <1>2
  <2> DEFINE r == [k \in 0..(m + 1) |-> IF k <= m THEN q[k]
                     ELSE IF k \in S THEN Append(q[m], seq[k]) ELSE q[m]]
  <2>2. ASSUME NEW k \in 0..(m + 1)
        PROVE  r[k] = IF k = 0 THEN <<>> ELSE IF k \in S THEN Append(r[k - 1], seq[k]) ELSE r[k - 1]
    <3>1. CASE k = 0
      BY <2>1, <3>1, WalkAt
    <3>2. CASE k \in 1..m
      <4>1. r[k] = q[k] /\ r[k - 1] = q[k - 1]
        BY <3>2
      <4>2. q[k] = IF k \in S THEN Append(q[k - 1], seq[k]) ELSE q[k - 1]
        BY <2>1, <3>2, WalkAt
      <4> QED BY <4>1, <4>2, <3>2
    <3>3. CASE k = m + 1
      <4>1. r[k - 1] = q[m] /\ k # 0
        BY <3>3
      <4> QED BY <4>1, <3>3
    <3> QED BY <3>1, <3>2, <3>3
  <2>3. Walk(r, seq, S, m + 1)
    BY <2>2 DEF Walk
  <2> QED BY <2>3
<1> HIDE DEF T
<1>3. n \in T
  BY <1>1, <1>2, Induct
<1> QED BY <1>3 DEF T

\* What At() returns is the last value of such a function.
LEMMA AtWalk ==
  ASSUME NEW seq, NEW S, Len(seq) \in Nat
  PROVE  \E q : Walk(q, seq, S, Len(seq)) /\ At(seq, S) = q[Len(seq)]
<1> DEFINE q == CHOOSE q : Walk(q, seq, S, Len(seq))
<1>1. Walk(q, seq, S, Len(seq))
  BY WalkExists
<1>2. At(seq, S) = q[Len(seq)]
  BY DEF At, Walk
<1> QED BY <1>1, <1>2

LEMMA AtType ==
  ASSUME NEW X, NEW seq \in Seq(X), NEW S
  PROVE  At(seq, S) \in Seq(X)
<1>1. Len(seq) \in Nat
  OBVIOUS
<1>2. PICK q : Walk(q, seq, S, Len(seq)) /\ At(seq, S) = q[Len(seq)]
  BY <1>1, AtWalk
<1> DEFINE T == {k \in Nat : k <= Len(seq) => q[k] \in Seq(X)}
<1>3. 0 \in T
  <2>1. q[0] = <<>>
    BY <1>1, <1>2, WalkAt, 0 \in 0..Len(seq)
  <2>2. <<>> \in Seq(X)
    OBVIOUS
  <2>3. 0 <= Len(seq) => q[0] \in Seq(X)
    BY <2>1, <2>2
  <2> QED BY <2>3
<1>4. ASSUME NEW k \in Nat, k \in T PROVE k + 1 \in T
  <2> SUFFICES ASSUME k + 1 <= Len(seq) PROVE q[k + 1] \in Seq(X)
    OBVIOUS
  <2>1. q[k] \in Seq(X)
    BY <1>1, <1>4
  <2>2. q[k + 1] = IF k + 1 \in S THEN Append(q[k], seq[k + 1]) ELSE q[k]
    BY <1>1, <1>2, WalkAt, k + 1 \in 0..Len(seq), k + 1 # 0, (k + 1) - 1 = k
  <2>3. seq[k + 1] \in X
    BY <1>1
  <2> QED BY <2>1, <2>2, <2>3
<1> HIDE DEF T
<1>5. Len(seq) \in T
  BY <1>1, <1>3, <1>4, Induct
<1> QED BY <1>1, <1>2, <1>5 DEF T

LEMMA InOrderType == ASSUME NEW S, NEW n \in Nat PROVE InOrder(S, n) \in Seq(1..n)
<1>1. [k \in 1..n |-> k] \in Seq(1..n)
  OBVIOUS
<1> QED BY <1>1, AtType DEF InOrder

\* q is the function PlaceWrites() defines, over n items.
Fold(q, s, items, n) == q = [k \in 0..n |-> IF k = 0 THEN s ELSE PlaceWrite(q[k - 1], items[k])]

LEMMA FoldAt ==
  ASSUME NEW q, NEW s, NEW items, NEW n \in Nat, Fold(q, s, items, n), NEW k \in 0..n
  PROVE  q[k] = IF k = 0 THEN s ELSE PlaceWrite(q[k - 1], items[k])
<1> DEFINE b(j) == IF j = 0 THEN s ELSE PlaceWrite(q[j - 1], items[j])
<1>1. q = [j \in 0..n |-> b(j)]
  BY DEF Fold
<1> HIDE DEF b
<1>2. q[k] = b(k)
  BY <1>1
<1> QED BY <1>2 DEF b

LEMMA FoldExists == ASSUME NEW s, NEW items, NEW n \in Nat PROVE \E q : Fold(q, s, items, n)
<1> DEFINE T == {m \in Nat : \E q : Fold(q, s, items, m)}
<1>1. 0 \in T
  <2> DEFINE q == [k \in 0..0 |-> s]
  <2>1. Fold(q, s, items, 0)
    BY DEF Fold
  <2> QED BY <2>1
<1>2. ASSUME NEW m \in Nat, m \in T PROVE m + 1 \in T
  <2>1. PICK q : Fold(q, s, items, m)
    BY <1>2
  <2> DEFINE r == [k \in 0..(m + 1) |-> IF k <= m THEN q[k] ELSE PlaceWrite(q[m], items[k])]
  <2>2. ASSUME NEW k \in 0..(m + 1)
        PROVE  r[k] = IF k = 0 THEN s ELSE PlaceWrite(r[k - 1], items[k])
    <3>1. CASE k = 0
      BY <2>1, <3>1, FoldAt
    <3>2. CASE k \in 1..m
      <4>1. r[k] = q[k] /\ r[k - 1] = q[k - 1]
        BY <3>2
      <4>2. q[k] = PlaceWrite(q[k - 1], items[k])
        BY <2>1, <3>2, FoldAt
      <4> QED BY <4>1, <4>2, <3>2
    <3>3. CASE k = m + 1
      <4>1. r[k - 1] = q[m] /\ k # 0
        BY <3>3
      <4> QED BY <4>1, <3>3
    <3> QED BY <3>1, <3>2, <3>3
  <2>3. Fold(r, s, items, m + 1)
    BY <2>2 DEF Fold
  <2> QED BY <2>3
<1> HIDE DEF T
<1>3. n \in T
  BY <1>1, <1>2, Induct
<1> QED BY <1>3 DEF T

LEMMA PlaceWritesFold ==
  ASSUME NEW s, NEW items, Len(items) \in Nat
  PROVE  \E q : Fold(q, s, items, Len(items)) /\ PlaceWrites(s, items) = q[Len(items)]
<1> DEFINE q == CHOOSE q : Fold(q, s, items, Len(items))
<1>1. Fold(q, s, items, Len(items))
  BY FoldExists
<1>2. PlaceWrites(s, items) = q[Len(items)]
  BY DEF PlaceWrites, Fold
<1> QED BY <1>1, <1>2

-----------------------------------------------------------------------------
(* What the commits write besides the tasks: submissions, inbox, transcript *)

\* What requests and calls leave in the transcript.
TaskKinds == SaidKinds \cup {"result"}

\* The transcript only gets longer, by entries that no request left ...
Longer(es, fs) ==
  /\ Len(es) <= Len(fs)
  /\ \A i \in 1..Len(es) : fs[i] = es[i]
  /\ \A i \in (Len(es) + 1)..Len(fs) : fs[i].kind \notin SaidKinds

\* ... nor a call.
Grows(es, fs) ==
  /\ Len(es) <= Len(fs)
  /\ \A i \in 1..Len(es) : fs[i] = es[i]
  /\ \A i \in (Len(es) + 1)..Len(fs) : fs[i].kind \notin TaskKinds

\* From s to r tasks, run and partial stay.
Framed(s, r) ==
  /\ r \in Conv /\ Grows(s.entries, r.entries)
  /\ r.gens = s.gens /\ r.run = s.run /\ r.slots = s.slots /\ r.comps = s.comps
  /\ r.partial = s.partial /\ r.lost = s.lost /\ r.failure = s.failure

\* The same, with results of calls besides.
Lengthened(s, r) ==
  /\ r \in Conv /\ Longer(s.entries, r.entries)
  /\ r.gens = s.gens /\ r.run = s.run /\ r.slots = s.slots /\ r.comps = s.comps
  /\ r.partial = s.partial /\ r.lost = s.lost /\ r.failure = s.failure

LEMMA GrowsLonger == ASSUME NEW es, NEW fs, Grows(es, fs) PROVE Longer(es, fs)
  BY DEF Grows, Longer, TaskKinds

LEMMA GrowsSelf == ASSUME NEW es \in Seq(EntryType) PROVE Grows(es, es)
  BY DEF Grows

LEMMA GrowsTrans ==
  ASSUME NEW es \in Seq(EntryType), NEW fs \in Seq(EntryType), NEW gs \in Seq(EntryType),
         Grows(es, fs), Grows(fs, gs)
  PROVE  Grows(es, gs)
<1>1. Len(es) \in Nat /\ Len(fs) \in Nat /\ Len(gs) \in Nat
  OBVIOUS
<1>2. ASSUME NEW i \in (Len(es) + 1)..Len(gs) PROVE gs[i].kind \notin TaskKinds
  <2>1. CASE i <= Len(fs)
    BY SMTT(30), <1>1, <2>1 DEF Grows
  <2>2. CASE i > Len(fs)
    BY <1>1, <2>2 DEF Grows
  <2> QED BY <1>1, <2>1, <2>2
<1>3. \A i \in 1..Len(es) : gs[i] = es[i]
  BY <1>1 DEF Grows
<1> QED BY <1>1, <1>2, <1>3 DEF Grows

LEMMA GrowsAppend ==
  ASSUME NEW es \in Seq(EntryType), NEW fs \in Seq(EntryType),
         \A k \in 1..Len(fs) : fs[k].kind \notin TaskKinds
  PROVE  Grows(es, es \o fs) /\ es \o fs \in Seq(EntryType)
<1>1. Len(es) \in Nat /\ Len(fs) \in Nat /\ Len(es \o fs) = Len(es) + Len(fs) /\ es \o fs \in Seq(EntryType)
  OBVIOUS
<1>2. \A i \in 1..Len(es) : (es \o fs)[i] = es[i]
  OBVIOUS
<1>3. ASSUME NEW i \in (Len(es) + 1)..Len(es \o fs) PROVE (es \o fs)[i].kind \notin TaskKinds
  <2>1. i - Len(es) \in 1..Len(fs)
    BY <1>1
  <2>2. (es \o fs)[i] = fs[i - Len(es)]
    BY <1>1
  <2> QED BY <2>1, <2>2
<1> QED BY <1>1, <1>2, <1>3 DEF Grows

LEMMA LongerAppend ==
  ASSUME NEW es \in Seq(EntryType), NEW fs \in Seq(EntryType),
         \A k \in 1..Len(fs) : fs[k].kind \notin SaidKinds
  PROVE  Longer(es, es \o fs) /\ es \o fs \in Seq(EntryType)
<1>1. Len(es) \in Nat /\ Len(fs) \in Nat /\ Len(es \o fs) = Len(es) + Len(fs) /\ es \o fs \in Seq(EntryType)
  OBVIOUS
<1>2. \A i \in 1..Len(es) : (es \o fs)[i] = es[i]
  OBVIOUS
<1>3. ASSUME NEW i \in (Len(es) + 1)..Len(es \o fs) PROVE (es \o fs)[i].kind \notin SaidKinds
  <2>1. i - Len(es) \in 1..Len(fs)
    BY <1>1
  <2>2. (es \o fs)[i] = fs[i - Len(es)]
    BY <1>1
  <2> QED BY <2>1, <2>2
<1> QED BY <1>1, <1>2, <1>3 DEF Longer

LEMMA FramedSelf == ASSUME NEW s \in Conv PROVE Framed(s, s)
  BY GrowsSelf DEF Framed, Conv

LEMMA FramedTrans ==
  ASSUME NEW s \in Conv, NEW r, NEW t, Framed(s, r), Framed(r, t)
  PROVE  Framed(s, t)
<1>1. s.entries \in Seq(EntryType) /\ r.entries \in Seq(EntryType) /\ t.entries \in Seq(EntryType)
  BY DEF Framed, Conv
<1>2. Grows(s.entries, t.entries)
  BY <1>1, GrowsTrans DEF Framed
<1> QED BY <1>2 DEF Framed

SubStatus == {"queued", "placed", "done", "unanswered"}

LEMMA SettleFramed ==
  ASSUME NEW s \in Conv, NEW ids, NEW status \in SubStatus
  PROVE  /\ Framed(s, Settle(s, ids, status))
         /\ Settle(s, ids, status).inbox = s.inbox /\ Settle(s, ids, status).entries = s.entries
<1> DEFINE f == [i \in DOMAIN s.subs |->
                   IF i \in ids THEN [s.subs[i] EXCEPT !.status = status] ELSE s.subs[i]]
<1>1. s.subs \in Seq(Sub)
  BY DEF Conv
<1>2. f \in Seq(Sub)
  <2>1. ASSUME NEW i \in DOMAIN s.subs PROVE f[i] \in Sub
    <3>1. s.subs[i] \in Sub
      BY <1>1
    <3>2. [s.subs[i] EXCEPT !.status = status] \in Sub
      BY <3>1 DEF Sub, SubStatus
    <3> QED BY <3>1, <3>2
  <2>2. DOMAIN s.subs = 1..Len(s.subs) /\ Len(s.subs) \in Nat
    BY <1>1
  <2>3. f \in [1..Len(s.subs) -> Sub]
    BY <2>1, <2>2
  <2> QED BY <2>2, <2>3, IsSeq
<1>3. Settle(s, ids, status) = [s EXCEPT !.subs = f]
  BY DEF Settle
<1> HIDE DEF f
<1>4. [s EXCEPT !.subs = f] \in Conv
  BY <1>2 DEF Conv
<1>5. s.entries \in Seq(EntryType)
  BY DEF Conv
<1>6. Settle(s, ids, status).entries = s.entries
  BY <1>3 DEF Conv
<1> QED BY <1>3, <1>4, <1>5, <1>6, GrowsSelf DEF Framed, Conv

LEMMA EntryTyped ==
  ASSUME NEW kind, NEW n \in Nat, NEW m \in Nat,
         kind \in SaidKinds \cup {"user", "result", "handoff", "continuation"} \cup WriteKinds
  PROVE  Entry(kind, n, m) \in EntryType /\ Entry(kind, n, m).kind = kind
  BY DEF Entry, EntryType

\* A transcript with more entries.
LEMMA LongerFramed ==
  ASSUME NEW s \in Conv, NEW es \in Seq(EntryType), NEW r, r = [s EXCEPT !.entries = es],
         Grows(s.entries, es)
  PROVE  Framed(s, r) /\ r.inbox = s.inbox /\ r.subs = s.subs
<1>1. /\ r \in Conv /\ r.entries = es /\ r.subs = s.subs /\ r.inbox = s.inbox
      /\ r.gens = s.gens /\ r.run = s.run /\ r.slots = s.slots /\ r.comps = s.comps
      /\ r.partial = s.partial /\ r.lost = s.lost /\ r.failure = s.failure
  BY DEF Conv
<1> QED BY <1>1 DEF Framed

LEMMA AppendFramed ==
  ASSUME NEW s \in Conv, NEW e \in EntryType, e.kind \notin TaskKinds
  PROVE  Framed(s, AppendEntry(s, e)) /\ AppendEntry(s, e).inbox = s.inbox
                                      /\ AppendEntry(s, e).subs = s.subs
<1>1. s.entries \in Seq(EntryType) /\ <<e>> \in Seq(EntryType)
  BY DEF Conv
<1>2. Append(s.entries, e) = s.entries \o <<e>>
  BY <1>1
<1>3. Append(s.entries, e) \in Seq(EntryType) /\ Grows(s.entries, Append(s.entries, e))
  <2>1. \A k \in 1..Len(<<e>>) : <<e>>[k].kind \notin TaskKinds
    OBVIOUS
  <2> QED BY <1>1, <1>2, <2>1, GrowsAppend
<1>4. AppendEntry(s, e) = [s EXCEPT !.entries = Append(s.entries, e)]
  BY DEF AppendEntry
<1> QED BY <1>3, <1>4, LongerFramed

WriteItem == {item \in Item : item.mode \in WriteKinds}

LEMMA PlaceWriteFramed ==
  ASSUME NEW s \in Conv, NEW item \in WriteItem
  PROVE  Framed(s, PlaceWrite(s, item)) /\ PlaceWrite(s, item).inbox = s.inbox
<1>1. CASE IsStale(s, item)
  BY <1>1, SettleFramed DEF PlaceWrite, SubStatus
<1>2. CASE ~IsStale(s, item)
  <2> DEFINE e == Entry(item.mode, item.id, item.cut)
             r == Settle(s, {item.id}, "done")
  <2>1. item.mode \in WriteKinds /\ item.id \in Nat /\ item.cut \in Nat
    BY DEF WriteItem, Item
  <2>2. e \in EntryType /\ e.kind = item.mode
    BY <2>1, EntryTyped
  <2>3. e.kind \notin TaskKinds
    BY <2>1, <2>2 DEF WriteKinds, SaidKinds, TaskKinds
  <2>4. Framed(s, r) /\ r.inbox = s.inbox
    BY SettleFramed DEF SubStatus
  <2>5. PlaceWrite(s, item) = AppendEntry(r, e)
    BY <1>2 DEF PlaceWrite
  <2> HIDE DEF e, r
  <2>6. Framed(r, AppendEntry(r, e)) /\ AppendEntry(r, e).inbox = r.inbox
    BY <2>2, <2>3, <2>4, AppendFramed DEF Framed
  <2> QED BY <2>4, <2>5, <2>6, FramedTrans
<1> QED BY <1>1, <1>2

LEMMA PlaceWritesFramed ==
  ASSUME NEW s \in Conv, NEW items \in Seq(WriteItem)
  PROVE  Framed(s, PlaceWrites(s, items))
<1>1. Len(items) \in Nat
  OBVIOUS
<1>2. PICK q : Fold(q, s, items, Len(items)) /\ PlaceWrites(s, items) = q[Len(items)]
  BY <1>1, PlaceWritesFold
<1> DEFINE T == {k \in Nat : k <= Len(items) => Framed(s, q[k])}
<1>3. 0 \in T
  <2>1. q[0] = s
    BY <1>1, <1>2, FoldAt, 0 \in 0..Len(items)
  <2> QED BY <2>1, FramedSelf
<1>4. ASSUME NEW k \in Nat, k \in T PROVE k + 1 \in T
  <2> SUFFICES ASSUME k + 1 <= Len(items) PROVE Framed(s, q[k + 1])
    OBVIOUS
  <2>1. Framed(s, q[k])
    BY <1>1, <1>4
  <2>2. q[k + 1] = PlaceWrite(q[k], items[k + 1])
    BY <1>1, <1>2, FoldAt, k + 1 \in 0..Len(items), k + 1 # 0, (k + 1) - 1 = k
  <2>3. items[k + 1] \in WriteItem
    BY <1>1
  <2>4. Framed(q[k], q[k + 1])
    BY SMTT(30), <2>1, <2>2, <2>3, PlaceWriteFramed DEF Framed
  <2> QED BY <2>1, <2>4, FramedTrans
<1> HIDE DEF T
<1>5. Len(items) \in T
  BY <1>1, <1>3, <1>4, Induct
<1> QED BY <1>1, <1>2, <1>5 DEF T

LEMMA PlaceInputsFramed ==
  ASSUME NEW s \in Conv, NEW items \in Seq(Item)
  PROVE  Framed(s, PlaceInputs(s, items))
<1> DEFINE r == Settle(s, {items[k].id : k \in DOMAIN items}, "placed")
           es == [k \in DOMAIN items |-> Entry("user", items[k].id, 0)]
<1>1. Framed(s, r) /\ r.entries = s.entries
  BY SettleFramed DEF SubStatus
<1>2. r \in Conv /\ r.entries \in Seq(EntryType)
  BY <1>1 DEF Framed, Conv
<1>3. PlaceInputs(s, items) = [r EXCEPT !.entries = r.entries \o es]
  BY DEF PlaceInputs
<1>4. ASSUME NEW k \in DOMAIN items PROVE es[k] \in EntryType /\ es[k].kind = "user"
  <2>0. items[k] \in Item
    OBVIOUS
  <2>1. items[k].id \in Nat
    BY <2>0 DEF Item
  <2> QED BY <2>1, EntryTyped DEF SaidKinds
<1>5. DOMAIN items = 1..Len(items) /\ Len(items) \in Nat
  OBVIOUS
<1>6. es \in [1..Len(items) -> EntryType]
  BY <1>4, <1>5
<1>7. es \in Seq(EntryType) /\ Len(es) = Len(items)
  BY <1>5, <1>6, IsSeq
<1>8. \A k \in 1..Len(es) : es[k].kind \notin TaskKinds
  BY <1>4, <1>5, <1>7 DEF SaidKinds, TaskKinds
<1> HIDE DEF r, es
<1>9. r.entries \o es \in Seq(EntryType) /\ Grows(r.entries, r.entries \o es)
  BY <1>2, <1>7, <1>8, GrowsAppend
<1>10. Framed(r, PlaceInputs(s, items))
  BY <1>2, <1>3, <1>9, LongerFramed
<1> QED BY <1>1, <1>10, FramedTrans

LEMMA InboxFramed ==
  ASSUME NEW s \in Conv, NEW items \in Seq(Item)
  PROVE  Framed(s, [s EXCEPT !.inbox = items])
<1>1. [s EXCEPT !.inbox = items] \in Conv
  BY DEF Conv
<1>2. s.entries \in Seq(EntryType)
  BY DEF Conv
<1> QED BY <1>1, <1>2, GrowsSelf DEF Framed, Conv

LEMMA AtWrites ==
  ASSUME NEW items \in Seq(Item)
  PROVE  At(items, {i \in DOMAIN items : items[i].mode \in WriteKinds}) \in Seq(WriteItem)
<1> DEFINE S == {i \in DOMAIN items : items[i].mode \in WriteKinds}
<1>1. Len(items) \in Nat
  OBVIOUS
<1>2. PICK q : Walk(q, items, S, Len(items)) /\ At(items, S) = q[Len(items)]
  BY <1>1, AtWalk
<1> DEFINE T == {k \in Nat : k <= Len(items) => q[k] \in Seq(WriteItem)}
<1>3. 0 \in T
  <2>1. q[0] = <<>>
    BY <1>1, <1>2, WalkAt, 0 \in 0..Len(items)
  <2>2. <<>> \in Seq(WriteItem)
    OBVIOUS
  <2>3. 0 <= Len(items) => q[0] \in Seq(WriteItem)
    BY <2>1, <2>2
  <2> QED BY <2>3
<1>4. ASSUME NEW k \in Nat, k \in T PROVE k + 1 \in T
  <2> SUFFICES ASSUME k + 1 <= Len(items) PROVE q[k + 1] \in Seq(WriteItem)
    OBVIOUS
  <2>1. q[k] \in Seq(WriteItem)
    BY <1>1, <1>4
  <2>2. q[k + 1] = IF k + 1 \in S THEN Append(q[k], items[k + 1]) ELSE q[k]
    BY <1>1, <1>2, WalkAt, k + 1 \in 0..Len(items), k + 1 # 0, (k + 1) - 1 = k
  <2>3. k + 1 \in S => items[k + 1] \in WriteItem
    BY <1>1 DEF WriteItem
  <2> QED BY <2>1, <2>2, <2>3
<1> HIDE DEF T
<1>5. Len(items) \in T
  BY <1>1, <1>3, <1>4, Induct
<1> QED BY <1>1, <1>2, <1>5 DEF T

LEMMA BoundaryFramed ==
  ASSUME NEW s \in Conv, NEW at
  PROVE  Framed(s, ApplyBoundary(s, at).conv) /\ ApplyBoundary(s, at).users \in Seq(Nat)
<1> DEFINE items == s.inbox
           users == Picked(items, "steer", settings.steering) \cup
                    (IF at = "final" \/ HasQueuedReset(items)
                     THEN Picked(items, "followUp", settings.followUp) ELSE {})
           writes == {i \in DOMAIN items : items[i].mode \in WriteKinds}
           chosen == At(items, users)
           written == PlaceWrites(s, At(items, writes))
           placed == PlaceInputs(written, chosen)
           rest == At(items, DOMAIN items \ (writes \cup users))
           ids == [k \in DOMAIN chosen |-> chosen[k].id]
<1>1. items \in Seq(Item)
  BY DEF Conv
<1>2. chosen \in Seq(Item) /\ rest \in Seq(Item)
  BY <1>1, AtType
<1>3. At(items, writes) \in Seq(WriteItem)
  BY <1>1, AtWrites
<1>4. ApplyBoundary(s, at).conv = [placed EXCEPT !.inbox = rest] /\ ApplyBoundary(s, at).users = ids
  BY DEF ApplyBoundary
<1>5. ids \in Seq(Nat)
  <2> HIDE DEF chosen
  <2>1. DOMAIN chosen = 1..Len(chosen) /\ Len(chosen) \in Nat
    BY <1>2
  <2>2. ASSUME NEW k \in DOMAIN chosen PROVE chosen[k].id \in Nat
    <3>1. chosen[k] \in Item
      BY <1>2
    <3> QED BY <3>1 DEF Item
  <2>3. ids \in [1..Len(chosen) -> Nat]
    BY <2>1, <2>2
  <2> QED BY <2>1, <2>3, IsSeq
<1> HIDE DEF chosen, rest, writes, items, ids
<1>6. Framed(s, written)
  BY <1>3, PlaceWritesFramed
<1> HIDE DEF written
<1>7. Framed(written, placed)
  BY <1>2, <1>6, PlaceInputsFramed DEF Framed
<1> HIDE DEF placed
<1>8. Framed(placed, [placed EXCEPT !.inbox = rest])
  BY <1>2, <1>7, InboxFramed DEF Framed
<1>9. Framed(s, [placed EXCEPT !.inbox = rest])
  BY <1>6, <1>7, <1>8, FramedTrans
<1> QED BY <1>4, <1>5, <1>9

LEMMA WithdrawFramed ==
  ASSUME NEW s \in Conv, NEW ids
  PROVE  Framed(s, Withdraw(s, ids))
<1> DEFINE r == Settle(s, ids, "unanswered")
           items == At(r.inbox, {k \in DOMAIN r.inbox : r.inbox[k].id \notin ids})
<1>1. Framed(s, r) /\ r.inbox = s.inbox
  BY SettleFramed DEF SubStatus
<1>2. r \in Conv /\ r.inbox \in Seq(Item)
  BY <1>1 DEF Framed, Conv
<1>3. items \in Seq(Item)
  BY <1>2, AtType
<1>4. Withdraw(s, ids) = [r EXCEPT !.inbox = items]
  BY DEF Withdraw
<1> HIDE DEF r, items
<1>5. Framed(r, [r EXCEPT !.inbox = items])
  BY <1>2, <1>3, InboxFramed
<1> QED BY <1>1, <1>4, <1>5, FramedTrans

-----------------------------------------------------------------------------
(* Runs: started, handed over and ended                                     *)

LEMMA NewGenerationTyped == NewGeneration \in Gen
  BY DEF NewGeneration, Gen, Statuses

LEMMA NoRunTyped == NoRun \in Run
  BY DEF NoRun, Run

\* From s to r another generation exists; the runs' own records may change.
Created(s, r) ==
  /\ r \in Conv /\ Grows(s.entries, r.entries) /\ r.gens = Append(s.gens, NewGeneration)
  /\ r.comps = s.comps /\ r.lost = s.lost /\ r.slots \in {s.slots, <<>>}
  /\ r.partial \in {s.partial, "none"}

LEMMA CreateGenerationCreates ==
  ASSUME NEW s \in Conv
  PROVE  /\ Created(s, CreateGeneration(s))
         /\ CreateGeneration(s).run = s.run /\ CreateGeneration(s).failure = s.failure
         /\ CreateGeneration(s).slots = s.slots /\ CreateGeneration(s).partial = s.partial
<1> DEFINE gens == Append(s.gens, NewGeneration)
           r == CreateGeneration(s)
<1>1. gens \in Seq(Gen)
  BY NewGenerationTyped DEF Conv
<1>2. r = [s EXCEPT !.gens = gens]
  BY DEF CreateGeneration
<1> HIDE DEF gens
<1>3. /\ r \in Conv /\ r.gens = gens /\ r.run = s.run /\ r.failure = s.failure /\ r.slots = s.slots
      /\ r.partial = s.partial /\ r.comps = s.comps /\ r.lost = s.lost /\ r.entries = s.entries
  BY <1>1, <1>2 DEF Conv
<1>4. s.entries \in Seq(EntryType)
  BY DEF Conv
<1> QED BY <1>3, <1>4, GrowsSelf DEF Created, gens

LEMMA StartRunCreates ==
  ASSUME NEW s \in Conv, NEW inputs \in Seq(Nat), NEW keep \in BOOLEAN
  PROVE  LET r == StartRun(s, inputs, keep) IN
         /\ Created(s, r) /\ r.run = [NoRun EXCEPT !.task = Len(s.gens) + 1, !.inputs = inputs]
         /\ r.slots = s.slots /\ r.partial = s.partial
<1> DEFINE c == CreateGeneration(s)
           run == [NoRun EXCEPT !.task = Len(s.gens) + 1, !.inputs = inputs]
           r == StartRun(s, inputs, keep)
<1>1. /\ Created(s, c) /\ c.run = s.run /\ c.failure = s.failure /\ c.slots = s.slots
      /\ c.partial = s.partial /\ c \in Conv
  BY CreateGenerationCreates DEF Created
<1>2. Len(s.gens) + 1 \in Nat
  BY DEF Conv
<1>3. run \in Run
  BY <1>2 DEF NoRun, Run
<1> DEFINE failure == IF keep THEN c.failure ELSE <<>>
<1>4. r = [c EXCEPT !.run = run, !.failure = failure]
  BY DEF StartRun
<1> HIDE DEF c, run, r
<1>7. failure \in Seq(Nat)
  BY <1>1 DEF Conv
<1> HIDE DEF failure
<1>5. /\ r \in Conv /\ r.run = run /\ r.slots = c.slots /\ r.partial = c.partial /\ r.gens = c.gens
      /\ r.comps = c.comps /\ r.lost = c.lost /\ r.entries = c.entries
  BY <1>1, <1>3, <1>4, <1>7 DEF Conv
<1>6. Created(s, r)
  BY <1>1, <1>5 DEF Created
<1> QED BY <1>1, <1>5, <1>6 DEF r, run

\* From s to r the run of s is over, and another one may have started.
RunOver(s, r) ==
  /\ r \in Conv /\ Grows(s.entries, r.entries)
  /\ r.comps = s.comps /\ r.lost = s.lost /\ r.slots = <<>> /\ r.partial = "none"
  /\ \/ r.gens = s.gens /\ r.run = NoRun
     \/ r.gens = Append(s.gens, NewGeneration) /\ r.run.task = Len(s.gens) + 1

\* No run is started, or one.
LEMMA StartNextOpens ==
  ASSUME NEW b, b.conv \in Conv, b.users \in Seq(Nat), NEW keep \in BOOLEAN
  PROVE  LET r == StartNext(b, keep) IN
         \/ r = b.conv
         \/ /\ Created(b.conv, r) /\ r.run.task = Len(b.conv.gens) + 1
            /\ r.slots = b.conv.slots /\ r.partial = b.conv.partial
<1> DEFINE r == StartNext(b, keep)
<1>1. CASE b.users = <<>>
  BY <1>1 DEF StartNext
<1>2. CASE b.users # <<>>
  <2> DEFINE t == StartRun(b.conv, b.users, keep)
  <2>1. r = t
    BY <1>2 DEF StartNext
  <2>2. /\ Created(b.conv, t) /\ t.run = [NoRun EXCEPT !.task = Len(b.conv.gens) + 1, !.inputs = b.users]
        /\ t.slots = b.conv.slots /\ t.partial = b.conv.partial
    BY ZenonT(30), StartRunCreates
  <2> HIDE DEF t
  <2>3. t.run.task = Len(b.conv.gens) + 1
    BY <2>2 DEF NoRun
  <2> QED BY <2>1, <2>2, <2>3
<1> QED BY <1>1, <1>2

LEMMA EndRunEnds ==
  ASSUME NEW s \in Conv, NEW g, s.run.task = g, NEW status \in {"done", "unanswered"}
  PROVE  LET r == EndRun(s, g, status) IN
         /\ RunOver(s, r) /\ r.run = NoRun /\ r.gens = s.gens /\ r.slots = <<>> /\ r.inbox = s.inbox
         /\ r.entries = s.entries
<1> DEFINE inputs == s.run.inputs
           done == Settle(s, ToSet(inputs), "done")
           failed == Settle(s, ToSet(inputs), status)
           r == EndRun(s, g, status)
           settled == CASE s.run.task # g -> s
                        [] s.run.task = g /\ status = "done" -> [done EXCEPT !.run = NoRun]
                        [] s.run.task = g /\ status # "done" /\ s.run.answered ->
                             [s EXCEPT !.run = NoRun]
                        [] OTHER -> [failed EXCEPT !.run = NoRun, !.failure = inputs]
<1>1. Framed(s, done) /\ done.inbox = s.inbox /\ done.entries = s.entries
  BY SettleFramed DEF SubStatus
<1>2. Framed(s, failed) /\ failed.inbox = s.inbox /\ failed.entries = s.entries
  BY SettleFramed DEF SubStatus
<1>3. inputs \in Seq(Nat) /\ s.run.answered \in BOOLEAN
  BY DEF Conv, Run
<1>4. r = [settled EXCEPT !.partial = "none", !.slots = <<>>]
  BY DEF EndRun
<1> HIDE DEF done, failed, inputs, r
<1>5. \/ settled = [done EXCEPT !.run = NoRun]
      \/ settled = [s EXCEPT !.run = NoRun]
      \/ settled = [failed EXCEPT !.run = NoRun, !.failure = inputs]
  BY <1>3
<1>6. ASSUME NEW c, Framed(s, c), c.inbox = s.inbox, c.entries = s.entries,
             NEW d, d = [c EXCEPT !.run = NoRun]
      PROVE  /\ d \in Conv /\ d.run = NoRun /\ d.gens = s.gens /\ d.inbox = s.inbox
             /\ d.entries = s.entries /\ d.comps = s.comps /\ d.lost = s.lost
  BY <1>6, NoRunTyped DEF Framed, Conv
<1>7. ASSUME NEW c, Framed(s, c), c.inbox = s.inbox, c.entries = s.entries,
             NEW d, d = [c EXCEPT !.run = NoRun, !.failure = inputs]
      PROVE  /\ d \in Conv /\ d.run = NoRun /\ d.gens = s.gens /\ d.inbox = s.inbox
             /\ d.entries = s.entries /\ d.comps = s.comps /\ d.lost = s.lost
  BY <1>3, <1>7, NoRunTyped DEF Framed, Conv
<1>8. /\ settled \in Conv /\ settled.run = NoRun /\ settled.gens = s.gens
      /\ settled.inbox = s.inbox /\ settled.entries = s.entries /\ settled.comps = s.comps
      /\ settled.lost = s.lost
  <2> HIDE DEF settled
  <2>1. CASE settled = [done EXCEPT !.run = NoRun]
    BY <1>1, <1>6, <2>1
  <2>2. CASE settled = [s EXCEPT !.run = NoRun]
    BY <1>6, <2>2, FramedSelf
  <2>3. CASE settled = [failed EXCEPT !.run = NoRun, !.failure = inputs]
    BY <1>2, <1>7, <2>3
  <2> QED BY <1>5, <2>1, <2>2, <2>3
<1> HIDE DEF settled
<1>9. /\ r \in Conv /\ r.run = NoRun /\ r.gens = s.gens /\ r.inbox = s.inbox /\ r.entries = s.entries
      /\ r.comps = s.comps /\ r.lost = s.lost /\ r.slots = <<>> /\ r.partial = "none"
  <2>1. <<>> \in Seq(Slot)
    OBVIOUS
  <2>2. settled \in Conv
    BY <1>8
  <2>3. /\ r \in Conv /\ r.run = settled.run /\ r.gens = settled.gens /\ r.inbox = settled.inbox
        /\ r.entries = settled.entries /\ r.comps = settled.comps /\ r.lost = settled.lost
        /\ r.slots = <<>> /\ r.partial = "none"
    BY <1>4, <2>1, <2>2 DEF Conv
  <2> QED BY <1>8, <2>3
<1>10. s.entries \in Seq(EntryType)
  BY DEF Conv
<1>11. RunOver(s, r)
  BY <1>9, <1>10, GrowsSelf DEF RunOver
<1> QED BY <1>9, <1>11 DEF r

Causes == {"", "threshold", "overflow", "nomodel", "limit", "fault"}

Over(cause) == [NewGeneration EXCEPT !.phase = "ended", !.cause = cause]

\* From s to r generation g ended, with its run or handing it on.
Ends(s, r, g, cause) ==
  /\ r \in Conv /\ Grows(s.entries, r.entries)
  /\ r.comps = s.comps /\ r.lost = s.lost /\ r.slots \in {s.slots, <<>>} /\ r.partial = "none"
  /\ \/ r.gens = [s.gens EXCEPT ![g] = Over(cause)] /\ r.run = NoRun
     \/ r.gens = [Append(s.gens, NewGeneration) EXCEPT ![g] = Over(cause)]
        /\ r.run.task = Len(s.gens) + 1

LEMMA OverTyped == ASSUME NEW cause \in Causes PROVE Over(cause) \in Gen
  BY NewGenerationTyped DEF Over, Gen, Causes

LEMMA EndEnds ==
  ASSUME NEW s \in Conv, NEW g \in DOMAIN s.gens, NEW cause \in Causes, NEW m, RunOver(s, m)
  PROVE  Ends(s, End(m, g, cause), g, cause)
<1> DEFINE gens == [m.gens EXCEPT ![g] = Over(cause)]
           r == End(m, g, cause)
<1>1. m \in Conv /\ m.gens \in Seq(Gen) /\ s.gens \in Seq(Gen)
  BY DEF RunOver, Conv
<1>2. gens \in Seq(Gen)
  BY <1>1, OverTyped, SeqExcept
<1>3. r = [m EXCEPT !.gens = gens]
  BY DEF End, Over
<1> HIDE DEF r
<1>4. /\ r \in Conv /\ r.gens = gens
      /\ r.entries = m.entries /\ r.comps = m.comps /\ r.lost = m.lost
      /\ r.slots = m.slots /\ r.partial = m.partial /\ r.run = m.run
  <2> HIDE DEF gens
  <2> QED BY <1>1, <1>2, <1>3 DEF Conv
<1>5. \/ r.gens = [s.gens EXCEPT ![g] = Over(cause)] /\ r.run = NoRun
      \/ r.gens = [Append(s.gens, NewGeneration) EXCEPT ![g] = Over(cause)]
         /\ r.run.task = Len(s.gens) + 1
  BY <1>4 DEF RunOver
<1>6. Ends(s, r, g, cause)
  BY <1>4, <1>5 DEF RunOver, Ends
<1> QED BY <1>6 DEF r

\* The run of s is over in e; the commit goes on to b.conv, and starts the next.
LEMMA OverThenNext ==
  ASSUME NEW s \in Conv, NEW e, RunOver(s, e), e.run = NoRun, e.gens = s.gens,
         NEW b, Framed(e, b.conv), b.users \in Seq(Nat), NEW keep \in BOOLEAN
  PROVE  RunOver(s, StartNext(b, keep)) /\ RunOver(s, b.conv)
<1> DEFINE r == StartNext(b, keep)
           f == b.conv
<1>1. e \in Conv /\ f \in Conv
  BY DEF RunOver, Framed
<1>2. \/ r = f
      \/ /\ Created(f, r) /\ r.run.task = Len(f.gens) + 1 /\ r.slots = f.slots
         /\ r.partial = f.partial
  BY <1>1, StartNextOpens
<1> HIDE DEF f, r
<1>3. Framed(e, f)
  BY DEF f
<1>4. s.entries \in Seq(EntryType) /\ e.entries \in Seq(EntryType) /\ f.entries \in Seq(EntryType)
  BY <1>1 DEF Conv
<1>5. Grows(s.entries, f.entries)
  BY <1>3, <1>4, GrowsTrans DEF RunOver, Framed
<1>6. RunOver(s, f)
  BY <1>1, <1>3, <1>5 DEF RunOver, Framed
<1>7. ASSUME Created(f, r), r.run.task = Len(f.gens) + 1, r.slots = f.slots, r.partial = f.partial
      PROVE  RunOver(s, r)
  <2>1. r.entries \in Seq(EntryType)
    BY <1>7 DEF Created, Conv
  <2>2. Grows(s.entries, r.entries)
    BY <1>4, <1>5, <1>7, <2>1, GrowsTrans DEF Created
  <2> QED BY <1>3, <1>6, <1>7, <2>2 DEF RunOver, Created, Framed
<1>8. RunOver(s, r)
  BY <1>2, <1>6, <1>7
<1> QED BY <1>6, <1>8 DEF r, f

LEMMA EndFailedRunEnds ==
  ASSUME NEW s \in Conv, NEW g, s.run.task = g, settings \in Setting
  PROVE  RunOver(s, EndFailedRun(s, g))
<1> DEFINE e == EndRun(s, g, "unanswered")
<1>1. /\ RunOver(s, e) /\ e.run = NoRun /\ e.gens = s.gens
  BY EndRunEnds
<1>2. e \in Conv
  BY <1>1 DEF RunOver
<1>3. settings.policy \in {"keep", "continue", "withdraw"}
  BY DEF Setting
<1>4. EndFailedRun(s, g) = CASE settings.policy = "keep" -> e
                             [] settings.policy = "withdraw" -> WithdrawQueuedInputs(e)
                             [] settings.policy = "continue" -> StartNext(ApplyBoundary(e, "final"), TRUE)
  BY DEF EndFailedRun
<1> HIDE DEF e
<1>5. CASE settings.policy = "keep"
  BY <1>1, <1>4, <1>5
<1>6. CASE settings.policy = "withdraw"
  <2> DEFINE b == [conv |-> WithdrawQueuedInputs(e), users |-> <<>>]
  <2>1. Framed(e, b.conv)
    BY <1>2, WithdrawFramed DEF WithdrawQueuedInputs
  <2>2. b.users \in Seq(Nat)
    OBVIOUS
  <2>3. RunOver(s, b.conv)
    BY <1>1, <2>1, <2>2, OverThenNext
  <2> QED BY <1>4, <1>6, <2>3
<1>7. CASE settings.policy = "continue"
  <2>1. Framed(e, ApplyBoundary(e, "final").conv) /\ ApplyBoundary(e, "final").users \in Seq(Nat)
    BY <1>2, BoundaryFramed
  <2>2. RunOver(s, StartNext(ApplyBoundary(e, "final"), TRUE))
    BY <1>1, <2>1, OverThenNext
  <2> QED BY <1>4, <1>7, <2>2
<1> QED BY <1>3, <1>5, <1>6, <1>7

LEMMA FramedThenOver ==
  ASSUME NEW s \in Conv, NEW f, Framed(s, f), NEW r, RunOver(f, r)
  PROVE  RunOver(s, r)
<1>1. s.entries \in Seq(EntryType) /\ f.entries \in Seq(EntryType) /\ r.entries \in Seq(EntryType)
  BY DEF Framed, RunOver, Conv
<1>2. Grows(s.entries, r.entries)
  BY <1>1, GrowsTrans DEF Framed, RunOver
<1> QED BY <1>2 DEF Framed, RunOver

LEMMA BoundaryRecord ==
  ASSUME NEW s, NEW at, NEW x
  PROVE  /\ [ApplyBoundary(s, at) EXCEPT !.conv = x].conv = x
         /\ [ApplyBoundary(s, at) EXCEPT !.conv = x].users = ApplyBoundary(s, at).users
  BY DEF ApplyBoundary

\* The end of an answered run, without the end of its generation.
LEMMA AnsweredOver ==
  ASSUME NEW s \in Conv, NEW g, s.run.task = g, NEW at, NEW status \in {"done", "unanswered"},
         NEW keep \in BOOLEAN
  PROVE  RunOver(s, StartNext([ApplyBoundary(s, at) EXCEPT
                                 !.conv = EndRun(ApplyBoundary(s, at).conv, g, status)], keep))
<1> DEFINE f == ApplyBoundary(s, at).conv
           e == EndRun(f, g, status)
           b == [ApplyBoundary(s, at) EXCEPT !.conv = e]
<1>1. Framed(s, f) /\ ApplyBoundary(s, at).users \in Seq(Nat)
  BY BoundaryFramed
<1>2. f \in Conv /\ f.run.task = g
  BY <1>1 DEF Framed
<1>3. b.conv = e /\ b.users \in Seq(Nat)
  BY <1>1, BoundaryRecord
<1> HIDE DEF f
<1>4. RunOver(f, e) /\ e.run = NoRun /\ e.gens = f.gens
  BY <1>2, EndRunEnds
<1>5. e \in Conv
  BY <1>4 DEF RunOver
<1> HIDE DEF e, b
<1>6. Framed(e, b.conv)
  BY <1>3, <1>5, FramedSelf
<1>7. RunOver(f, StartNext(b, keep))
  BY <1>2, <1>3, <1>4, <1>6, OverThenNext
<1>8. RunOver(s, StartNext(b, keep))
  BY <1>1, <1>7, FramedThenOver
<1> QED BY <1>8 DEF b, e, f

-----------------------------------------------------------------------------
(* What a step keeps of the invariant                                       *)

\* The transcript only gets longer, by at most one entry that a request left:
\* of request m of generation g, which had none.
Says(es, fs, g, m) ==
  /\ Len(es) <= Len(fs)
  /\ \A i \in 1..Len(es) : fs[i] = es[i]
  /\ \A i \in (Len(es) + 1)..Len(fs) : fs[i].kind \in SaidKinds =>
       /\ fs[i].n = g /\ fs[i].m = m /\ ~SaidBy(es, g, m)
       /\ \A j \in (Len(es) + 1)..Len(fs) : fs[j].kind \in SaidKinds => j = i

LEMMA GrowsSays ==
  ASSUME NEW es, NEW fs, NEW g, NEW m, Grows(es, fs)
  PROVE  Says(es, fs, g, m)
  BY DEF Grows, Says, TaskKinds

LEMMA GrowsThenSays ==
  ASSUME NEW es \in Seq(EntryType), NEW fs \in Seq(EntryType), NEW hs \in Seq(EntryType),
         NEW g, NEW m, Grows(es, fs), Says(fs, hs, g, m)
  PROVE  Says(es, hs, g, m)
<1>1. Len(es) \in Nat /\ Len(fs) \in Nat /\ Len(hs) \in Nat /\ DOMAIN es = 1..Len(es)
      /\ DOMAIN fs = 1..Len(fs)
  OBVIOUS
<1>2. \A i \in 1..Len(es) : hs[i] = es[i]
  BY <1>1 DEF Grows, Says, TaskKinds
<1>3. SaidBy(es, g, m) => SaidBy(fs, g, m)
  BY <1>1 DEF Grows, SaidBy
<1>4. ASSUME NEW i \in (Len(es) + 1)..Len(hs), hs[i].kind \in SaidKinds
      PROVE  i \in (Len(fs) + 1)..Len(hs)
  <2>1. CASE i <= Len(fs)
    <3>1. hs[i] = fs[i] /\ fs[i].kind \notin SaidKinds
      BY <1>1, <2>1 DEF Grows, Says, TaskKinds
    <3> QED BY <1>4, <3>1
  <2> QED BY <1>1, <2>1
<1>5. ASSUME NEW i \in (Len(es) + 1)..Len(hs), hs[i].kind \in SaidKinds
      PROVE  /\ hs[i].n = g /\ hs[i].m = m /\ ~SaidBy(es, g, m)
             /\ \A j \in (Len(es) + 1)..Len(hs) : hs[j].kind \in SaidKinds => j = i
  <2>1. i \in (Len(fs) + 1)..Len(hs)
    BY <1>4, <1>5
  <2>2. /\ hs[i].n = g /\ hs[i].m = m /\ ~SaidBy(fs, g, m)
        /\ \A j \in (Len(fs) + 1)..Len(hs) : hs[j].kind \in SaidKinds => j = i
    BY <1>5, <2>1 DEF Says
  <2> QED BY <1>3, <1>4, <2>2
<1> QED BY <1>1, <1>2, <1>5 DEF Grows, Says, TaskKinds

LEMMA SaysThenLonger ==
  ASSUME NEW es \in Seq(EntryType), NEW fs \in Seq(EntryType), NEW hs \in Seq(EntryType),
         NEW g, NEW m, Says(es, fs, g, m), Longer(fs, hs)
  PROVE  Says(es, hs, g, m)
<1>1. Len(es) \in Nat /\ Len(fs) \in Nat /\ Len(hs) \in Nat
  OBVIOUS
<1>2. \A i \in 1..Len(es) : hs[i] = es[i]
  BY <1>1 DEF Longer, Says
<1>3. ASSUME NEW i \in (Len(es) + 1)..Len(hs), hs[i].kind \in SaidKinds
      PROVE  i \in (Len(es) + 1)..Len(fs) /\ hs[i] = fs[i]
  <2>1. i <= Len(fs)
    BY <1>1, <1>3 DEF Longer
  <2> QED BY <1>1, <2>1 DEF Longer, Says
<1>4. ASSUME NEW i \in (Len(es) + 1)..Len(hs), hs[i].kind \in SaidKinds
      PROVE  /\ hs[i].n = g /\ hs[i].m = m /\ ~SaidBy(es, g, m)
             /\ \A j \in (Len(es) + 1)..Len(hs) : hs[j].kind \in SaidKinds => j = i
  <2>1. i \in (Len(es) + 1)..Len(fs) /\ hs[i] = fs[i]
    BY <1>3, <1>4
  <2>2. /\ fs[i].n = g /\ fs[i].m = m /\ ~SaidBy(es, g, m)
        /\ \A j \in (Len(es) + 1)..Len(fs) : fs[j].kind \in SaidKinds => j = i
    BY <1>4, <2>1 DEF Says
  <2>3. \A j \in (Len(es) + 1)..Len(hs) : hs[j].kind \in SaidKinds => j = i
    BY <1>3, <2>2
  <2> QED BY <2>1, <2>2, <2>3
<1> QED BY <1>1, <1>2, <1>4 DEF Longer, Says

LEMMA SaysThenGrows ==
  ASSUME NEW es \in Seq(EntryType), NEW fs \in Seq(EntryType), NEW hs \in Seq(EntryType),
         NEW g, NEW m, Says(es, fs, g, m), Grows(fs, hs)
  PROVE  Says(es, hs, g, m)
  BY GrowsLonger, SaysThenLonger

\* The slots stay or go, and the transcript keeps what it has.
SlotsKept(s, r) ==
  /\ s.slots = r.slots \/ r.slots = <<>>
  /\ Len(s.entries) <= Len(r.entries) /\ \A i \in 1..Len(s.entries) : r.entries[i] = s.entries[i]

LEMMA SlotsKeep ==
  ASSUME ConvInv, conv' \in Conv, SlotsKept(conv, conv')
  PROVE  CallsKnown' /\ SlotsOnce'
<1>1. /\ DOMAIN conv.entries = 1..Len(conv.entries) /\ Len(conv.entries) \in Nat
      /\ DOMAIN conv'.entries = 1..Len(conv'.entries) /\ Len(conv'.entries) \in Nat
  BY DEF ConvInv, TypeOK, Conv
<1>2. CallsKnown'
  BY <1>1 DEF ConvInv, CallsKnown, SlotsKept
<1>3. CASE conv'.slots = conv.slots
  BY <1>2, <1>3 DEF ConvInv, SlotsOnce, UnsafeRunsOnce
<1>4. CASE conv'.slots = <<>>
  BY <1>2, <1>4 DEF SlotsOnce, UnsafeRunsOnce
<1> QED BY <1>2, <1>3, <1>4 DEF SlotsKept

\* Of a task's record: what may not fly, what it may still send, what it owes.
TaskSound(t, retries) ==
  LET paid == t.attempt + (IF t.comp = 0 THEN 0 ELSE 1) + t.resent
  IN  /\ t.fly # "none" => /\ t.status = "running" /\ ~t.marked
                           /\ t.phase = IF t.fly = "prepared" THEN "prepare" ELSE "request"
      /\ t.attempt <= retries + (IF t.phase = "retry" THEN 0 ELSE 1)
      /\ t.sent <= paid
      /\ t.phase = "prepare" \/ Unsent(t) => t.sent < paid

Tracked(t) ==
  \/ Polls(t)
  \/ t.phase = "ended" /\ t.cause \in {"nomodel", "fault", "limit"}

LEMMA TasksSound ==
  /\ Flying /\ Charged <=> \A h \in Gens : TaskSound(conv.gens[h], settings.retries)
  /\ JobTracked <=> \A h \in jobs : Tracked(conv.gens[h])
  BY DEF Flying, Charged, TaskSound, JobTracked, Tracked

\* u still owes and may still send what t does, and flies no more than t.
Weaker(t, u) ==
  /\ u.phase = t.phase /\ u.poll = t.poll /\ u.sent = t.sent /\ u.comp = t.comp
  /\ u.attempt = t.attempt /\ u.cause = t.cause
  /\ u.fly \in {"none", t.fly} /\ (u.fly # "none" => u.status = t.status /\ u.marked = t.marked)
  /\ t.resent \in Nat /\ u.resent \in Nat /\ t.resent <= u.resent
  /\ Unsent(u) => Unsent(t) \/ t.resent < u.resent

\* The names of ConvInv that every step has to keep, whatever it does.
Bounded ==
  /\ settings' = settings /\ trouble' \in 0..MaxTrouble /\ conv' \in Conv
  /\ CallsKnown' /\ SlotsOnce'

LEMMA InvFacts ==
  ASSUME ConvInv
  PROVE  /\ settings \in SettingsSet /\ settings \in Setting /\ conv \in Conv
         /\ jobs \subseteq Gens /\ conv.run.task \in {0} \cup Gens
         /\ Gens = 1..Len(conv.gens) /\ Len(conv.gens) \in Nat
         /\ \A g \in Gens : conv.gens[g] \in Gen /\ TaskSound(conv.gens[g], settings.retries)
         /\ \A g \in jobs : Tracked(conv.gens[g])
         /\ conv.entries \in Seq(EntryType) /\ Len(conv.entries) \in Nat
         /\ DOMAIN conv.entries = 1..Len(conv.entries)
         /\ \A g \in Gens : conv.gens[g].phase # "ended" => g = conv.run.task /\ Busy(conv)
<1>1. settings \in SettingsSet /\ settings \in Setting /\ conv \in Conv
      /\ jobs \subseteq Gens /\ conv.run.task \in {0} \cup Gens
  BY SettingsAssumption DEF ConvInv, TypeOK
<1>2. conv.gens \in Seq(Gen) /\ conv.entries \in Seq(EntryType)
  BY <1>1 DEF Conv
<1>3. \A g \in Gens : conv.gens[g] \in Gen
  BY <1>2 DEF Gens
<1>4. \A g \in Gens : TaskSound(conv.gens[g], settings.retries)
  BY TasksSound DEF ConvInv
<1>5. \A g \in jobs : Tracked(conv.gens[g])
  BY TasksSound DEF ConvInv
<1>6. \A g \in Gens : conv.gens[g].phase # "ended" => g = conv.run.task /\ Busy(conv)
  <2> SUFFICES ASSUME NEW g \in Gens, conv.gens[g].phase # "ended"
               PROVE  g = conv.run.task /\ Busy(conv)
    OBVIOUS
  <2>1. g \in {h \in Gens : conv.gens[h].phase # "ended"}
    OBVIOUS
  <2>2. g \in IF Busy(conv) THEN {conv.run.task} ELSE {}
    BY <2>1 DEF ConvInv, RunOwned
  <2> QED BY <2>2
<1> QED BY <1>1, <1>2, <1>3, <1>4, <1>5, <1>6 DEF Gens

LEMMA WeakerSelf == ASSUME NEW t \in Gen PROVE Weaker(t, t)
<1>1. t.resent \in Nat /\ t.resent <= t.resent
  <2>1. t.resent \in Nat
    BY DEF Gen
  <2> QED BY <2>1
<1> QED BY <1>1 DEF Weaker

\* A step that writes no answer, and weakens the tasks.
LEMMA WeakStep ==
  ASSUME ConvInv, Bounded, jobs' = jobs, conv'.run = conv.run,
         Len(conv'.gens) = Len(conv.gens), \A g \in Gens : Weaker(conv.gens[g], conv'.gens[g]),
         Longer(conv.entries, conv'.entries), Comps \subseteq Comps',
         conv'.partial # "none" => conv.partial # "none"
  PROVE  ConvInv'
<1>1. Gens' = Gens
  BY DEF Bounded, Conv, Gens, ConvInv, TypeOK
<1> DEFINE t(g) == conv.gens[g]
           u(g) == conv'.gens[g]
<1>2. /\ conv.entries \in Seq(EntryType) /\ conv'.entries \in Seq(EntryType)
      /\ DOMAIN conv.entries = 1..Len(conv.entries) /\ DOMAIN conv'.entries = 1..Len(conv'.entries)
      /\ Len(conv.entries) \in Nat /\ Len(conv'.entries) \in Nat
  BY InvFacts DEF Bounded, Conv
<1>3. TypeOK'
  <2>1. \A g \in Gens : u(g).comp = t(g).comp /\ t(g).comp \in {0} \cup Comps
    BY DEF Weaker, ConvInv, TypeOK
  <2> QED BY <1>1, <2>1 DEF Bounded, ConvInv, TypeOK
<1>4. RunOwned'
  <2>1. \A g \in Gens : u(g).phase = t(g).phase
    BY DEF Weaker
  <2>2. {g \in Gens : u(g).phase # "ended"} = {g \in Gens : t(g).phase # "ended"}
    BY <2>1
  <2> QED BY <1>1, <2>2 DEF ConvInv, RunOwned, Busy
<1>5. \A g \in Gens : TaskSound(u(g), settings.retries)
  <2> SUFFICES ASSUME NEW g \in Gens PROVE TaskSound(u(g), settings.retries)
    OBVIOUS
  <2>1. Weaker(t(g), u(g)) /\ TaskSound(t(g), settings.retries) /\ t(g) \in Gen
    BY InvFacts
  <2> HIDE DEF t, u
  <2>2. t(g).attempt \in Nat /\ t(g).sent \in Nat
    BY <2>1 DEF Gen
  <2> QED BY <2>1, <2>2 DEF Weaker, TaskSound
<1>6. Flying' /\ Charged'
  BY <1>1, <1>5 DEF Flying, Charged, TaskSound, Bounded
<1>7. JobTracked'
  <2>1. \A g \in Gens : Tracked(t(g)) => Tracked(u(g))
    BY DEF Weaker, Tracked, Polls
  <2> QED BY <2>1, InvFacts DEF JobTracked, Tracked
<1>8. SaidOnce'
  <2>1. \A i \in DOMAIN conv'.entries : conv'.entries[i].kind \in SaidKinds =>
          i \in DOMAIN conv.entries /\ conv'.entries[i] = conv.entries[i]
    BY <1>2 DEF Longer
  <2>2. \A g, m : SaidBy(conv'.entries, g, m) => SaidBy(conv.entries, g, m)
    BY <2>1 DEF SaidBy
  <2>3. SaidOnce
    BY DEF ConvInv
  <2>4. \A i \in DOMAIN conv'.entries : conv'.entries[i].kind \in SaidKinds =>
          /\ conv'.entries[i].n \in Gens
          /\ u(conv'.entries[i].n).phase # "ended" =>
               conv'.entries[i].m <= u(conv'.entries[i].n).sent
    BY <2>1, <2>3 DEF SaidOnce, Weaker
  <2>5. \A i, j \in DOMAIN conv'.entries :
          /\ conv'.entries[i].kind \in SaidKinds /\ conv'.entries[j].kind \in SaidKinds
          /\ conv'.entries[i].n = conv'.entries[j].n /\ conv'.entries[i].m = conv'.entries[j].m
          => i = j
    BY <2>1, <2>3 DEF SaidOnce
  <2>6. ASSUME NEW g \in Gens
        PROVE  /\ conv'.partial # "none" /\ u(g).phase # "ended" => u(g).phase = "request"
               /\ \/ Polls(u(g)) \/ u(g).fly = "streaming"
                  \/ conv'.partial # "none" /\ u(g).phase # "ended"
                  => ~SaidBy(conv'.entries, g, u(g).sent)
    <3>1. Weaker(t(g), u(g))
      OBVIOUS
    <3>2. /\ conv.partial # "none" /\ t(g).phase # "ended" => t(g).phase = "request"
          /\ \/ Polls(t(g)) \/ t(g).fly = "streaming"
             \/ conv.partial # "none" /\ t(g).phase # "ended"
             => ~SaidBy(conv.entries, g, t(g).sent)
      BY <2>3 DEF SaidOnce
    <3> HIDE DEF t, u
    <3>3. (Polls(u(g)) => Polls(t(g))) /\ (u(g).fly = "streaming" => t(g).fly = "streaming")
      BY <3>1 DEF Weaker, Polls
    <3> QED BY <2>2, <3>1, <3>2, <3>3 DEF Weaker
  <2>7. conv'.partial # "none" => Busy(conv')
    BY <2>3 DEF SaidOnce, Busy
  <2> HIDE DEF u
  <2> QED BY <1>1, <2>4, <2>5, <2>6, <2>7 DEF SaidOnce, u
<1> QED BY <1>3, <1>4, <1>6, <1>7, <1>8 DEF Bounded, ConvInv

\* An answer that only one request may leave is left once.
LEMMA SaidStaysOnce ==
  ASSUME ConvInv, conv' \in Conv, NEW g, NEW m, Says(conv.entries, conv'.entries, g, m)
  PROVE  /\ \A i, j \in DOMAIN conv'.entries :
              /\ conv'.entries[i].kind \in SaidKinds /\ conv'.entries[j].kind \in SaidKinds
              /\ conv'.entries[i].n = conv'.entries[j].n /\ conv'.entries[i].m = conv'.entries[j].m
              => i = j
         /\ \A i \in DOMAIN conv'.entries : conv'.entries[i].kind \in SaidKinds =>
              \/ i \in DOMAIN conv.entries /\ conv'.entries[i] = conv.entries[i]
              \/ conv'.entries[i].n = g /\ conv'.entries[i].m = m
         /\ \A h, k : SaidBy(conv'.entries, h, k) => SaidBy(conv.entries, h, k) \/ (h = g /\ k = m)
<1> DEFINE es == conv.entries
           fs == conv'.entries
           new == (Len(es) + 1)..Len(fs)
<1>1. /\ DOMAIN es = 1..Len(es) /\ DOMAIN fs = 1..Len(fs)
      /\ Len(es) \in Nat /\ Len(fs) \in Nat
  BY InvFacts DEF Conv
<1>2. \A i, j \in DOMAIN es :
         /\ es[i].kind \in SaidKinds /\ es[j].kind \in SaidKinds
         /\ es[i].n = es[j].n /\ es[i].m = es[j].m
         => i = j
  BY DEF ConvInv, SaidOnce
<1>3. \A i \in DOMAIN fs : i \in new \/ (i \in DOMAIN es /\ fs[i] = es[i])
  BY <1>1 DEF Says
<1>4. \A i \in new : fs[i].kind \in SaidKinds =>
         /\ fs[i].n = g /\ fs[i].m = m
         /\ \A j \in DOMAIN es : ~(es[j].kind \in SaidKinds /\ es[j].n = g /\ es[j].m = m)
         /\ \A j \in new : fs[j].kind \in SaidKinds => j = i
  BY DEF Says, SaidBy
<1> HIDE DEF new, es, fs
<1>5. \A i, j \in DOMAIN fs :
         /\ fs[i].kind \in SaidKinds /\ fs[j].kind \in SaidKinds /\ fs[i].n = fs[j].n /\ fs[i].m = fs[j].m
         => i = j
  BY <1>2, <1>3, <1>4
<1>6. \A i \in DOMAIN fs : fs[i].kind \in SaidKinds =>
         (i \in DOMAIN es /\ fs[i] = es[i]) \/ (fs[i].n = g /\ fs[i].m = m)
  BY <1>3, <1>4
<1>7. \A h, k : SaidBy(fs, h, k) => SaidBy(es, h, k) \/ (h = g /\ k = m)
  BY <1>6 DEF SaidBy
<1> QED BY <1>5, <1>6, <1>7 DEF es, fs

Put(seq, i, v) == [seq EXCEPT ![i] = v]

\* Generation g goes on, as u.
LEMMA MoveStep ==
  ASSUME ConvInv, Bounded, NEW g \in Gens, conv.gens[g].phase # "ended", NEW u \in Gen, u.phase # "ended",
         TaskSound(u, settings.retries), conv'.gens = Put(conv.gens, g, u),
         conv'.run.task = conv.run.task, Says(conv.entries, conv'.entries, g, conv.gens[g].sent),
         Comps \subseteq Comps', u.comp \in {0} \cup Comps', conv.gens[g].sent <= u.sent,
         jobs' \subseteq jobs \cup {g}, g \in jobs' => Polls(u),
         conv'.partial # "none" => u.phase = "request",
         Polls(u) \/ u.fly = "streaming" \/ conv'.partial # "none" => ~SaidBy(conv'.entries, g, u.sent)
  PROVE  ConvInv'
<1> DEFINE v(h) == conv'.gens[h]
<1>1. Gens' = Gens /\ v(g) = u /\ \A h \in Gens \ {g} : v(h) = conv.gens[h]
  BY DEF Gens, Put
<1>2. g = conv.run.task /\ Busy(conv) /\ g # 0 /\ Busy(conv')
  <2>1. g = conv.run.task /\ Busy(conv) /\ g # 0
    BY InvFacts
  <2> QED BY <2>1 DEF Busy, NoRun
<1>3. TypeOK'
  <2>1. \A h \in Gens : v(h).comp \in {0} \cup Comps'
    BY <1>1 DEF ConvInv, TypeOK
  <2>2. jobs' \subseteq Gens' /\ conv'.run.task \in {0} \cup Gens'
    BY <1>1, InvFacts
  <2> QED BY <1>1, <2>1, <2>2, InvFacts DEF Bounded, TypeOK
<1>4. RunOwned'
  <2>1. \A h \in Gens \ {g} : conv.gens[h].phase = "ended"
    BY <1>2, InvFacts
  <2>2. {h \in Gens : v(h).phase # "ended"} = {g}
    BY <1>1, <2>1
  <2> QED BY <1>1, <1>2, <2>2 DEF RunOwned
<1>5. \A h \in Gens : TaskSound(v(h), settings.retries)
  BY <1>1, InvFacts
<1>6. Flying' /\ Charged'
  BY <1>1, <1>5 DEF Flying, Charged, TaskSound, Bounded
<1>7. JobTracked'
  <2>1. \A h \in jobs' : Tracked(v(h))
    <3> SUFFICES ASSUME NEW h \in jobs' PROVE Tracked(v(h))
      OBVIOUS
    <3>1. CASE h = g
      BY <1>1, <3>1 DEF Tracked
    <3>2. CASE h # g
      <4>1. h \in jobs /\ h \in Gens
        BY <3>2, InvFacts
      <4> QED BY <1>1, <3>2, <4>1, InvFacts
    <3> QED BY <3>1, <3>2
  <2> QED BY <2>1 DEF JobTracked, Tracked
<1>8. SaidOnce'
  <2> DEFINE es == conv.entries
             fs == conv'.entries
  <2>1. /\ \A i, j \in DOMAIN fs :
              /\ fs[i].kind \in SaidKinds /\ fs[j].kind \in SaidKinds /\ fs[i].n = fs[j].n /\ fs[i].m = fs[j].m
              => i = j
        /\ \A i \in DOMAIN fs : fs[i].kind \in SaidKinds =>
              \/ i \in DOMAIN es /\ fs[i] = es[i]
              \/ fs[i].n = g /\ fs[i].m = conv.gens[g].sent
    BY SaidStaysOnce DEF Bounded
  <2>2. \A i \in DOMAIN es : es[i].kind \in SaidKinds =>
           /\ es[i].n \in Gens
           /\ conv.gens[es[i].n].phase # "ended" => es[i].m <= conv.gens[es[i].n].sent
    BY DEF ConvInv, SaidOnce
  <2>3. conv.gens[g].sent \in Nat /\ u.sent \in Nat /\ \A i \in DOMAIN es : es[i].m \in Nat
    <3>1. conv.gens[g] \in Gen /\ \A i \in DOMAIN es : es[i] \in EntryType
      BY InvFacts
    <3> QED BY <3>1 DEF Gen, EntryType
  <2>4. \A i \in DOMAIN fs : fs[i].kind \in SaidKinds =>
           /\ fs[i].n \in Gens /\ (v(fs[i].n).phase # "ended" => fs[i].m <= v(fs[i].n).sent)
    <3> SUFFICES ASSUME NEW i \in DOMAIN fs, fs[i].kind \in SaidKinds
                 PROVE  fs[i].n \in Gens /\ (v(fs[i].n).phase # "ended" => fs[i].m <= v(fs[i].n).sent)
      OBVIOUS
    <3>1. CASE fs[i].n = g /\ fs[i].m = conv.gens[g].sent
      BY <1>1, <3>1
    <3>2. CASE i \in DOMAIN es /\ fs[i] = es[i] /\ fs[i].n # g
      BY <1>1, <2>2, <3>2
    <3>3. CASE i \in DOMAIN es /\ fs[i] = es[i] /\ fs[i].n = g
      <4>1. es[i].m <= conv.gens[g].sent
        BY <2>2, <3>3
      <4> QED BY <1>1, <2>3, <3>3, <4>1
    <3> QED BY <2>1, <3>1, <3>2, <3>3
  <2>5. ASSUME NEW h \in Gens
        PROVE  /\ conv'.partial # "none" /\ v(h).phase # "ended" => v(h).phase = "request"
               /\ \/ Polls(v(h)) \/ v(h).fly = "streaming"
                  \/ conv'.partial # "none" /\ v(h).phase # "ended"
                  => ~SaidBy(fs, h, v(h).sent)
    <3>1. CASE h = g
      BY <1>1, <3>1
    <3>2. CASE h # g
      <4>1. v(h) = conv.gens[h] /\ v(h).phase = "ended" /\ TaskSound(v(h), settings.retries)
        BY <1>1, <1>2, <3>2, InvFacts
      <4> HIDE DEF v
      <4>2. ~Polls(v(h)) /\ v(h).fly # "streaming"
        BY <4>1 DEF Polls, TaskSound
      <4> QED BY <4>1, <4>2
    <3> QED BY <3>1, <3>2
  <2> HIDE DEF v, fs
  <2> QED BY <1>1, <1>2, <2>1, <2>4, <2>5 DEF SaidOnce, v, fs
<1> QED BY <1>3, <1>4, <1>6, <1>7, <1>8 DEF Bounded, ConvInv

\* What a commit of generation g may have done before it ends g: written its
\* answer, recorded what is lost.
Ready(s, g) ==
  /\ s \in Conv /\ Says(conv.entries, s.entries, g, conv.gens[g].sent)
  /\ s.gens = conv.gens /\ s.run = conv.run /\ s.slots = conv.slots /\ s.comps = conv.comps

\* Generation g ends, with its run or handing it on.
LEMMA EndStep ==
  ASSUME ConvInv, NEW g \in Gens, conv.gens[g].phase # "ended", NEW s, Ready(s, g),
         NEW cause \in Causes, Ends(s, conv', g, cause),
         settings' = settings, trouble' \in 0..MaxTrouble, jobs' \subseteq jobs,
         g \in jobs' => cause \in {"nomodel", "limit", "fault"}
  PROVE  ConvInv'
<1> DEFINE v(h) == conv'.gens[h]
           n == Len(conv.gens)
<1>1. /\ s.entries \in Seq(EntryType) /\ conv'.entries \in Seq(EntryType) /\ conv' \in Conv
      /\ conv'.gens \in Seq(Gen) /\ s \in Conv /\ s.gens = conv.gens
  BY DEF Ready, Ends, Conv
<1>2. Says(conv.entries, conv'.entries, g, conv.gens[g].sent)
  BY <1>1, InvFacts, SaysThenGrows DEF Ready, Ends
<1>3. CallsKnown' /\ SlotsOnce'
  <2>1. SlotsKept(conv, conv')
    BY <1>2 DEF SlotsKept, Says, Ready, Ends
  <2> QED BY <1>1, <2>1, SlotsKeep
<1>4. g = conv.run.task /\ g \in 1..n /\ n \in Nat /\ Gens = 1..n /\ conv.gens \in Seq(Gen)
  BY InvFacts DEF Conv
<1>5. \/ /\ conv'.gens = [conv.gens EXCEPT ![g] = Over(cause)] /\ conv'.run = NoRun
         /\ Gens' = 1..n
      \/ /\ conv'.gens = [Append(conv.gens, NewGeneration) EXCEPT ![g] = Over(cause)]
         /\ conv'.run.task = n + 1 /\ Gens' = 1..(n + 1) /\ v(n + 1) = NewGeneration
  <2>1. CASE conv'.gens = [conv.gens EXCEPT ![g] = Over(cause)] /\ conv'.run = NoRun
    BY <1>4, <2>1 DEF Gens
  <2>2. CASE /\ conv'.gens = [Append(conv.gens, NewGeneration) EXCEPT ![g] = Over(cause)]
             /\ conv'.run.task = n + 1
    <3> DEFINE gens == Append(conv.gens, NewGeneration)
    <3>1. gens \in Seq(Gen) /\ Len(gens) = n + 1 /\ gens[n + 1] = NewGeneration /\ DOMAIN gens = 1..(n + 1)
      BY <1>4, NewGenerationTyped
    <3> HIDE DEF gens
    <3>2. DOMAIN [gens EXCEPT ![g] = Over(cause)] = 1..(n + 1)
      BY <3>1
    <3>3. [gens EXCEPT ![g] = Over(cause)][n + 1] = NewGeneration
      BY <1>4, <3>1
    <3> QED BY <2>2, <3>2, <3>3 DEF gens, Gens
  <2> QED BY <1>1, <2>1, <2>2 DEF Ends
<1>6. v(g) = Over(cause) /\ \A h \in Gens \ {g} : v(h) = conv.gens[h]
  <2>1. CASE conv'.gens = [conv.gens EXCEPT ![g] = Over(cause)]
    BY <1>4, <2>1
  <2>2. CASE conv'.gens = [Append(conv.gens, NewGeneration) EXCEPT ![g] = Over(cause)]
    <3> DEFINE gens == Append(conv.gens, NewGeneration)
    <3>1. DOMAIN gens = 1..(n + 1) /\ \A h \in 1..n : gens[h] = conv.gens[h]
      BY <1>4
    <3> HIDE DEF gens
    <3>2. conv'.gens = [gens EXCEPT ![g] = Over(cause)]
      BY <2>2 DEF gens
    <3> QED BY <1>4, <3>1, <3>2
  <2> QED BY <1>5, <2>1, <2>2
<1>7. \A h \in Gens' : \/ h = g
                       \/ h \in Gens /\ h # g /\ conv.gens[h].phase = "ended"
                       \/ /\ h = n + 1 /\ n + 1 \in Gens' /\ v(h) = NewGeneration
                          /\ conv'.run.task = n + 1
  <2>1. \A h \in Gens \ {g} : conv.gens[h].phase = "ended"
    BY <1>4, InvFacts
  <2> HIDE DEF v
  <2> QED BY <1>4, <1>5, <2>1
<1>8. /\ Over(cause).phase = "ended" /\ Over(cause).comp = 0 /\ Over(cause).fly = "none"
      /\ Over(cause).attempt = 1 /\ Over(cause).sent = 0 /\ Over(cause).cause = cause
      /\ Over(cause).resent = 0 /\ NewGeneration.resent = 0
      /\ NewGeneration.phase = "prepare" /\ NewGeneration.comp = 0 /\ NewGeneration.fly = "none"
      /\ NewGeneration.attempt = 1 /\ NewGeneration.sent = 0
  BY DEF Over, NewGeneration
<1>9. settings.retries \in Nat /\ settings \in SettingsSet
  BY InvFacts DEF Setting
<1> HIDE DEF v
<1>10. TypeOK'
  <2>1. Comps' = Comps
    BY DEF Ready, Ends, Comps
  <2>2. \A h \in Gens' : v(h).comp \in {0} \cup Comps'
    BY <1>6, <1>7, <1>8, <2>1 DEF ConvInv, TypeOK
  <2>3. jobs' \subseteq Gens' /\ conv'.run.task \in {0} \cup Gens'
    BY <1>4, <1>5, InvFacts DEF NoRun
  <2> QED BY <1>1, <1>9, <2>2, <2>3 DEF TypeOK, v
<1>11. RunOwned'
  <2>1. \A h \in Gens' : v(h).phase # "ended" => h = n + 1 /\ v(h) = NewGeneration
    BY <1>6, <1>7, <1>8
  <2>2. CASE conv'.run = NoRun /\ Gens' = 1..n
    <3>1. {h \in Gens' : v(h).phase # "ended"} = {}
      BY <1>4, <2>1, <2>2
    <3> QED BY <2>2, <3>1 DEF RunOwned, Busy, v
  <2>3. CASE conv'.run.task = n + 1 /\ Gens' = 1..(n + 1) /\ v(n + 1) = NewGeneration
    <3>1. {h \in Gens' : v(h).phase # "ended"} = {n + 1}
      BY <1>4, <1>8, <2>1, <2>3
    <3>2. Busy(conv')
      BY <1>4, <2>3 DEF Busy, NoRun
    <3> QED BY <2>3, <3>1, <3>2 DEF RunOwned, v
  <2> QED BY <1>5, <2>2, <2>3
<1>12. \A h \in Gens' : TaskSound(v(h), settings.retries)
  <2>1. TaskSound(Over(cause), settings.retries) /\ TaskSound(NewGeneration, settings.retries)
    BY <1>8, <1>9 DEF TaskSound, Unsent
  <2>2. \A h \in Gens : TaskSound(conv.gens[h], settings.retries)
    BY InvFacts
  <2> QED BY <1>6, <1>7, <2>1, <2>2
<1>13. Flying' /\ Charged'
  BY <1>12 DEF Flying, Charged, TaskSound, v
<1>14. JobTracked'
  <2>1. \A h \in jobs' : Tracked(v(h))
    <3> SUFFICES ASSUME NEW h \in jobs' PROVE Tracked(v(h))
      OBVIOUS
    <3>1. CASE h = g
      BY <1>6, <1>8, <3>1 DEF Tracked
    <3>2. CASE h # g
      BY <1>6, <3>2, InvFacts
    <3> QED BY <3>1, <3>2
  <2> QED BY <2>1 DEF JobTracked, Tracked, v
<1>15. SaidOnce'
  <2> DEFINE es == conv.entries
             fs == conv'.entries
  <2>1. /\ \A i, j \in DOMAIN fs :
              /\ fs[i].kind \in SaidKinds /\ fs[j].kind \in SaidKinds /\ fs[i].n = fs[j].n /\ fs[i].m = fs[j].m
              => i = j
        /\ \A i \in DOMAIN fs : fs[i].kind \in SaidKinds =>
              \/ i \in DOMAIN es /\ fs[i] = es[i]
              \/ fs[i].n = g /\ fs[i].m = conv.gens[g].sent
    BY <1>1, <1>2, SaidStaysOnce
  <2>2. \A i \in DOMAIN es : es[i].kind \in SaidKinds =>
           /\ es[i].n \in Gens
           /\ conv.gens[es[i].n].phase # "ended" => es[i].m <= conv.gens[es[i].n].sent
    BY DEF ConvInv, SaidOnce
  <2>3. \A i \in DOMAIN fs : fs[i].kind \in SaidKinds => fs[i].n \in Gens
    BY <2>1, <2>2
  <2>4. Gens \subseteq Gens' /\ \A h \in Gens : v(h).phase = "ended"
    <3>1. \A h \in Gens \ {g} : conv.gens[h].phase = "ended"
      BY <1>4, InvFacts
    <3> QED BY SMTT(30), <1>4, <1>5, <1>6, <1>8, <3>1
  <2>5. conv'.partial = "none"
    BY DEF Ends
  <2>6. \A h \in Gens' : ~Polls(v(h)) /\ v(h).fly # "streaming"
    BY <1>6, <1>7, <1>8, <1>12 DEF Polls, TaskSound
  <2> HIDE DEF fs
  <2> QED BY <2>1, <2>3, <2>4, <2>5, <2>6 DEF SaidOnce, v, fs
<1> QED BY <1>3, <1>10, <1>11, <1>13, <1>14, <1>15 DEF ConvInv

\* An idle conversation starts a run.
LEMMA OpenStep ==
  ASSUME ConvInv, ~Busy(conv), settings' = settings, trouble' \in 0..MaxTrouble, jobs' = jobs,
         conv' \in Conv, Grows(conv.entries, conv'.entries), SlotsKept(conv, conv'),
         Comps \subseteq Comps', conv'.partial \in {conv.partial, "none"},
         conv'.gens = Append(conv.gens, NewGeneration), conv'.run.task = Len(conv.gens) + 1
  PROVE  ConvInv'
<1> DEFINE v(h) == conv'.gens[h]
           n == Len(conv.gens)
<1>1. CallsKnown' /\ SlotsOnce'
  BY SlotsKeep
<1>2. n \in Nat /\ Gens = 1..n /\ conv.gens \in Seq(Gen)
  BY InvFacts DEF Conv
<1>3. Gens' = 1..(n + 1) /\ v(n + 1) = NewGeneration /\ \A h \in Gens : v(h) = conv.gens[h]
  BY <1>2, NewGenerationTyped DEF Gens
<1>4. \A h \in Gens : conv.gens[h].phase = "ended"
  BY InvFacts
<1>5. /\ NewGeneration.phase = "prepare" /\ NewGeneration.comp = 0 /\ NewGeneration.fly = "none"
      /\ NewGeneration.attempt = 1 /\ NewGeneration.sent = 0 /\ NewGeneration.resent = 0
  BY DEF NewGeneration
<1>6. settings.retries \in Nat /\ settings \in SettingsSet
  BY InvFacts DEF Setting
<1> HIDE DEF v
<1>7. \A h \in Gens' : (h \in Gens /\ v(h) = conv.gens[h]) \/ (h = n + 1 /\ v(h) = NewGeneration)
  BY <1>2, <1>3
<1>8. TypeOK'
  <2>1. \A h \in Gens' : v(h).comp \in {0} \cup Comps'
    BY <1>5, <1>7 DEF ConvInv, TypeOK
  <2>2. jobs' \subseteq Gens' /\ conv'.run.task \in {0} \cup Gens'
    BY <1>2, <1>3, InvFacts
  <2> QED BY <1>6, <2>1, <2>2 DEF TypeOK, v
<1>9. RunOwned'
  <2>1. {h \in Gens' : v(h).phase # "ended"} = {n + 1}
    BY SMTT(30), <1>2, <1>3, <1>4, <1>5, <1>7
  <2>2. Busy(conv')
    BY <1>2 DEF Busy, NoRun
  <2> QED BY <2>1, <2>2 DEF RunOwned, v
<1>10. \A h \in Gens' : TaskSound(v(h), settings.retries)
  <2>1. TaskSound(NewGeneration, settings.retries)
    BY <1>5, <1>6 DEF TaskSound, Unsent
  <2>2. \A h \in Gens : TaskSound(conv.gens[h], settings.retries)
    BY InvFacts
  <2> QED BY <1>7, <2>1, <2>2
<1>11. Flying' /\ Charged'
  BY <1>10 DEF Flying, Charged, TaskSound, v
<1>12. JobTracked'
  <2>1. \A h \in jobs' : Tracked(v(h))
    BY <1>3, InvFacts
  <2> QED BY <2>1 DEF JobTracked, Tracked, v
<1>13. SaidOnce'
  <2> DEFINE es == conv.entries
             fs == conv'.entries
  <2>1. /\ es \in Seq(EntryType) /\ fs \in Seq(EntryType)
        /\ DOMAIN es = 1..Len(es) /\ DOMAIN fs = 1..Len(fs) /\ Len(es) \in Nat /\ Len(fs) \in Nat
    BY InvFacts DEF Conv
  <2>2. \A i \in DOMAIN fs : fs[i].kind \in SaidKinds => i \in DOMAIN es /\ fs[i] = es[i]
    BY <2>1 DEF Grows, TaskKinds
  <2>3. /\ \A i \in DOMAIN es : es[i].kind \in SaidKinds => es[i].n \in Gens
        /\ \A i, j \in DOMAIN es :
             /\ es[i].kind \in SaidKinds /\ es[j].kind \in SaidKinds /\ es[i].n = es[j].n /\ es[i].m = es[j].m
             => i = j
        /\ conv.partial = "none"
    BY DEF ConvInv, SaidOnce
  <2> HIDE DEF es, fs
  <2>4. \A i \in DOMAIN fs : fs[i].kind \in SaidKinds =>
           fs[i].n \in Gens' /\ (v(fs[i].n).phase # "ended" => fs[i].m <= v(fs[i].n).sent)
    BY <1>2, <1>3, <1>4, <2>2, <2>3
  <2>5. \A i, j \in DOMAIN fs :
          /\ fs[i].kind \in SaidKinds /\ fs[j].kind \in SaidKinds /\ fs[i].n = fs[j].n /\ fs[i].m = fs[j].m
          => i = j
    BY <2>2, <2>3
  <2>6. \A h \in Gens' : ~Polls(v(h)) /\ v(h).fly # "streaming"
    BY <1>4, <1>5, <1>7, <1>10 DEF Polls, TaskSound
  <2>7. conv'.partial = "none"
    BY <2>3
  <2> QED BY <2>4, <2>5, <2>6, <2>7 DEF SaidOnce, v, fs
<1> QED BY <1>1, <1>8, <1>9, <1>11, <1>12, <1>13 DEF ConvInv

-----------------------------------------------------------------------------
(* Before a generation ends                                                 *)

LEMMA LiveFacts ==
  ASSUME ConvInv, NEW g \in Gens, conv.gens[g].phase # "ended"
  PROVE  /\ conv.run.task = g /\ Busy(conv) /\ g \in Nat /\ conv.gens[g] \in Gen
         /\ TaskSound(conv.gens[g], settings.retries)
         /\ conv.partial # "none" => conv.gens[g].phase = "request"
         /\ \/ Polls(conv.gens[g]) \/ conv.gens[g].fly = "streaming" \/ conv.partial # "none"
            => ~SaidBy(conv.entries, g, conv.gens[g].sent)
         /\ g \in jobs => Polls(conv.gens[g])
<1>1. conv.run.task = g /\ Busy(conv) /\ g \in Nat /\ conv.gens[g] \in Gen
      /\ TaskSound(conv.gens[g], settings.retries)
  BY InvFacts
<1>2. /\ conv.partial # "none" => conv.gens[g].phase = "request"
      /\ \/ Polls(conv.gens[g]) \/ conv.gens[g].fly = "streaming" \/ conv.partial # "none"
         => ~SaidBy(conv.entries, g, conv.gens[g].sent)
  BY DEF ConvInv, SaidOnce
<1>3. g \in jobs => Polls(conv.gens[g])
  BY InvFacts DEF Tracked
<1> QED BY <1>1, <1>2, <1>3

LEMMA MoreTroubleCounts ==
  ASSUME ConvInv, NEW kind, MoreTrouble(kind), trouble' = trouble + 1
  PROVE  trouble' \in 0..MaxTrouble
  BY BoundsAssumption DEF ConvInv, TypeOK, MoreTrouble

LEMMA ReadySelf == ASSUME ConvInv, NEW g \in Gens PROVE Ready(conv, g)
  BY InvFacts, GrowsSelf, GrowsSays DEF Ready

LEMMA ReadyLengthened ==
  ASSUME ConvInv, NEW g \in Gens, NEW s, Ready(s, g), NEW r, Lengthened(s, r)
  PROVE  Ready(r, g)
<1>1. s.entries \in Seq(EntryType) /\ r.entries \in Seq(EntryType)
  BY DEF Ready, Lengthened, Conv
<1> QED BY <1>1, InvFacts, SaysThenLonger DEF Ready, Lengthened

LEMMA ReadyFramed ==
  ASSUME ConvInv, NEW g \in Gens, NEW s, Ready(s, g), NEW r, Framed(s, r)
  PROVE  Ready(r, g)
<1>1. s.entries \in Seq(EntryType) /\ r.entries \in Seq(EntryType)
  BY DEF Ready, Framed, Conv
<1> QED BY <1>1, InvFacts, SaysThenGrows DEF Ready, Framed

\* One more entry, one that a request left.
LEMMA SayReady ==
  ASSUME ConvInv, NEW g \in Gens, NEW e \in EntryType, e.n = g, e.m = conv.gens[g].sent,
         ~SaidBy(conv.entries, g, conv.gens[g].sent)
  PROVE  Ready(AppendEntry(conv, e), g) /\ AppendEntry(conv, e).inbox = conv.inbox
         /\ AppendEntry(conv, e).partial = conv.partial /\ AppendEntry(conv, e).lost = conv.lost
<1> DEFINE es == Append(conv.entries, e)
<1>1. /\ conv \in Conv /\ conv.entries \in Seq(EntryType) /\ Len(conv.entries) \in Nat
  BY InvFacts
<1>2. /\ es \in Seq(EntryType) /\ Len(es) = Len(conv.entries) + 1 /\ es[Len(conv.entries) + 1] = e
      /\ \A i \in 1..Len(conv.entries) : es[i] = conv.entries[i]
  BY <1>1
<1>3. AppendEntry(conv, e) = [conv EXCEPT !.entries = es]
  BY DEF AppendEntry
<1> HIDE DEF es
<1>4. Says(conv.entries, es, g, conv.gens[g].sent)
  BY <1>1, <1>2 DEF Says
<1> QED BY <1>1, <1>2, <1>3, <1>4 DEF Ready, Conv

LEMMA ReadySay ==
  ASSUME ConvInv, NEW g \in Gens, NEW kind \in SaidKinds,
         ~SaidBy(conv.entries, g, conv.gens[g].sent)
  PROVE  Ready(Say(conv, g, kind), g) /\ Say(conv, g, kind).inbox = conv.inbox
         /\ Say(conv, g, kind).partial = conv.partial /\ Say(conv, g, kind).lost = conv.lost
<1>1. g \in Nat /\ conv.gens[g].sent \in Nat
  <2>1. g \in Nat /\ conv.gens[g] \in Gen
    BY InvFacts
  <2> QED BY <2>1 DEF Gen
<1> DEFINE e == Entry(kind, g, conv.gens[g].sent)
<1>2. e \in EntryType
  BY <1>1, EntryTyped
<1>3. e.n = g /\ e.m = conv.gens[g].sent
  BY DEF Entry
<1>4. Say(conv, g, kind) = AppendEntry(conv, e)
  BY DEF Say
<1> HIDE DEF e
<1> QED BY <1>2, <1>3, <1>4, SayReady

LEMMA ReadyConvert ==
  ASSUME ConvInv, NEW g \in Gens, conv.gens[g].phase # "ended"
  PROVE  Ready(ConvertPartial(conv, g), g) /\ ConvertPartial(conv, g).partial = conv.partial
<1>1. CASE conv.partial = "none"
  BY <1>1, ReadySelf DEF ConvertPartial
<1>2. CASE conv.partial # "none"
  BY <1>2, LiveFacts, ReadySay DEF ConvertPartial, SaidKinds
<1> QED BY <1>1, <1>2

\* An answer with calls that stands has its place.
LEMMA AssistantFound ==
  ASSUME NEW s \in Conv, \E i \in DOMAIN s.entries : s.entries[i].kind = "calls"
  PROVE  Assistant(s) \in Nat
<1> DEFINE S == {i \in DOMAIN s.entries : s.entries[i].kind = "calls"}
<1>1. DOMAIN s.entries = 1..Len(s.entries) /\ Len(s.entries) \in Nat
  BY DEF Conv
<1>2. S \subseteq Nat /\ S # {} /\ \A x \in S : x <= Len(s.entries)
  BY <1>1
<1>3. Assistant(s) = Max(S)
  BY DEF Assistant
<1> HIDE DEF S
<1> QED BY <1>1, <1>2, <1>3, MaxIn

LEMMA ReadyAssistant ==
  ASSUME ConvInv, NEW g \in Gens, NEW s, Ready(s, g), conv.slots # <<>>
  PROVE  Assistant(s) \in Nat
<1>1. PICK i \in DOMAIN conv.entries : conv.entries[i].kind = "calls"
  BY DEF ConvInv, CallsKnown
<1>2. s.entries \in Seq(EntryType) /\ DOMAIN conv.entries = 1..Len(conv.entries) /\ Len(conv.entries) \in Nat
  BY InvFacts DEF Ready, Conv
<1>3. i \in DOMAIN s.entries /\ s.entries[i] = conv.entries[i]
  BY <1>2 DEF Ready, Says
<1> QED BY <1>1, <1>3, AssistantFound DEF Ready

LEMMA SlotNumbers == ASSUME NEW s \in Conv PROVE DOMAIN s.slots = 1..Len(s.slots) /\ Len(s.slots) \in Nat
  BY DEF Conv

LEMMA ReadyUnstarted ==
  ASSUME ConvInv, NEW g \in Gens, NEW s, Ready(s, g)
  PROVE  Ready(Unstarted(s, g), g) /\ Unstarted(s, g).run = s.run
<1>1. CASE Unstarted(s, g) = s
  BY <1>1
<1>2. CASE Unstarted(s, g) # s
  <2> DEFINE lost == s.lost \cup {<<Assistant(s), c>> : c \in Pending(s)}
  <2>1. Unstarted(s, g) = [s EXCEPT !.lost = lost]
    BY <1>2 DEF Unstarted
  <2>2. s \in Conv
    BY DEF Ready
  <2>3. s.lost \subseteq Nat \X Nat
    BY <2>2 DEF Conv
  <2>4. ASSUME NEW c \in Pending(s) PROVE <<Assistant(s), c>> \in Nat \X Nat
    <3>1. c \in Nat /\ s.slots # <<>>
      BY <2>2, <2>4, SlotNumbers DEF Pending
    <3>2. Assistant(s) \in Nat
      BY <3>1, ReadyAssistant DEF Ready
    <3> QED BY <3>1, <3>2
  <2>5. lost \in SUBSET (Nat \X Nat)
    BY <2>3, <2>4
  <2> HIDE DEF lost
  <2> QED BY <2>1, <2>2, <2>5 DEF Ready, Conv
<1> QED BY <1>1, <1>2

LEMMA ResultsLengthened ==
  ASSUME NEW s \in Conv, NEW calls \in Seq(Nat), calls # <<>> => Assistant(s) \in Nat
  PROVE  Lengthened(s, Results(s, calls))
<1> DEFINE es == [k \in DOMAIN calls |-> Entry("result", calls[k], Assistant(s))]
<1>1. DOMAIN calls = 1..Len(calls) /\ Len(calls) \in Nat
  OBVIOUS
<1>2. ASSUME NEW k \in DOMAIN calls PROVE es[k] \in EntryType /\ es[k].kind = "result"
  <2>1. calls[k] \in Nat /\ Assistant(s) \in Nat
    BY <1>1
  <2> QED BY <2>1, EntryTyped
<1>3. es \in [1..Len(calls) -> EntryType]
  BY <1>1, <1>2
<1>4. es \in Seq(EntryType) /\ Len(es) = Len(calls)
  BY <1>1, <1>3, IsSeq
<1>5. \A k \in 1..Len(es) : es[k].kind \notin SaidKinds
  BY <1>1, <1>2, <1>4 DEF SaidKinds
<1>6. Results(s, calls) = [s EXCEPT !.entries = s.entries \o es]
  BY DEF Results
<1>7. s.entries \in Seq(EntryType)
  BY DEF Conv
<1> HIDE DEF es
<1>8. s.entries \o es \in Seq(EntryType) /\ Longer(s.entries, s.entries \o es)
  BY <1>4, <1>5, <1>7, LongerAppend
<1>9. PICK r : r = Results(s, calls)
  OBVIOUS
<1>10. r = [s EXCEPT !.entries = s.entries \o es]
  BY <1>6, <1>9
<1>11. /\ r \in Conv /\ r.entries = s.entries \o es
       /\ r.gens = s.gens /\ r.run = s.run /\ r.slots = s.slots /\ r.comps = s.comps
       /\ r.partial = s.partial /\ r.lost = s.lost /\ r.failure = s.failure
  BY <1>8, <1>10 DEF Conv
<1> QED BY <1>8, <1>9, <1>11 DEF Lengthened

-----------------------------------------------------------------------------
(* The actions that end a generation                                        *)

LEMMA EndingStep ==
  ASSUME ConvInv, NEW g \in Gens, conv.gens[g].phase # "ended", NEW s, Ready(s, g),
         NEW m, RunOver(s, m), NEW cause \in Causes, conv' = End(m, g, cause),
         settings' = settings, trouble' \in 0..MaxTrouble, jobs' \subseteq jobs,
         g \in jobs' => cause \in {"nomodel", "limit", "fault"}
  PROVE  ConvInv'
<1>1. s \in Conv /\ g \in DOMAIN s.gens
  BY DEF Ready, Gens
<1>2. Ends(s, conv', g, cause)
  BY <1>1, EndEnds
<1> QED BY <1>2, EndStep

\* Ready() and over: the states from which a commit ends the run.
LEMMA RunEnds ==
  ASSUME ConvInv, NEW g \in Gens, conv.gens[g].phase # "ended", NEW s, Ready(s, g)
  PROVE  /\ RunOver(s, EndFailedRun(s, g))
         /\ \A status \in {"done", "unanswered"} : RunOver(s, EndRun(s, g, status))
         /\ \A at : RunOver(s, StartNext([ApplyBoundary(s, at) EXCEPT
                              !.conv = EndRun(ApplyBoundary(s, at).conv, g, "done")], FALSE))
         /\ \A at : RunOver(s, StartNext([ApplyBoundary(s, at) EXCEPT
                              !.conv = EndRun(ApplyBoundary(s, at).conv, g, "unanswered")], TRUE))
<1>1. s \in Conv /\ s.run.task = g /\ settings \in Setting
  BY LiveFacts, InvFacts DEF Ready
<1>2. RunOver(s, EndFailedRun(s, g))
  BY <1>1, EndFailedRunEnds
<1>3. \A status \in {"done", "unanswered"} : RunOver(s, EndRun(s, g, status))
  BY <1>1, EndRunEnds
<1>4. ASSUME NEW at
      PROVE  RunOver(s, StartNext([ApplyBoundary(s, at) EXCEPT
                              !.conv = EndRun(ApplyBoundary(s, at).conv, g, "done")], FALSE))
  BY <1>1, AnsweredOver
<1>5. ASSUME NEW at
      PROVE  RunOver(s, StartNext([ApplyBoundary(s, at) EXCEPT
                              !.conv = EndRun(ApplyBoundary(s, at).conv, g, "unanswered")], TRUE))
  BY <1>1, AnsweredOver
<1> QED BY <1>2, <1>3, <1>4, <1>5

LEMMA Held ==
  ASSUME ConvInv, UNCHANGED <<settings, jobs, trouble>>
  PROVE  settings' = settings /\ trouble' \in 0..MaxTrouble /\ jobs' = jobs
  BY DEF ConvInv, TypeOK

LEMMA EndAnsweredStep ==
  ASSUME ConvInv, NEW g \in Gens, conv.gens[g].phase # "ended", NEW s, Ready(s, g),
         conv' = EndAnswered(s, g), settings' = settings, trouble' \in 0..MaxTrouble,
         jobs' \subseteq jobs, g \notin jobs'
  PROVE  ConvInv'
<1> DEFINE m == StartNext([ApplyBoundary(s, "final") EXCEPT
                             !.conv = EndRun(ApplyBoundary(s, "final").conv, g, "done")], FALSE)
<1>1. RunOver(s, m)
  BY RunEnds
<1>2. conv' = End(m, g, "")
  BY DEF EndAnswered
<1> HIDE DEF m
<1> QED BY <1>1, <1>2, EndingStep DEF Causes

LEMMA EndFailedStep ==
  ASSUME ConvInv, NEW g \in Gens, conv.gens[g].phase # "ended", NEW s, Ready(s, g),
         NEW cause \in Causes, conv' = End(EndFailedRun(s, g), g, cause), settings' = settings,
         trouble' \in 0..MaxTrouble, jobs' \subseteq jobs,
         g \in jobs' => cause \in {"nomodel", "limit", "fault"}
  PROVE  ConvInv'
<1> DEFINE m == EndFailedRun(s, g)
<1>1. RunOver(s, m)
  BY RunEnds
<1>2. conv' = End(m, g, cause)
  OBVIOUS
<1> HIDE DEF m
<1> QED BY <1>1, <1>2, EndingStep

LEMMA EndRunStep ==
  ASSUME ConvInv, NEW g \in Gens, conv.gens[g].phase # "ended", NEW s, Ready(s, g),
         NEW status \in {"done", "unanswered"}, NEW cause \in Causes,
         conv' = End(EndRun(s, g, status), g, cause), settings' = settings,
         trouble' \in 0..MaxTrouble, jobs' \subseteq jobs,
         g \in jobs' => cause \in {"nomodel", "limit", "fault"}
  PROVE  ConvInv'
<1> DEFINE m == EndRun(s, g, status)
<1>1. RunOver(s, m)
  BY RunEnds
<1>2. conv' = End(m, g, cause)
  OBVIOUS
<1> HIDE DEF m
<1> QED BY <1>1, <1>2, EndingStep

\* In these phases no deferred response is under way.
LEMMA NoJob ==
  ASSUME ConvInv, NEW g \in Gens, conv.gens[g].phase # "ended", ~Polls(conv.gens[g])
  PROVE  g \notin jobs
  BY LiveFacts

LEMMA EndsPreserve ==
  ASSUME ConvInv, NEW g \in Gens,
         \/ PrepareFails(g) \/ NoModel(g) \/ Drain(g) \/ EndAnsweredCutOff(g) \/ EndCutOff(g)
         \/ Aborts(g) \/ Faults(g) \/ SchedulerEnds(g)
  PROVE  ConvInv'
<1> DEFINE t == conv.gens[g]
<1>0. Ready(conv, g)
  BY ReadySelf
<1>1. CASE PrepareFails(g)
  <2>1. t.phase = "prepare" /\ conv' = End(EndFailedRun(conv, g), g, "") /\ UNCHANGED <<settings, jobs, trouble>>
    BY <1>1 DEF PrepareFails, InPhase
  <2>2. g \notin jobs
    BY <2>1, NoJob DEF Polls
  <2> QED BY <1>0, <2>1, <2>2, Held, EndFailedStep DEF Causes
<1>2. CASE NoModel(g)
  <2> DEFINE s == IF t.phase = "request" THEN ConvertPartial(conv, g) ELSE conv
  <2>1. /\ t.phase \in {"prepare", "request", "poll"} /\ conv' = End(EndFailedRun(s, g), g, "nomodel")
        /\ UNCHANGED <<settings, jobs, trouble>>
    BY <1>2 DEF NoModel, InPhase
  <2>2. t.phase # "ended"
    BY <2>1
  <2>3. Ready(s, g)
    BY <1>0, <2>2, ReadyConvert
  <2> HIDE DEF s
  <2> QED BY <2>1, <2>2, <2>3, Held, EndFailedStep DEF Causes
<1>3. CASE Drain(g)
  <2>1. t.phase = "drain" /\ conv' = EndAnswered(conv, g) /\ UNCHANGED <<settings, jobs, trouble>>
    BY <1>3 DEF Drain, InPhase
  <2>2. g \notin jobs
    BY <2>1, NoJob DEF Polls
  <2> QED BY <1>0, <2>1, <2>2, Held, EndAnsweredStep
<1>4. CASE EndAnsweredCutOff(g)
  <2>1. /\ t.phase \in {"finish", "drain"} /\ conv' = End(EndRun(conv, g, "done"), g, "")
        /\ UNCHANGED <<settings, jobs, trouble>>
    BY <1>4 DEF EndAnsweredCutOff, InPhase
  <2>2. g \notin jobs /\ t.phase # "ended"
    BY <2>1, NoJob DEF Polls
  <2> QED BY <1>0, <2>1, <2>2, Held, EndRunStep DEF Causes
<1>5. CASE EndCutOff(g)
  <2> DEFINE kept == IF Salvageable(t) THEN ConvertPartial(conv, g) ELSE conv
             cause == IF Salvageable(t) THEN "" ELSE "limit"
             s == Unstarted(kept, g)
  <2>1. /\ t.phase # "ended" /\ conv' = End(EndFailedRun(s, g), g, cause)
        /\ jobs' = IF Salvageable(t) /\ Polls(t) THEN jobs \ {g} ELSE jobs
        /\ UNCHANGED <<settings, trouble>>
    BY <1>5 DEF EndCutOff, InPhase
  <2>2. Ready(kept, g)
    BY <1>0, <2>1, ReadyConvert
  <2> HIDE DEF kept
  <2>3. Ready(s, g)
    BY <2>2, ReadyUnstarted
  <2>4. jobs' \subseteq jobs /\ (g \in jobs' => cause \in {"nomodel", "limit", "fault"})
    BY <2>1, NoJob
  <2>5. cause \in Causes /\ settings' = settings /\ trouble' \in 0..MaxTrouble
    BY <2>1 DEF Causes, ConvInv, TypeOK
  <2> HIDE DEF s, cause
  <2> QED BY <2>1, <2>3, <2>4, <2>5, EndFailedStep
<1>6. CASE Aborts(g)
  <2> DEFINE c == ConvertPartial(conv, g)
             unstarted == IF t.phase = "tools" THEN InOrder(Pending(conv), Len(conv.slots)) ELSE <<>>
             s == Results(c, unstarted)
  <2>1. /\ t.phase # "ended" /\ conv' = End(EndRun(s, g, "unanswered"), g, "")
        /\ jobs' = IF Polls(t) THEN jobs \ {g} ELSE jobs
        /\ UNCHANGED <<settings, trouble>>
    BY <1>6 DEF Aborts
  <2>2. Ready(c, g)
    BY <2>1, ReadyConvert
  <2>3. unstarted \in Seq(Nat)
    BY InvFacts, SlotNumbers, InOrderType
  <2>4. unstarted # <<>> => conv.slots # <<>>
    <3> SUFFICES ASSUME conv.slots = <<>>, t.phase = "tools" PROVE unstarted = <<>>
      OBVIOUS
    <3>1. Len(conv.slots) = 0
      OBVIOUS
    <3>2. unstarted \in Seq(1..0)
      BY <3>1, InOrderType
    <3> HIDE DEF unstarted
    <3>3. \A k \in 1..Len(unstarted) : unstarted[k] \in 1..0
      BY <3>2
    <3>4. Len(unstarted) \in Nat /\ ~(1 <= Len(unstarted))
      BY <3>2, <3>3
    <3> QED BY <3>2, <3>4
  <2>5. unstarted # <<>> => Assistant(c) \in Nat
    BY <2>2, <2>4, ReadyAssistant
  <2> HIDE DEF c, unstarted
  <2>6. Lengthened(c, s)
    BY <2>2, <2>3, <2>5, ResultsLengthened DEF Ready
  <2>7. Ready(s, g)
    BY <2>2, <2>6, ReadyLengthened
  <2>8. jobs' \subseteq jobs /\ g \notin jobs'
    BY <2>1, NoJob
  <2> HIDE DEF s
  <2> QED BY <2>1, <2>7, <2>8, EndRunStep DEF Causes, ConvInv, TypeOK
<1>7. CASE Faults(g)
  <2> DEFINE c == ConvertPartial(conv, g)
             s == Unstarted(c, g)
  <2>1. /\ t.phase # "ended" /\ conv' = End(EndRun(s, g, "unanswered"), g, "fault")
        /\ MoreTrouble("fault") /\ trouble' = trouble + 1 /\ UNCHANGED <<settings, jobs>>
    BY <1>7 DEF Faults
  <2>2. Ready(c, g)
    BY <2>1, ReadyConvert
  <2> HIDE DEF c
  <2>3. Ready(s, g)
    BY <2>2, ReadyUnstarted
  <2>4. trouble' \in 0..MaxTrouble
    BY <2>1, MoreTroubleCounts
  <2> HIDE DEF s
  <2> QED BY <2>1, <2>3, <2>4, EndRunStep DEF Causes
<1>8. CASE SchedulerEnds(g)
  <2> DEFINE s == Unstarted(conv, g)
  <2>1. /\ t.phase # "ended" /\ conv' = End(EndRun(s, g, "unanswered"), g, "fault")
        /\ UNCHANGED <<settings, jobs, trouble>>
    BY <1>8 DEF SchedulerEnds
  <2>2. Ready(s, g)
    BY <1>0, ReadyUnstarted
  <2> HIDE DEF s
  <2> QED BY <2>1, <2>2, Held, EndRunStep DEF Causes
<1> QED BY <1>1, <1>2, <1>3, <1>4, <1>5, <1>6, <1>7, <1>8

-----------------------------------------------------------------------------
(* The actions that hand a run on                                           *)

LEMMA HandOverCreates ==
  ASSUME NEW s \in Conv, NEW g, s.run.task = g, NEW r, r = HandOver(CreateGeneration(s), g)
  PROVE  /\ Created(s, r) /\ r.run = [s.run EXCEPT !.task = Len(s.gens) + 1]
         /\ r.slots = s.slots /\ r.partial = s.partial
<1> DEFINE c == CreateGeneration(s)
           run == [s.run EXCEPT !.task = Len(s.gens) + 1]
<1>1. /\ Created(s, c) /\ c.run = s.run /\ c.slots = s.slots /\ c.partial = s.partial
  BY CreateGenerationCreates
<1> HIDE DEF c
<1>2. c \in Conv /\ c.gens = Append(s.gens, NewGeneration) /\ s.gens \in Seq(Gen)
  BY <1>1 DEF Created, Conv
<1>3. Len(c.gens) = Len(s.gens) + 1 /\ Len(c.gens) \in Nat
  BY <1>2
<1>4. r = [c EXCEPT !.run.task = Len(c.gens)]
  BY <1>1 DEF HandOver, c
<1>5. r = [c EXCEPT !.run = run]
  BY <1>1, <1>2, <1>3, <1>4 DEF Conv
<1>6. run \in Run
  <2>1. s.run \in Run /\ Len(s.gens) + 1 \in Nat
    BY <1>3 DEF Conv
  <2> QED BY <2>1 DEF Run
<1> HIDE DEF run
<1>7. /\ r \in Conv /\ r.run = run /\ r.slots = c.slots /\ r.partial = c.partial /\ r.gens = c.gens
      /\ r.comps = c.comps /\ r.lost = c.lost /\ r.entries = c.entries
  BY <1>2, <1>5, <1>6 DEF Conv
<1> QED BY <1>1, <1>7 DEF Created, run

LEMMA AfterToolsOver ==
  ASSUME ConvInv, NEW g \in Gens, conv.gens[g].phase # "ended", NEW s, Ready(s, g), s.partial = "none"
  PROVE  RunOver(s, AfterTools(s, g))
<1> DEFINE b == ApplyBoundary(s, "postTools")
           cut == [b EXCEPT !.conv = EndRun(b.conv, g, "unanswered")]
           inputs == IF b.conv.run.task = g THEN b.conv.run.inputs \o b.users ELSE b.conv.run.inputs
           joined == [b.conv EXCEPT !.slots = <<>>,
                        !.run.inputs = IF b.conv.run.task = g THEN @ \o b.users ELSE @]
           r == HandOver(CreateGeneration(joined), g)
<1>1. AfterTools(s, g) = IF b.reset THEN StartNext(cut, TRUE) ELSE r
  BY DEF AfterTools
<1>2. RunOver(s, StartNext(cut, TRUE))
  BY RunEnds
<1>3. s \in Conv /\ s.run.task = g
  BY LiveFacts DEF Ready
<1>4. Framed(s, b.conv) /\ b.users \in Seq(Nat)
  BY <1>3, BoundaryFramed
<1> DEFINE f == b.conv
<1>5. f \in Conv /\ f.run \in Run /\ f.run.task = g /\ f.partial = "none"
  BY <1>3, <1>4 DEF Framed, Conv
<1>6. joined = [f EXCEPT !.slots = <<>>, !.run = [f.run EXCEPT !.inputs = inputs]]
  BY <1>5
<1>7. inputs \in Seq(Nat)
  <2>1. f.run.inputs \in Seq(Nat)
    BY <1>5 DEF Run
  <2> HIDE DEF b
  <2> QED BY <1>4, <2>1
<1>8. joined \in Conv /\ joined.run.task = g /\ joined.slots = <<>> /\ joined.partial = "none"
      /\ joined.entries = f.entries /\ joined.comps = f.comps /\ joined.lost = f.lost
      /\ joined.gens = f.gens
  <2> HIDE DEF inputs, f
  <2> DEFINE run == [f.run EXCEPT !.inputs = inputs]
  <2>1. run \in Run /\ run.task = g
    BY <1>5, <1>7 DEF Run
  <2>2. <<>> \in Seq(Slot)
    OBVIOUS
  <2>3. joined = [f EXCEPT !.slots = <<>>, !.run = run]
    BY <1>6
  <2> HIDE DEF run, joined
  <2>4. /\ joined \in Conv /\ joined.run = run /\ joined.slots = <<>> /\ joined.partial = f.partial
        /\ joined.entries = f.entries /\ joined.comps = f.comps /\ joined.lost = f.lost
        /\ joined.gens = f.gens
    BY <1>5, <2>1, <2>2, <2>3 DEF Conv
  <2> QED BY <1>5, <2>1, <2>4
<1> HIDE DEF joined
<1>9. /\ Created(joined, r) /\ r.run = [joined.run EXCEPT !.task = Len(joined.gens) + 1]
      /\ r.slots = <<>> /\ r.partial = "none"
  BY <1>8, HandOverCreates
<1> HIDE DEF r
<1>10. r.run.task = Len(f.gens) + 1
  BY <1>8, <1>9 DEF Conv, Run
<1>11. /\ s.entries \in Seq(EntryType) /\ f.entries \in Seq(EntryType) /\ r.entries \in Seq(EntryType)
       /\ r \in Conv
  BY <1>3, <1>5, <1>9 DEF Created, Conv
<1> HIDE DEF b
<1>12. Grows(s.entries, r.entries)
  BY <1>4, <1>8, <1>9, <1>11, GrowsTrans DEF Framed, Created
<1>13. RunOver(s, r)
  BY <1>4, <1>8, <1>9, <1>10, <1>11, <1>12 DEF RunOver, Framed, Created
<1> QED BY <1>1, <1>2, <1>13

\* The last case of answer(): the next generation continues the run.
Continued(s, g) ==
  [End(HandOver(CreateGeneration(
         AppendEntry(ApplyBoundary(s, "final").conv, Entry("continuation", 0, 0))), g), g, "")
     EXCEPT !.run.turns = 0, !.partial = "none"]

LEMMA ContinuedEnds ==
  ASSUME ConvInv, NEW g \in Gens, conv.gens[g].phase # "ended", NEW s, Ready(s, g)
  PROVE  Ends(s, Continued(s, g), g, "")
<1> DEFINE f == ApplyBoundary(s, "final").conv
           e == Entry("continuation", 0, 0)
           next == AppendEntry(f, e)
           h == HandOver(CreateGeneration(next), g)
           gens == [h.gens EXCEPT ![g] = Over("")]
           run == [h.run EXCEPT !.turns = 0]
           r == Continued(s, g)
<1>1. s \in Conv /\ s.run.task = g /\ s.gens = conv.gens
  BY LiveFacts DEF Ready
<1>2. Framed(s, f)
  BY <1>1, BoundaryFramed
<1>3. e \in EntryType /\ e.kind \notin TaskKinds
  BY EntryTyped DEF SaidKinds, TaskKinds
<1> HIDE DEF e
<1>4. Framed(f, next)
  BY <1>2, <1>3, AppendFramed DEF Framed
<1>5. Framed(s, next)
  BY <1>1, <1>2, <1>4, FramedTrans
<1>6. r = [End(h, g, "") EXCEPT !.run.turns = 0, !.partial = "none"]
  BY DEF Continued, e
<1> HIDE DEF f, next, r
<1>7. next \in Conv /\ next.run.task = g
  BY <1>1, <1>5 DEF Framed
<1>8. /\ Created(next, h) /\ h.run = [next.run EXCEPT !.task = Len(next.gens) + 1]
      /\ h.slots = next.slots
  BY <1>7, HandOverCreates
<1> HIDE DEF h
<1>9. h.run.task = Len(s.gens) + 1
  BY <1>5, <1>7, <1>8 DEF Framed, Conv, Run
<1>10. h \in Conv /\ h.gens \in Seq(Gen) /\ h.run \in Run
  BY <1>8 DEF Created, Conv
<1>11. r = [h EXCEPT !.gens = gens, !.run = run, !.partial = "none"]
  BY <1>6, <1>10 DEF End, Over, Conv
<1>12. gens \in Seq(Gen)
  BY <1>10, OverTyped, SeqExcept DEF Causes
<1>13. run \in Run /\ run.task = h.run.task
  BY <1>10 DEF Run
<1> HIDE DEF gens, run
<1>14. /\ r \in Conv /\ r.gens = gens /\ r.run = run /\ r.partial = "none" /\ r.slots = h.slots
       /\ r.comps = h.comps /\ r.lost = h.lost /\ r.entries = h.entries
  BY <1>10, <1>11, <1>12, <1>13 DEF Conv
<1>15. s.entries \in Seq(EntryType) /\ next.entries \in Seq(EntryType) /\ h.entries \in Seq(EntryType)
  BY <1>1, <1>7, <1>10 DEF Conv
<1>16. Grows(s.entries, r.entries)
  BY <1>5, <1>8, <1>14, <1>15, GrowsTrans DEF Framed, Created
<1>17. r.gens = [Append(s.gens, NewGeneration) EXCEPT ![g] = Over("")]
  BY <1>5, <1>8, <1>14 DEF Framed, Created, gens
<1> QED BY <1>5, <1>8, <1>9, <1>13, <1>14, <1>16, <1>17 DEF Ends, Framed, Created, r

-----------------------------------------------------------------------------
(* The actions that change a generation                                     *)

\* s with u for the record of generation g.
WithGen(s, g, u) == [s EXCEPT !.gens = Put(s.gens, g, u)]

LEMMA WithGenTyped ==
  ASSUME NEW s \in Conv, NEW g, NEW u \in Gen, NEW r, r = WithGen(s, g, u)
  PROVE  /\ r \in Conv /\ r.gens = Put(s.gens, g, u) /\ DOMAIN r.gens = DOMAIN s.gens
         /\ r.subs = s.subs /\ r.inbox = s.inbox /\ r.entries = s.entries /\ r.run = s.run
         /\ r.slots = s.slots /\ r.comps = s.comps /\ r.partial = s.partial
         /\ r.failure = s.failure /\ r.lost = s.lost
<1> DEFINE gens == Put(s.gens, g, u)
<1>1. gens \in Seq(Gen) /\ DOMAIN gens = DOMAIN s.gens
  <2>1. s.gens \in Seq(Gen)
    BY DEF Conv
  <2> QED BY <2>1, SeqExcept DEF Put
<1>2. r = [s EXCEPT !.gens = gens]
  BY DEF WithGen
<1> HIDE DEF gens
<1>3. /\ r \in Conv /\ r.gens = gens /\ r.subs = s.subs /\ r.inbox = s.inbox
      /\ r.entries = s.entries /\ r.run = s.run
      /\ r.slots = s.slots /\ r.comps = s.comps /\ r.partial = s.partial
      /\ r.failure = s.failure /\ r.lost = s.lost
  BY <1>1, <1>2 DEF Conv
<1> QED BY <1>1, <1>3 DEF gens

\* What Moved() makes of a record.
Going(t, phase, status) ==
  [t EXCEPT !.phase = phase, !.status = status, !.restarts = 0, !.fly = "none", !.seen = <<>>]

Phases == {"prepare", "request", "retry", "poll", "tools", "finish", "drain"}

LEMMA GoingTyped ==
  ASSUME NEW t \in Gen, NEW phase \in Phases, NEW status \in Statuses,
         NEW u, u = Going(t, phase, status)
  PROVE  /\ u \in Gen /\ u.phase = phase /\ u.status = status /\ u.restarts = 0 /\ u.fly = "none"
         /\ u.attempt = t.attempt /\ u.marked = t.marked /\ u.comp = t.comp /\ u.cause = t.cause
         /\ u.poll = t.poll /\ u.tasks = t.tasks /\ u.sent = t.sent /\ u.resent = t.resent
<1>1. <<>> \in Seq(Nat)
  OBVIOUS
<1> QED BY <1>1 DEF Going, Gen, Phases

LEMMA MovedIs ==
  ASSUME NEW s, NEW g, NEW phase, NEW status
  PROVE  Moved(s, g, phase, status) = WithGen(s, g, Going(s.gens[g], phase, status))
  BY DEF Moved, Going, WithGen, Put

LEMMA GoingSound ==
  ASSUME NEW t \in Gen, NEW retries \in Nat, TaskSound(t, retries),
         NEW phase \in Phases \ {"prepare", "request"}, NEW status \in Statuses,
         phase = "retry" => t.attempt <= retries,
         NEW u, u = Going(t, phase, status)
  PROVE  TaskSound(u, retries) /\ ~Unsent(u) /\ u.phase # "ended"
<1>1. u.phase = phase /\ u.fly = "none" /\ u.attempt = t.attempt /\ u.comp = t.comp
        /\ u.sent = t.sent /\ u.resent = t.resent
  BY GoingTyped
<1>2. t.attempt \in Nat /\ t.sent \in Nat /\ t.resent \in Nat
  BY DEF Gen
<1>3. t.attempt <= retries + 1 /\ t.sent <= t.attempt + (IF t.comp = 0 THEN 0 ELSE 1) + t.resent
  BY <1>2 DEF TaskSound
<1> QED BY <1>1, <1>2, <1>3 DEF TaskSound, Unsent, Phases

LEMMA RetriesNat == ASSUME ConvInv PROVE settings.retries \in Nat
  BY InvFacts DEF Setting

LEMMA HoldRunStep ==
  ASSUME ConvInv, NEW g \in Gens, conv.gens[g].phase # "ended", NEW s, Ready(s, g),
         conv' = HoldRun(s, g), settings' = settings, trouble' \in 0..MaxTrouble,
         jobs' \subseteq jobs, g \notin jobs'
  PROVE  ConvInv'
<1> DEFINE t == conv.gens[g]
           u == Going(t, "finish", "running")
           m == Moved(s, g, "finish", "running")
           c == Settle(m, ToSet(s.run.inputs), "done")
           run == [c.run EXCEPT !.inputs = <<>>, !.answered = TRUE]
           r == HoldRun(s, g)
<1>1. /\ s \in Conv /\ s.gens = conv.gens /\ s.run = conv.run /\ s.comps = conv.comps
      /\ Says(conv.entries, s.entries, g, t.sent)
  BY DEF Ready
<1>2. t \in Gen /\ TaskSound(t, settings.retries) /\ settings.retries \in Nat
  BY LiveFacts, RetriesNat
<1>3. m = WithGen(s, g, u)
  BY <1>1, MovedIs
<1> HIDE DEF t
<1>4. u \in Gen /\ u.phase = "finish" /\ u.fly = "none" /\ u.sent = t.sent
        /\ u.resent = t.resent /\ u.comp = t.comp /\ u.poll = t.poll
  BY <1>2, GoingTyped DEF Phases, Statuses
<1>5. TaskSound(u, settings.retries) /\ ~Unsent(u)
  BY <1>2, GoingSound DEF Phases, Statuses
<1> HIDE DEF u, m
<1>6. m \in Conv /\ m.gens = Put(conv.gens, g, u) /\ m.entries = s.entries /\ m.run = conv.run
      /\ m.comps = conv.comps
  BY <1>1, <1>3, <1>4, WithGenTyped
<1>7. Framed(m, c) /\ c.entries = m.entries
  BY <1>6, SettleFramed DEF SubStatus
<1>8. r = [c EXCEPT !.run.inputs = <<>>, !.run.answered = TRUE, !.partial = "none", !.slots = <<>>]
  BY DEF HoldRun, c, m
<1> HIDE DEF c, r
<1>9. c \in Conv /\ c.run \in Run
  BY <1>7 DEF Framed, Conv
<1>10. r = [c EXCEPT !.run = run, !.partial = "none", !.slots = <<>>]
  BY <1>8, <1>9 DEF Conv
<1>11. run \in Run /\ run.task = c.run.task
  <2>1. <<>> \in Seq(Nat)
    OBVIOUS
  <2> QED BY <1>9, <2>1 DEF Run
<1> HIDE DEF run
<1>12. /\ r \in Conv /\ r.run = run /\ r.partial = "none" /\ r.slots = <<>> /\ r.gens = c.gens
       /\ r.entries = c.entries /\ r.comps = c.comps
  <2>1. <<>> \in Seq(Slot)
    OBVIOUS
  <2> QED BY <1>9, <1>10, <1>11, <2>1 DEF Conv
<1>13. conv' = r
  BY DEF r
<1>14. CallsKnown' /\ SlotsOnce'
  <2>1. SlotsKept(conv, conv')
    BY <1>1, <1>6, <1>7, <1>12, <1>13 DEF SlotsKept, Says
  <2> QED BY <1>12, <1>13, <2>1, SlotsKeep
<1>15. Bounded
  BY <1>12, <1>13, <1>14 DEF Bounded
<1>16. Comps' = Comps /\ u.comp \in {0} \cup Comps'
  <2>1. Comps' = Comps
    BY <1>6, <1>7, <1>12, <1>13 DEF Comps, Framed
  <2> QED BY <1>4, <2>1 DEF ConvInv, TypeOK, t
<1>17. conv'.gens = Put(conv.gens, g, u) /\ conv'.run.task = conv.run.task
       /\ Says(conv.entries, conv'.entries, g, conv.gens[g].sent) /\ conv'.partial = "none"
  BY <1>1, <1>6, <1>7, <1>11, <1>12, <1>13 DEF Framed, t
<1>18. ~Polls(u) /\ conv.gens[g].sent <= u.sent /\ u.fly # "streaming" /\ u.phase # "ended"
  <2>1. t.sent \in Nat /\ t.resent \in Nat
    BY <1>2 DEF Gen
  <2> QED BY <1>4, <2>1 DEF Polls, t
<1>19. jobs' \subseteq jobs \cup {g}
  OBVIOUS
<1> QED BY <1>4, <1>5, <1>15, <1>16, <1>17, <1>18, <1>19, MoveStep

LEMMA AnswerPreserves ==
  ASSUME ConvInv, NEW g \in Gens, NEW continuation \in BOOLEAN, Answer(g, continuation)
  PROVE  ConvInv'
<1> DEFINE t == conv.gens[g]
           s == Say(conv, g, "answer")
<1>1. /\ t.phase # "ended" /\ jobs' = jobs \ {g} /\ settings' = settings /\ trouble' \in 0..MaxTrouble
      /\ Polls(t) \/ t.fly = "streaming"
  BY DEF Answer, Answered, InPhase, ConvInv, TypeOK, Polls
<1>2. ~SaidBy(conv.entries, g, t.sent)
  BY <1>1, LiveFacts
<1>3. Ready(s, g)
  BY <1>2, ReadySay DEF SaidKinds
<1>4. \/ conv' = Continued(s, g)
      \/ conv' = HoldRun(s, g)
      \/ conv' = EndAnswered(s, g)
  BY DEF Answer, Continued
<1>5. jobs' \subseteq jobs /\ g \notin jobs'
  BY <1>1
<1> HIDE DEF s
<1>6. CASE conv' = Continued(s, g)
  BY <1>1, <1>3, <1>5, <1>6, ContinuedEnds, EndStep DEF Causes
<1>7. CASE conv' = HoldRun(s, g)
  BY <1>1, <1>3, <1>5, <1>7, HoldRunStep
<1>8. CASE conv' = EndAnswered(s, g)
  BY <1>1, <1>3, <1>5, <1>8, EndAnsweredStep
<1> QED BY <1>4, <1>6, <1>7, <1>8

LEMMA FinishToolRoundPreserves ==
  ASSUME ConvInv, NEW g \in Gens, FinishToolRound(g)
  PROVE  ConvInv'
<1> DEFINE t == conv.gens[g]
           e == Entry("handoff", 0, 0)
           s == IF \E c \in DOMAIN conv.slots : "handoff" \in conv.slots[c].control
                THEN AppendEntry(conv, e) ELSE conv
           m == AfterTools(s, g)
<1>1. t.phase = "tools" /\ UNCHANGED <<settings, jobs, trouble>>
  BY DEF FinishToolRound, InPhase
<1>2. \/ conv' = HoldRun(s, g)
      \/ conv' = EndAnswered(s, g)
      \/ conv' = End(EndFailedRun(s, g), g, "")
      \/ conv' = End(AfterTools(s, g), g, "")
  BY DEF FinishToolRound
<1>3. g \notin jobs /\ settings' = settings /\ jobs' = jobs /\ trouble' \in 0..MaxTrouble
  BY <1>1, NoJob, Held DEF Polls
<1>4. Ready(s, g) /\ s.partial = "none"
  <2>0. e \in EntryType /\ e.kind = "handoff"
    BY EntryTyped
  <2>1. e \in EntryType /\ e.kind \notin TaskKinds
    BY <2>0 DEF SaidKinds, TaskKinds
  <2> HIDE DEF e
  <2>2. Framed(conv, AppendEntry(conv, e)) /\ Framed(conv, conv)
    BY <2>1, AppendFramed, FramedSelf, InvFacts
  <2>3. Framed(conv, s)
    BY <2>2
  <2> HIDE DEF s
  <2>4. Ready(s, g)
    BY <2>3, ReadySelf, ReadyFramed
  <2>5. conv.partial = "none"
    BY <1>1, LiveFacts
  <2> QED BY <2>3, <2>4, <2>5 DEF Framed
<1> HIDE DEF s, t
<1>5. conv.gens[g].phase # "ended"
  BY <1>1 DEF t
<1>6. CASE conv' = HoldRun(s, g)
  BY <1>3, <1>4, <1>5, <1>6, HoldRunStep
<1>7. CASE conv' = EndAnswered(s, g)
  BY <1>3, <1>4, <1>5, <1>7, EndAnsweredStep
<1>8. CASE conv' = End(EndFailedRun(s, g), g, "")
  BY <1>3, <1>4, <1>5, <1>8, EndFailedStep DEF Causes
<1>9. CASE conv' = End(m, g, "")
  <2>1. RunOver(s, m)
    BY <1>4, <1>5, AfterToolsOver
  <2> HIDE DEF m
  <2> QED BY <1>3, <1>4, <1>5, <1>9, <2>1, EndingStep DEF Causes
<1> QED BY <1>2, <1>6, <1>7, <1>8, <1>9

LEMMA PutTwice ==
  ASSUME NEW q \in Seq(Gen), NEW g \in DOMAIN q, NEW u, NEW v
  PROVE  Put(Put(q, g, u), g, v) = Put(q, g, v)
  BY DEF Put

LEMMA PutAt == ASSUME NEW q, NEW g \in DOMAIN q, NEW u PROVE Put(q, g, u)[g] = u
  BY DEF Put

LEMMA PutDomain == ASSUME NEW q, NEW g, NEW u PROVE DOMAIN Put(q, g, u) = DOMAIN q
  BY DEF Put

WithPartial(s, p) == [s EXCEPT !.partial = p]

LEMMA WithPartialTyped ==
  ASSUME NEW s \in Conv, NEW p \in {"none", "memory", "stored"}, NEW r, r = WithPartial(s, p)
  PROVE  /\ r \in Conv /\ r.gens = s.gens /\ r.subs = s.subs /\ r.inbox = s.inbox
         /\ r.entries = s.entries /\ r.run = s.run /\ r.slots = s.slots /\ r.comps = s.comps
         /\ r.partial = p /\ r.failure = s.failure /\ r.lost = s.lost
  BY DEF WithPartial, Conv

NewComp(owner, background) ==
  [phase |-> "select", status |-> "ready", owner |-> owner, background |-> background,
   restarts |-> 0, marked |-> FALSE, attempt |-> 1, cut |-> 0, out |-> ""]

WithComp(s, k) == [s EXCEPT !.comps = Append(s.comps, k)]

LEMMA CreateCompactionIs ==
  ASSUME NEW s, NEW owner \in Nat
  PROVE  /\ CreateCompaction(s, owner, FALSE) = WithComp(s, NewComp(owner, FALSE))
         /\ CreateCompaction(s, owner, TRUE) = WithComp(s, NewComp(owner, TRUE))
         /\ NewComp(owner, FALSE) \in Comp /\ NewComp(owner, TRUE) \in Comp
<1>1. /\ CreateCompaction(s, owner, FALSE) = WithComp(s, NewComp(owner, FALSE))
      /\ CreateCompaction(s, owner, TRUE) = WithComp(s, NewComp(owner, TRUE))
  BY DEF CreateCompaction, WithComp, NewComp
<1>2. NewComp(owner, FALSE) \in Comp /\ NewComp(owner, TRUE) \in Comp
  BY DEF NewComp, Comp, Statuses
<1> QED BY <1>1, <1>2

LEMMA CompactionCreated ==
  ASSUME NEW s \in Conv, NEW k \in Comp, NEW r, r = WithComp(s, k)
  PROVE  /\ r \in Conv /\ r.gens = s.gens /\ r.subs = s.subs /\ r.inbox = s.inbox
         /\ r.entries = s.entries /\ r.run = s.run /\ r.slots = s.slots /\ r.partial = s.partial
         /\ r.failure = s.failure /\ r.lost = s.lost
         /\ DOMAIN s.comps \subseteq DOMAIN r.comps /\ Len(s.comps) + 1 \in DOMAIN r.comps
         /\ Len(s.comps) \in Nat
<1> DEFINE comps == Append(s.comps, k)
<1>2. r = [s EXCEPT !.comps = comps]
  BY DEF WithComp
<1>3. s.comps \in Seq(Comp)
  BY DEF Conv
<1>4. comps \in Seq(Comp) /\ DOMAIN s.comps \subseteq DOMAIN comps /\ Len(s.comps) + 1 \in DOMAIN comps
      /\ Len(s.comps) \in Nat
  BY <1>3
<1> HIDE DEF comps
<1>5. /\ r \in Conv /\ r.gens = s.gens /\ r.subs = s.subs /\ r.inbox = s.inbox
      /\ r.entries = s.entries /\ r.run = s.run /\ r.slots = s.slots /\ r.partial = s.partial
      /\ r.failure = s.failure /\ r.lost = s.lost /\ r.comps = comps
  BY <1>2, <1>4 DEF Conv
<1> QED BY <1>4, <1>5

LEMMA MessagesTyped ==
  ASSUME NEW es \in Seq(EntryType)
  PROVE  Messages(es) \in Seq(Nat)
<1> DEFINE S == {0} \cup {i \in DOMAIN es : HeadOf(es, i) # 0}
           i == LatestHeadMarker(es)
           rest == InOrder(Active(es, Roles \ {"none"}), Len(es))
<1>1. DOMAIN es = 1..Len(es) /\ Len(es) \in Nat
  OBVIOUS
<1>2. i \in Nat
  <2>1. S \subseteq Nat /\ S # {} /\ \A x \in S : x <= Len(es)
    BY <1>1
  <2>2. i = Max(S)
    BY DEF LatestHeadMarker
  <2> HIDE DEF S, i
  <2> QED BY <1>1, <2>1, <2>2, MaxIn
<1>3. rest \in Seq(Nat)
  <2>1. rest \in Seq(1..Len(es))
    BY <1>1, InOrderType
  <2> HIDE DEF rest
  <2> QED BY <2>1
<1>4. Messages(es) = IF i # 0 /\ Role(es[i]) # "none" THEN <<i>> \o rest ELSE rest
  BY DEF Messages
<1> HIDE DEF i, rest
<1> QED BY <1>2, <1>3, <1>4

\* What generation g is now, and its conversation apart from tasks and run.
LEMMA MoveFrom ==
  ASSUME ConvInv, NEW g \in Gens, conv.gens[g].phase # "ended", NEW u \in Gen, u.phase # "ended",
         TaskSound(u, settings.retries), settings' = settings, trouble' \in 0..MaxTrouble,
         conv' \in Conv, conv'.gens = Put(conv.gens, g, u), conv'.run = conv.run,
         Says(conv.entries, conv'.entries, g, conv.gens[g].sent), conv'.slots = conv.slots,
         Comps \subseteq Comps', u.comp \in {conv.gens[g].comp} \cup Comps', conv.gens[g].sent <= u.sent,
         jobs' \subseteq jobs \cup {g}, g \in jobs' => Polls(u),
         conv'.partial # "none" => u.phase = "request",
         Polls(u) \/ u.fly = "streaming" \/ conv'.partial # "none" => ~SaidBy(conv'.entries, g, u.sent)
  PROVE  ConvInv'
<1>1. SlotsKept(conv, conv')
  BY DEF SlotsKept, Says
<1>2. Bounded
  BY <1>1, SlotsKeep DEF Bounded
<1>3. u.comp \in {0} \cup Comps'
  BY DEF ConvInv, TypeOK
<1>4. conv'.run.task = conv.run.task
  OBVIOUS
<1> QED BY <1>2, <1>3, <1>4, MoveStep

LEMMA ReservePreserves == ASSUME ConvInv, NEW g \in Gens, Reserve(g) PROVE ConvInv'
<1> DEFINE t == conv.gens[g]
           u == [t EXCEPT !.status = "running"]
<1>1. /\ t.phase # "ended" /\ t.status # "running" /\ UNCHANGED <<settings, jobs, trouble>>
      /\ conv' = WithGen(conv, g, u)
  BY DEF Reserve, WithGen, Put
<1>2. t \in Gen /\ TaskSound(t, settings.retries) /\ conv \in Conv
  BY <1>1, LiveFacts, InvFacts
<1>3. /\ conv.partial # "none" => t.phase = "request"
      /\ Polls(t) \/ t.fly = "streaming" \/ conv.partial # "none" => ~SaidBy(conv.entries, g, t.sent)
      /\ g \in jobs => Polls(t)
  BY <1>1, LiveFacts
<1>4. settings' = settings /\ jobs' = jobs /\ trouble' \in 0..MaxTrouble
  BY <1>1, Held
<1> HIDE DEF t
<1>5. /\ u \in Gen /\ u.phase = t.phase /\ u.fly = t.fly /\ u.attempt = t.attempt /\ u.marked = t.marked
      /\ u.comp = t.comp /\ u.cause = t.cause /\ u.poll = t.poll /\ u.sent = t.sent
      /\ u.resent = t.resent
      /\ u.restarts = t.restarts /\ u.status = "running" /\ t.sent \in Nat /\ t.resent \in Nat
  BY <1>2 DEF Gen, Statuses
<1> HIDE DEF u
<1>6. TaskSound(u, settings.retries)
  BY <1>1, <1>2, <1>5 DEF TaskSound, Unsent
<1>7. Unsent(u) = Unsent(t) /\ Polls(u) = Polls(t)
  BY <1>5 DEF Unsent, Polls
<1>8. /\ conv' \in Conv /\ conv'.gens = Put(conv.gens, g, u) /\ conv'.entries = conv.entries
      /\ conv'.run = conv.run /\ conv'.slots = conv.slots /\ conv'.comps = conv.comps
      /\ conv'.partial = conv.partial
  BY <1>1, <1>2, <1>5, WithGenTyped
<1>9. Says(conv.entries, conv'.entries, g, conv.gens[g].sent)
  BY <1>8, InvFacts, GrowsSelf, GrowsSays
<1>10. Comps \subseteq Comps'
  BY <1>8 DEF Comps
<1>11. jobs' \subseteq jobs \cup {g} /\ (g \in jobs' => Polls(u)) /\ u.phase # "ended"
       /\ u.comp \in {conv.gens[g].comp} \cup Comps' /\ conv.gens[g].sent <= u.sent
       /\ conv.gens[g].phase # "ended"
  BY <1>1, <1>3, <1>4, <1>5, <1>7 DEF t
<1>12. /\ conv'.partial # "none" => u.phase = "request"
       /\ Polls(u) \/ u.fly = "streaming" \/ conv'.partial # "none" => ~SaidBy(conv'.entries, g, u.sent)
  BY <1>3, <1>5, <1>7, <1>8
<1> QED BY <1>4, <1>5, <1>6, <1>8, <1>9, <1>10, <1>11, <1>12, MoveFrom

LEMMA PrepareReadsPreserves == ASSUME ConvInv, NEW g \in Gens, PrepareReads(g) PROVE ConvInv'
<1> DEFINE t == conv.gens[g]
           seen == Messages(conv.entries)
           u == [t EXCEPT !.fly = "prepared", !.seen = seen]
<1>1. /\ t.phase = "prepare" /\ t.status = "running" /\ ~t.marked
      /\ UNCHANGED <<settings, jobs, trouble>> /\ conv' = WithGen(conv, g, u)
  BY DEF PrepareReads, InPhase, WithGen, Put
<1>2. t \in Gen /\ TaskSound(t, settings.retries) /\ conv \in Conv
  BY <1>1, LiveFacts, InvFacts
<1>3. conv.partial = "none" /\ g \notin jobs
  BY <1>1, LiveFacts, NoJob DEF Polls
<1>4. settings' = settings /\ jobs' = jobs /\ trouble' \in 0..MaxTrouble
  BY <1>1, Held
<1>5. seen \in Seq(Nat)
  BY InvFacts, MessagesTyped
<1> HIDE DEF t, seen
<1>6. /\ u \in Gen /\ u.phase = t.phase /\ u.fly = "prepared" /\ u.attempt = t.attempt
      /\ u.marked = t.marked /\ u.comp = t.comp /\ u.sent = t.sent /\ u.resent = t.resent
      /\ u.restarts = t.restarts /\ u.status = t.status /\ t.sent \in Nat /\ t.resent \in Nat
  BY <1>2, <1>5 DEF Gen
<1> HIDE DEF u
<1>7. TaskSound(u, settings.retries) /\ ~Polls(u)
  BY <1>1, <1>2, <1>6 DEF TaskSound, Unsent, Polls
<1>8. /\ conv' \in Conv /\ conv'.gens = Put(conv.gens, g, u) /\ conv'.entries = conv.entries
      /\ conv'.run = conv.run /\ conv'.slots = conv.slots /\ conv'.comps = conv.comps
      /\ conv'.partial = "none"
  BY <1>1, <1>2, <1>3, <1>6, WithGenTyped
<1>9. Says(conv.entries, conv'.entries, g, conv.gens[g].sent)
  BY <1>8, InvFacts, GrowsSelf, GrowsSays
<1>10. Comps \subseteq Comps'
  BY <1>8 DEF Comps
<1>11. jobs' \subseteq jobs \cup {g} /\ (g \in jobs' => Polls(u)) /\ u.phase # "ended"
       /\ u.comp \in {conv.gens[g].comp} \cup Comps' /\ conv.gens[g].sent <= u.sent
       /\ conv.gens[g].phase # "ended" /\ u.fly # "streaming"
  BY <1>1, <1>3, <1>4, <1>6 DEF t
<1> QED BY <1>4, <1>6, <1>7, <1>8, <1>9, <1>10, <1>11, MoveFrom

\* A preparation commits to u, with one more compaction or none.
LEMMA Prepared ==
  ASSUME ConvInv, NEW g \in Gens, conv.gens[g].phase = "prepare", UNCHANGED <<settings, jobs, trouble>>,
         NEW u \in Gen, u.phase # "ended", TaskSound(u, settings.retries), u.sent = conv.gens[g].sent,
         ~Polls(u), u.fly = "none",
         conv' \in Conv, conv'.gens = Put(conv.gens, g, u), conv'.entries = conv.entries,
         conv'.run = conv.run, conv'.slots = conv.slots, conv'.partial = conv.partial,
         Comps \subseteq Comps', u.comp \in {conv.gens[g].comp} \cup Comps'
  PROVE  ConvInv'
<1>1. conv.partial = "none" /\ g \notin jobs
  BY LiveFacts, NoJob DEF Polls
<1>2. settings' = settings /\ jobs' = jobs /\ trouble' \in 0..MaxTrouble
  BY Held
<1>3. conv.gens[g] \in Gen
  BY InvFacts
<1>4. conv.gens[g].sent \in Nat
  BY <1>3 DEF Gen
<1>5. Says(conv.entries, conv'.entries, g, conv.gens[g].sent)
  BY InvFacts, GrowsSelf, GrowsSays
<1>6. jobs' \subseteq jobs \cup {g} /\ g \notin jobs' /\ conv.gens[g].sent <= u.sent
      /\ conv.gens[g].phase # "ended" /\ u.fly # "streaming" /\ conv'.partial = "none"
  BY <1>1, <1>2, <1>4
<1> QED BY <1>2, <1>5, <1>6, MoveFrom

LEMMA PrepareBlocksPreserves == ASSUME ConvInv, NEW g \in Gens, PrepareBlocks(g) PROVE ConvInv'
<1> DEFINE t == conv.gens[g]
           v == Going(t, "prepare", "waiting")
           m == WithGen(conv, g, v)
           c == CreateCompaction(m, g, FALSE)
           k == Len(conv.comps) + 1
           w == c.gens[g]
           u == [w EXCEPT !.comp = k, !.cause = "threshold"]
<1>1. /\ t.phase = "prepare" /\ t.comp = 0 /\ UNCHANGED <<settings, jobs, trouble>>
      /\ conv' = [CreateCompaction(Moved(conv, g, "prepare", "waiting"), g, FALSE) EXCEPT
                    !.gens[g] = [@ EXCEPT !.comp = k, !.cause = "threshold"]]
  BY DEF PrepareBlocks, InPhase, MayCompact
<1>2. conv' = WithGen(c, g, u)
  <2>1. conv' = [c EXCEPT !.gens[g] = u]
    BY <1>1, MovedIs
  <2> HIDE DEF c, u
  <2> QED BY <2>1 DEF WithGen, Put
<1>3. t \in Gen /\ TaskSound(t, settings.retries) /\ conv \in Conv /\ g \in Nat
      /\ conv.gens \in Seq(Gen) /\ g \in DOMAIN conv.gens
  BY <1>1, LiveFacts, InvFacts DEF Conv, Gens
<1> HIDE DEF t
<1>4. /\ v \in Gen /\ v.phase = "prepare" /\ v.fly = "none" /\ v.attempt = t.attempt
      /\ v.sent = t.sent /\ v.resent = t.resent
  BY <1>3, GoingTyped DEF Phases, Statuses
<1> HIDE DEF v
<1>5. /\ m \in Conv /\ m.gens = Put(conv.gens, g, v) /\ m.entries = conv.entries /\ m.run = conv.run
      /\ m.slots = conv.slots /\ m.comps = conv.comps /\ m.partial = conv.partial
  BY <1>3, <1>4, WithGenTyped
<1> DEFINE n == NewComp(g, FALSE)
<1>c. c = WithComp(m, n) /\ n \in Comp
  BY <1>3, CreateCompactionIs
<1> HIDE DEF m, c, n
<1>6. /\ c \in Conv /\ c.gens = m.gens /\ c.entries = m.entries /\ c.run = m.run
      /\ c.slots = m.slots /\ c.partial = m.partial
      /\ DOMAIN m.comps \subseteq DOMAIN c.comps /\ Len(m.comps) + 1 \in DOMAIN c.comps
      /\ Len(m.comps) \in Nat
  BY <1>c, <1>3, <1>5, CompactionCreated
<1>7. w = v /\ k \in Nat /\ k \in DOMAIN c.comps /\ k # 0
  <2>1. w = v
    BY <1>3, <1>5, <1>6, PutAt
  <2>2. k \in Nat /\ k \in DOMAIN c.comps /\ k # 0
    BY <1>5, <1>6
  <2> QED BY <2>1, <2>2
<1> HIDE DEF w, k
<1>8. /\ u \in Gen /\ u.phase = "prepare" /\ u.fly = "none" /\ u.attempt = t.attempt
      /\ u.sent = t.sent /\ u.resent = t.resent
      /\ u.comp = k
  BY <1>4, <1>7 DEF Gen
<1> HIDE DEF u
<1>9. TaskSound(u, settings.retries) /\ ~Polls(u)
  <2>0. t.attempt \in Nat /\ t.sent \in Nat /\ t.resent \in Nat
    BY <1>3 DEF Gen
  <2>1. /\ t.attempt \in Nat /\ t.sent \in Nat /\ t.resent \in Nat
        /\ t.attempt <= settings.retries + 1
        /\ t.sent <= t.attempt + t.resent
    BY <1>1, <1>3, <2>0, RetriesNat DEF TaskSound
  <2> QED BY <1>7, <1>8, <2>1, RetriesNat DEF TaskSound, Polls, Unsent
<1>10. /\ conv' \in Conv /\ conv'.gens = Put(conv.gens, g, u) /\ conv'.entries = conv.entries
       /\ conv'.run = conv.run /\ conv'.slots = conv.slots /\ conv'.partial = conv.partial
       /\ conv'.comps = c.comps
  BY <1>2, <1>3, <1>5, <1>6, <1>8, WithGenTyped, PutTwice
<1>11. Comps \subseteq Comps' /\ u.comp \in {conv.gens[g].comp} \cup Comps'
  BY <1>5, <1>6, <1>7, <1>8, <1>10 DEF Comps
<1> QED BY <1>1, <1>8, <1>9, <1>10, <1>11, Prepared DEF t

LEMMA MovedTyped ==
  ASSUME NEW s \in Conv, NEW g \in DOMAIN s.gens, NEW phase \in Phases, NEW status \in Statuses,
         NEW m, m = Moved(s, g, phase, status)
  PROVE  /\ m \in Conv /\ m.gens = Put(s.gens, g, Going(s.gens[g], phase, status))
         /\ m.gens[g] = Going(s.gens[g], phase, status) /\ DOMAIN m.gens = DOMAIN s.gens
         /\ Going(s.gens[g], phase, status) \in Gen
         /\ m.subs = s.subs /\ m.inbox = s.inbox /\ m.entries = s.entries /\ m.run = s.run
         /\ m.slots = s.slots /\ m.comps = s.comps /\ m.partial = s.partial
         /\ m.failure = s.failure /\ m.lost = s.lost
<1> DEFINE v == Going(s.gens[g], phase, status)
<1>1. s.gens \in Seq(Gen)
  BY DEF Conv
<1>2. s.gens[g] \in Gen
  BY <1>1
<1>3. v \in Gen
  BY <1>2, GoingTyped
<1>4. m = WithGen(s, g, v)
  BY MovedIs
<1> HIDE DEF v
<1>5. /\ m \in Conv /\ m.gens = Put(s.gens, g, v) /\ DOMAIN m.gens = DOMAIN s.gens
      /\ m.subs = s.subs /\ m.inbox = s.inbox /\ m.entries = s.entries /\ m.run = s.run
      /\ m.slots = s.slots /\ m.comps = s.comps /\ m.partial = s.partial
      /\ m.failure = s.failure /\ m.lost = s.lost
  BY <1>3, <1>4, WithGenTyped
<1>6. m.gens[g] = v
  BY <1>5, PutAt
<1> QED BY <1>3, <1>5, <1>6 DEF v

\* A record moved and amended.
LEMMA Amended ==
  ASSUME NEW s \in Conv, NEW g \in DOMAIN s.gens, NEW m \in Conv, NEW v, m.gens = Put(s.gens, g, v),
         NEW u \in Gen, NEW r, r = WithGen(m, g, u)
  PROVE  /\ r \in Conv /\ r.gens = Put(s.gens, g, u) /\ DOMAIN r.gens = DOMAIN s.gens
         /\ r.subs = m.subs /\ r.inbox = m.inbox /\ r.entries = m.entries /\ r.run = m.run
         /\ r.slots = m.slots /\ r.comps = m.comps /\ r.partial = m.partial
         /\ r.failure = m.failure /\ r.lost = m.lost
<1>1. /\ r \in Conv /\ r.gens = Put(m.gens, g, u)
      /\ r.subs = m.subs /\ r.inbox = m.inbox /\ r.entries = m.entries /\ r.run = m.run
      /\ r.slots = m.slots /\ r.comps = m.comps /\ r.partial = m.partial
      /\ r.failure = m.failure /\ r.lost = m.lost
  BY WithGenTyped
<1>2. s.gens \in Seq(Gen)
  BY DEF Conv
<1>3. Put(m.gens, g, u) = Put(s.gens, g, u)
  BY <1>2, PutTwice
<1>4. DOMAIN r.gens = DOMAIN s.gens
  BY <1>1, <1>3, PutDomain
<1> QED BY <1>1, <1>3, <1>4

LEMMA PrepareCommitsPreserves == ASSUME ConvInv, NEW g \in Gens, PrepareCommits(g) PROVE ConvInv'
<1> DEFINE t == conv.gens[g]
           v == Going(t, "request", "running")
           m == Moved(conv, g, "request", "running")
           u == [m.gens[g] EXCEPT !.cause = ""]
           s == WithGen(m, g, u)
           n == NewComp(0, TRUE)
           c == WithComp(s, n)
<1>1. /\ t.phase = "prepare" /\ UNCHANGED <<settings, jobs, trouble>>
      /\ conv' = s \/ conv' = CreateCompaction(s, 0, TRUE)
  <2>1. s = [m EXCEPT !.gens[g] = [@ EXCEPT !.cause = ""]]
    <3> HIDE DEF m
    <3> QED BY DEF WithGen, Put
  <2> QED BY <2>1 DEF PrepareCommits, InPhase
<1>2. (conv' = s \/ conv' = c) /\ n \in Comp
  BY <1>1, CreateCompactionIs
<1>3. t \in Gen /\ TaskSound(t, settings.retries) /\ conv \in Conv /\ g \in DOMAIN conv.gens
  BY <1>1, LiveFacts, InvFacts DEF Gens
<1>4. /\ m \in Conv /\ m.gens = Put(conv.gens, g, v) /\ m.gens[g] = v /\ v \in Gen
      /\ m.entries = conv.entries /\ m.run = conv.run
      /\ m.slots = conv.slots /\ m.comps = conv.comps /\ m.partial = conv.partial
  BY <1>3, MovedTyped DEF Phases, Statuses
<1> HIDE DEF t, m
<1>5. /\ v.phase = "request" /\ v.fly = "none" /\ v.attempt = t.attempt /\ v.sent = t.sent
      /\ v.resent = t.resent /\ v.comp = t.comp
  BY <1>3, GoingTyped DEF Phases, Statuses
<1> HIDE DEF v
<1>6. /\ u \in Gen /\ u.phase = "request" /\ u.fly = "none" /\ u.attempt = t.attempt
      /\ u.sent = t.sent /\ u.resent = t.resent
      /\ u.comp = t.comp
  BY <1>4, <1>5 DEF Gen
<1> HIDE DEF u, n
<1>7. TaskSound(u, settings.retries) /\ ~Polls(u)
  <2>0. t.attempt \in Nat /\ t.sent \in Nat /\ t.resent \in Nat
    BY <1>3 DEF Gen
  <2>1. /\ t.attempt <= settings.retries + 1
        /\ t.sent < t.attempt + (IF t.comp = 0 THEN 0 ELSE 1) + t.resent
    BY <1>1, <1>3, <2>0, RetriesNat DEF TaskSound
  <2> QED BY <1>6, <2>0, <2>1, RetriesNat DEF TaskSound, Polls
<1>8. /\ s \in Conv /\ s.gens = Put(conv.gens, g, u) /\ s.entries = conv.entries
      /\ s.run = conv.run /\ s.slots = conv.slots /\ s.partial = conv.partial /\ s.comps = conv.comps
  <2>1. PICK r : r = s
    OBVIOUS
  <2>2. /\ conv \in Conv /\ g \in DOMAIN conv.gens /\ m \in Conv /\ m.gens = Put(conv.gens, g, v)
        /\ u \in Gen /\ r = WithGen(m, g, u)
    BY <1>3, <1>4, <1>6, <2>1
  <2>3. /\ r \in Conv /\ r.gens = Put(conv.gens, g, u) /\ r.entries = m.entries /\ r.run = m.run
        /\ r.slots = m.slots /\ r.comps = m.comps /\ r.partial = m.partial
    BY ONLY SMTT(90), <2>2, Amended
  <2> QED BY <1>4, <2>1, <2>3
<1> HIDE DEF s
<1>9. /\ c \in Conv /\ c.gens = Put(conv.gens, g, u) /\ c.entries = conv.entries
      /\ c.run = conv.run /\ c.slots = conv.slots /\ c.partial = conv.partial
      /\ DOMAIN conv.comps \subseteq DOMAIN c.comps
  BY <1>2, <1>8, CompactionCreated
<1> HIDE DEF c
<1>10. /\ conv' \in Conv /\ conv'.gens = Put(conv.gens, g, u) /\ conv'.entries = conv.entries
       /\ conv'.run = conv.run /\ conv'.slots = conv.slots /\ conv'.partial = conv.partial
       /\ Comps \subseteq Comps'
  BY <1>2, <1>8, <1>9 DEF Comps
<1>11. u.comp \in {conv.gens[g].comp} \cup Comps'
  BY <1>6 DEF t
<1> QED BY <1>1, <1>6, <1>7, <1>10, <1>11, Prepared DEF t

LEMMA RequestPreserves == ASSUME ConvInv, NEW g \in Gens, Request(g) PROVE ConvInv'
<1> DEFINE t == conv.gens[g]
           k == t.sent + 1
           u == [t EXCEPT !.fly = "streaming", !.sent = k]
           c == ConvertPartial(conv, g)
           s == [c EXCEPT !.partial = "none"]
<1>1. /\ t.phase = "request" /\ t.fly = "none" /\ t.restarts = 0 /\ ~t.marked /\ t.status = "running"
      /\ UNCHANGED <<settings, jobs, trouble>>
      /\ conv' = [c EXCEPT !.partial = "none",
                    !.gens[g] = [@ EXCEPT !.fly = "streaming", !.sent = conv.gens[g].sent + 1]]
  BY DEF Request, InPhase, Idle
<1>2. t \in Gen /\ TaskSound(t, settings.retries) /\ conv \in Conv /\ Unsent(t) /\ g \notin jobs
  BY <1>1, LiveFacts, InvFacts, NoJob DEF Unsent, Polls
<1>r. Ready(c, g)
  BY <1>1, ReadyConvert
<1> HIDE DEF c
<1>s. /\ s \in Conv /\ s.entries = c.entries /\ s.gens = conv.gens /\ s.run = conv.run
      /\ s.slots = conv.slots /\ s.comps = conv.comps /\ s.partial = "none"
  BY <1>r DEF Ready, Conv
<1>3. conv' = WithGen(s, g, u)
  <2>1. conv' = [s EXCEPT !.gens[g] = [@ EXCEPT !.fly = "streaming", !.sent = conv.gens[g].sent + 1]]
    BY <1>1, <1>r DEF Ready, Conv
  <2>2. s.gens[g] = t
    BY <1>s
  <2> HIDE DEF s
  <2>3. conv' = [s EXCEPT !.gens[g] = u]
    BY <1>s, <2>1, <2>2
  <2> HIDE DEF u
  <2> QED BY <2>3 DEF WithGen, Put
<1> HIDE DEF s
<1>4. settings' = settings /\ jobs' = jobs /\ trouble' \in 0..MaxTrouble
  BY <1>1, Held
<1> HIDE DEF t
<1>5. t.sent \in Nat /\ t.resent \in Nat /\ t.attempt \in Nat
  BY <1>2 DEF Gen
<1>6. /\ u \in Gen /\ u.phase = t.phase /\ u.fly = "streaming" /\ u.attempt = t.attempt
      /\ u.marked = t.marked /\ u.comp = t.comp /\ u.sent = t.sent + 1 /\ u.resent = t.resent
      /\ u.status = t.status
  <2>1. k \in Nat /\ k = t.sent + 1
    BY <1>5
  <2> HIDE DEF k
  <2>2. /\ u \in Gen /\ u.phase = t.phase /\ u.fly = "streaming" /\ u.attempt = t.attempt
        /\ u.marked = t.marked /\ u.comp = t.comp /\ u.sent = k /\ u.resent = t.resent
        /\ u.status = t.status
    BY <1>2, <2>1 DEF Gen
  <2> QED BY <2>1, <2>2
<1> HIDE DEF u
<1>7. TaskSound(u, settings.retries) /\ ~Polls(u)
  BY <1>1, <1>2, <1>5, <1>6, RetriesNat DEF TaskSound, Unsent, Polls
<1>8. /\ conv' \in Conv /\ conv'.gens = Put(conv.gens, g, u) /\ conv'.entries = c.entries
      /\ conv'.run = conv.run /\ conv'.slots = conv.slots /\ conv'.comps = conv.comps
      /\ conv'.partial = "none"
  BY <1>3, <1>6, <1>s, WithGenTyped
<1>9. Says(conv.entries, conv'.entries, g, conv.gens[g].sent)
  BY <1>8, <1>r DEF Ready
<1>10. Comps \subseteq Comps'
  BY <1>8 DEF Comps
<1>11. ~SaidBy(conv'.entries, g, u.sent)
  <2>1. \A h, m : SaidBy(conv'.entries, h, m) => SaidBy(conv.entries, h, m) \/ (h = g /\ m = t.sent)
    BY <1>8, <1>9, SaidStaysOnce DEF t
  <2>2. ~SaidBy(conv.entries, g, t.sent + 1)
    <3> SUFFICES ASSUME NEW i \in DOMAIN conv.entries, conv.entries[i].kind \in SaidKinds,
                        conv.entries[i].n = g, conv.entries[i].m = t.sent + 1
                 PROVE  FALSE
      BY DEF SaidBy
    <3>1. conv.entries[i].m <= t.sent
      BY <1>1 DEF ConvInv, SaidOnce, t
    <3> QED BY <1>5, <3>1
  <2>3. t.sent + 1 # t.sent
    BY <1>5
  <2> QED BY <1>6, <2>1, <2>2, <2>3
<1>12. jobs' \subseteq jobs \cup {g} /\ g \notin jobs' /\ u.phase # "ended"
       /\ u.comp \in {conv.gens[g].comp} \cup Comps' /\ conv.gens[g].sent <= u.sent
       /\ conv.gens[g].phase # "ended"
  <2>1. t.sent <= u.sent
    BY <1>5, <1>6
  <2> QED BY <1>1, <1>2, <1>4, <1>6, <2>1 DEF t
<1> QED BY <1>4, <1>6, <1>7, <1>8, <1>9, <1>10, <1>11, <1>12, MoveFrom

\* The generation goes on, with no request to send.
LEMMA MoveOn ==
  ASSUME ConvInv, NEW g \in Gens, conv.gens[g].phase # "ended", NEW u \in Gen,
         u.phase \in Phases \ {"prepare", "request"}, u.fly = "none",
         u.attempt = conv.gens[g].attempt, u.sent = conv.gens[g].sent
           /\ u.resent = conv.gens[g].resent, u.comp = conv.gens[g].comp,
         u.phase = "retry" => u.attempt <= settings.retries,
         settings' = settings, trouble' \in 0..MaxTrouble, conv' \in Conv,
         conv'.gens = Put(conv.gens, g, u), conv'.run.task = conv.run.task, conv'.comps = conv.comps,
         Says(conv.entries, conv'.entries, g, conv.gens[g].sent), conv'.partial = "none",
         CallsKnown', SlotsOnce', jobs' \subseteq jobs \cup {g}, g \in jobs' => Polls(u),
         Polls(u) => ~SaidBy(conv'.entries, g, u.sent)
  PROVE  ConvInv'
<1> DEFINE t == conv.gens[g]
<1>1. t \in Gen /\ TaskSound(t, settings.retries) /\ settings.retries \in Nat
  BY LiveFacts, RetriesNat
<1> HIDE DEF t
<1>2. t.sent \in Nat /\ t.resent \in Nat /\ t.attempt \in Nat
  BY <1>1 DEF Gen
<1>3. u.attempt = t.attempt /\ u.sent = t.sent /\ u.resent = t.resent /\ u.comp = t.comp
  BY DEF t
<1>4. t.attempt <= settings.retries + 1
        /\ t.sent <= t.attempt + (IF t.comp = 0 THEN 0 ELSE 1) + t.resent
  BY <1>1, <1>2 DEF TaskSound
<1>5. TaskSound(u, settings.retries) /\ u.phase # "ended"
  BY <1>1, <1>2, <1>3, <1>4 DEF TaskSound, Unsent, Phases
<1>6. Bounded
  BY DEF Bounded
<1>7. Comps' = Comps /\ u.comp \in {0} \cup Comps'
  <2>1. Comps' = Comps
    BY DEF Comps
  <2>2. t.comp \in {0} \cup Comps
    BY DEF ConvInv, TypeOK, t
  <2> QED BY <1>3, <2>1, <2>2
<1>8. conv.gens[g].sent <= u.sent /\ u.fly # "streaming"
  BY <1>2, <1>3 DEF t
<1> QED BY <1>5, <1>6, <1>7, <1>8, MoveStep

LEMMA SlotsUntouched ==
  ASSUME ConvInv, NEW g, NEW m, conv' \in Conv, conv'.slots = conv.slots, Says(conv.entries, conv'.entries, g, m)
  PROVE  CallsKnown' /\ SlotsOnce'
<1>1. SlotsKept(conv, conv')
  BY DEF SlotsKept, Says
<1> QED BY <1>1, SlotsKeep

LEMMA PutSelf == ASSUME NEW q \in Seq(Gen), NEW g \in DOMAIN q PROVE Put(q, g, q[g]) = q
  BY DEF Put

LEMMA ShowPartialPreserves == ASSUME ConvInv, NEW g \in Gens, ShowPartial(g) PROVE ConvInv'
<1> DEFINE u == conv.gens[g]
<1>1. /\ u.phase = "request" /\ u.fly = "streaming" /\ UNCHANGED <<settings, jobs, trouble>>
      /\ conv' = WithPartial(conv, "memory")
  BY DEF ShowPartial, InPhase, WithPartial
<1>2. u \in Gen /\ TaskSound(u, settings.retries) /\ conv \in Conv /\ conv.gens \in Seq(Gen)
      /\ g \in DOMAIN conv.gens
  BY <1>1, LiveFacts, InvFacts DEF Conv, Gens
<1>3. /\ conv' \in Conv /\ conv'.gens = conv.gens /\ conv'.entries = conv.entries
      /\ conv'.run = conv.run /\ conv'.slots = conv.slots /\ conv'.comps = conv.comps
  BY <1>1, <1>2, WithPartialTyped
<1>4. conv'.gens = Put(conv.gens, g, u)
  BY <1>2, <1>3, PutSelf
<1>5. Says(conv.entries, conv'.entries, g, u.sent)
  BY <1>3, InvFacts, GrowsSelf, GrowsSays
<1>6. ~Unsent(u) /\ ~SaidBy(conv'.entries, g, u.sent) /\ g \notin jobs
  BY <1>1, <1>3, LiveFacts, NoJob DEF Unsent, Polls
<1>7. settings' = settings /\ jobs' = jobs /\ trouble' \in 0..MaxTrouble
  BY <1>1, Held
<1>8. Comps \subseteq Comps' /\ u.comp \in {conv.gens[g].comp} \cup Comps'
  BY <1>3 DEF Comps
<1>9. u.sent <= u.sent
  <2>1. u.sent \in Nat
    BY <1>2 DEF Gen
  <2> QED BY <2>1
<1>10. jobs' \subseteq jobs \cup {g} /\ g \notin jobs' /\ u.phase # "ended"
  BY <1>1, <1>6, <1>7
<1> QED BY <1>1, <1>2, <1>3, <1>4, <1>5, <1>6, <1>7, <1>8, <1>9, <1>10, MoveFrom

\* What a request or a poll that has its response may count on.
LEMMA AnsweredFacts ==
  ASSUME ConvInv, NEW g \in Gens, Answered(g)
  PROVE  /\ conv.gens[g].phase \in {"request", "poll"} /\ conv.gens[g].phase # "ended"
         /\ ~SaidBy(conv.entries, g, conv.gens[g].sent)
         /\ conv.gens[g] \in Gen /\ conv \in Conv /\ g \in DOMAIN conv.gens /\ g \in Nat
<1>1. /\ conv.gens[g].phase \in {"request", "poll"} /\ conv.gens[g].phase # "ended"
      /\ Polls(conv.gens[g]) \/ conv.gens[g].fly = "streaming"
  BY DEF Answered, InPhase, Polls
<1> QED BY <1>1, LiveFacts, InvFacts DEF Gens

LEMMA DeferredPreserves == ASSUME ConvInv, NEW g \in Gens, Deferred(g) PROVE ConvInv'
<1> DEFINE t == conv.gens[g]
           u == Going(t, "poll", "sleeping")
           m == Moved(conv, g, "poll", "sleeping")
<1>1. /\ Answered(g) /\ jobs' = jobs \cup {g} /\ UNCHANGED <<settings, trouble>>
      /\ conv' = WithPartial(m, "none")
  BY DEF Deferred, WithPartial
<1>2. /\ t.phase # "ended" /\ ~SaidBy(conv.entries, g, t.sent)
      /\ t \in Gen /\ conv \in Conv /\ g \in DOMAIN conv.gens
  BY <1>1, AnsweredFacts
<1>3. /\ m \in Conv /\ m.gens = Put(conv.gens, g, u) /\ m.entries = conv.entries /\ m.run = conv.run
      /\ m.slots = conv.slots /\ m.comps = conv.comps
  BY <1>2, MovedTyped DEF Phases, Statuses
<1> HIDE DEF m, t
<1>4. /\ conv' \in Conv /\ conv'.gens = Put(conv.gens, g, u) /\ conv'.entries = conv.entries
      /\ conv'.run = conv.run /\ conv'.slots = conv.slots /\ conv'.comps = conv.comps
      /\ conv'.partial = "none"
  BY <1>1, <1>3, WithPartialTyped
<1>5. /\ u \in Gen /\ u.phase = "poll" /\ u.fly = "none" /\ u.attempt = t.attempt
      /\ u.sent = t.sent /\ u.resent = t.resent
      /\ u.comp = t.comp
  BY <1>2, GoingTyped DEF Phases, Statuses
<1> HIDE DEF u
<1>6. Says(conv.entries, conv'.entries, g, t.sent)
  BY <1>4, InvFacts, GrowsSelf, GrowsSays
<1>7. CallsKnown' /\ SlotsOnce'
  BY <1>4, <1>6, SlotsUntouched
<1>8. settings' = settings /\ trouble' \in 0..MaxTrouble /\ u.phase # "retry"
      /\ u.phase \in Phases \ {"prepare", "request"} /\ Polls(u)
  BY <1>1, <1>5 DEF ConvInv, TypeOK, Phases, Polls
<1>9. jobs' \subseteq jobs \cup {g} /\ ~SaidBy(conv'.entries, g, u.sent) /\ conv'.run.task = conv.run.task
  BY <1>1, <1>2, <1>4, <1>5
<1> QED BY <1>2, <1>4, <1>5, <1>6, <1>7, <1>8, <1>9, MoveOn DEF t

LEMMA RetryPreserves == ASSUME ConvInv, NEW g \in Gens, Retry(g) PROVE ConvInv'
<1> DEFINE t == conv.gens[g]
           phase == IF t.poll THEN "poll" ELSE "prepare"
           m == Moved(conv, g, phase, "running")
           k == t.attempt + 1
           u == [m.gens[g] EXCEPT !.attempt = k, !.poll = FALSE]
<1>1. /\ t.phase = "retry" /\ UNCHANGED <<settings, jobs, trouble>>
      /\ conv' = [m EXCEPT !.gens[g] = [@ EXCEPT !.attempt = k, !.poll = FALSE]]
  BY DEF Retry, InPhase
<1>2. conv' = WithGen(m, g, u)
  <2>1. conv' = [m EXCEPT !.gens[g] = u]
    BY <1>1
  <2> HIDE DEF m, u
  <2> QED BY <2>1 DEF WithGen, Put
<1>3. t \in Gen /\ TaskSound(t, settings.retries) /\ conv \in Conv /\ g \in DOMAIN conv.gens
      /\ settings.retries \in Nat
  BY <1>1, LiveFacts, InvFacts, RetriesNat DEF Gens
<1>4. /\ conv.partial = "none" /\ (g \in jobs => Polls(t)) /\ (Polls(t) => ~SaidBy(conv.entries, g, t.sent))
  BY <1>1, LiveFacts
<1>5. phase \in Phases /\ "running" \in Statuses
  BY DEF Phases, Statuses
<1> DEFINE v == Going(t, phase, "running")
<1>6. /\ m \in Conv /\ m.gens = Put(conv.gens, g, v) /\ m.gens[g] = v /\ v \in Gen
      /\ m.entries = conv.entries /\ m.run = conv.run
      /\ m.slots = conv.slots /\ m.comps = conv.comps /\ m.partial = conv.partial
  <2> HIDE DEF phase
  <2> QED BY <1>3, <1>5, MovedTyped
<1>7. t.poll \in BOOLEAN /\ t.sent \in Nat /\ t.resent \in Nat /\ t.attempt \in Nat
  BY <1>3 DEF Gen
<1> HIDE DEF m, t
<1>8. v.phase = phase /\ v.fly = "none" /\ v.sent = t.sent /\ v.resent = t.resent /\ v.comp = t.comp
  <2> HIDE DEF phase
  <2> QED BY <1>3, <1>5, GoingTyped
<1> HIDE DEF v
<1>9. k \in Nat /\ k = t.attempt + 1
  BY <1>7
<1> HIDE DEF k
<1>10. /\ u \in Gen /\ u.phase = phase /\ u.fly = "none" /\ u.attempt = k /\ u.sent = t.sent
       /\ u.resent = t.resent
       /\ u.comp = t.comp
  <2> HIDE DEF phase
  <2>1. v.phase = phase /\ v \in Gen
    BY <1>6, <1>8
  <2> QED BY <1>6, <1>8, <1>9, <2>1 DEF Gen
<1> HIDE DEF u
<1>11. TaskSound(u, settings.retries) /\ u.phase # "ended" /\ u.phase # "request"
  <2>1. /\ t.attempt <= settings.retries
        /\ t.sent <= t.attempt + (IF t.comp = 0 THEN 0 ELSE 1) + t.resent
    BY <1>1, <1>3, <1>7 DEF TaskSound
  <2> QED BY <1>3, <1>7, <1>9, <1>10, <2>1 DEF TaskSound, Unsent
<1>12. Polls(u) <=> Polls(t)
  BY <1>1, <1>7, <1>10 DEF Polls
<1>13. /\ conv' \in Conv /\ conv'.gens = Put(conv.gens, g, u) /\ conv'.entries = conv.entries
       /\ conv'.run = conv.run /\ conv'.slots = conv.slots /\ conv'.comps = conv.comps
       /\ conv'.partial = "none"
  <2>1. PICK r : r = conv'
    OBVIOUS
  <2>2. /\ conv \in Conv /\ g \in DOMAIN conv.gens /\ m \in Conv /\ m.gens = Put(conv.gens, g, v)
        /\ u \in Gen /\ r = WithGen(m, g, u)
    BY <1>2, <1>3, <1>6, <1>10, <2>1
  <2>3. /\ r \in Conv /\ r.gens = Put(conv.gens, g, u) /\ r.entries = m.entries /\ r.run = m.run
        /\ r.slots = m.slots /\ r.comps = m.comps /\ r.partial = m.partial
    BY ONLY SMTT(90), <2>2, Amended
  <2> QED BY <1>4, <1>6, <2>1, <2>3
<1>14. Says(conv.entries, conv'.entries, g, conv.gens[g].sent)
  BY <1>13, InvFacts, GrowsSelf, GrowsSays
<1>15. settings' = settings /\ jobs' = jobs /\ trouble' \in 0..MaxTrouble
  BY <1>1, Held
<1>16. /\ jobs' \subseteq jobs \cup {g} /\ (g \in jobs' => Polls(u)) /\ Comps \subseteq Comps'
       /\ u.comp \in {conv.gens[g].comp} \cup Comps' /\ conv.gens[g].sent <= u.sent
       /\ conv.gens[g].phase # "ended" /\ u.fly # "streaming"
       /\ Polls(u) => ~SaidBy(conv'.entries, g, u.sent)
  <2>1. t.sent <= u.sent
    BY <1>7, <1>10
  <2> QED BY <1>1, <1>4, <1>10, <1>12, <1>13, <1>15, <2>1 DEF Comps, t
<1> QED BY <1>10, <1>11, <1>13, <1>14, <1>15, <1>16, MoveFrom

\* The record of an attempt that is to be retried.
Retried(t, poll) == [Going(t, "retry", "sleeping") EXCEPT !.poll = poll]

LEMMA RetriedTyped ==
  ASSUME NEW t \in Gen, NEW poll \in BOOLEAN, NEW u, u = Retried(t, poll)
  PROVE  /\ u \in Gen /\ u.phase = "retry" /\ u.fly = "none" /\ u.attempt = t.attempt
         /\ u.sent = t.sent /\ u.resent = t.resent /\ u.comp = t.comp /\ u.poll = poll
<1> DEFINE v == Going(t, "retry", "sleeping")
<1>1. /\ v.phase = "retry" /\ v.fly = "none" /\ v.attempt = t.attempt /\ v.sent = t.sent
      /\ v.resent = t.resent
      /\ v.comp = t.comp /\ v \in Gen
  BY GoingTyped DEF Phases, Statuses
<1>2. u = [v EXCEPT !.poll = poll]
  BY DEF Retried
<1> HIDE DEF v
<1> QED BY <1>1, <1>2 DEF Gen

\* s after the attempt of generation g.
RetryOf(s, g, u) == WithGen(WithPartial(Moved(s, g, "retry", "sleeping"), "none"), g, u)

LEMMA RetryOfTyped ==
  ASSUME NEW s \in Conv, NEW g \in DOMAIN s.gens, NEW u \in Gen, NEW r, r = RetryOf(s, g, u)
  PROVE  /\ r \in Conv /\ r.gens = Put(s.gens, g, u) /\ r.entries = s.entries
         /\ r.run = s.run /\ r.slots = s.slots /\ r.comps = s.comps /\ r.partial = "none"
<1> DEFINE v == Going(s.gens[g], "retry", "sleeping")
           m == Moved(s, g, "retry", "sleeping")
           p == WithPartial(m, "none")
<1>1. /\ m \in Conv /\ m.gens = Put(s.gens, g, v) /\ m.entries = s.entries /\ m.run = s.run
      /\ m.slots = s.slots /\ m.comps = s.comps
  BY MovedTyped DEF Phases, Statuses
<1> HIDE DEF m, v
<1>2. /\ p \in Conv /\ p.gens = Put(s.gens, g, v) /\ p.entries = s.entries /\ p.run = s.run
      /\ p.slots = s.slots /\ p.comps = s.comps /\ p.partial = "none"
  BY <1>1, WithPartialTyped
<1>3. r = WithGen(p, g, u)
  BY DEF RetryOf, m
<1> HIDE DEF p
<1> QED BY SMTT(30), <1>2, <1>3, Amended

\* What ModelError() and Interrupted() commit is that.
LEMMA RetryOfIs ==
  ASSUME NEW s \in Conv, NEW g \in DOMAIN s.gens, NEW poll \in BOOLEAN
  PROVE  [Moved(s, g, "retry", "sleeping") EXCEPT
            !.partial = "none", !.gens[g] = [@ EXCEPT !.poll = poll]]
         = RetryOf(s, g, Retried(s.gens[g], poll))
<1> DEFINE m == Moved(s, g, "retry", "sleeping")
<1>1. m \in Conv /\ m.gens[g] = Going(s.gens[g], "retry", "sleeping")
  BY MovedTyped DEF Phases, Statuses
<1>2. RetryOf(s, g, Retried(s.gens[g], poll))
        = WithGen(WithPartial(m, "none"), g, [m.gens[g] EXCEPT !.poll = poll])
  BY <1>1 DEF RetryOf, Retried
<1> HIDE DEF m
<1>3. [m EXCEPT !.partial = "none", !.gens[g] = [@ EXCEPT !.poll = poll]]
        = WithGen(WithPartial(m, "none"), g, [m.gens[g] EXCEPT !.poll = poll])
  BY <1>1 DEF WithGen, WithPartial, Put, Conv
<1> QED BY <1>2, <1>3 DEF m

\* An attempt that failed is retried: said as much, or kept a partial.
LEMMA RetryLater ==
  ASSUME ConvInv, NEW g \in Gens, conv.gens[g].phase # "ended", NEW s, Ready(s, g), RetryLeft(g),
         NEW poll \in BOOLEAN, NEW u, u = Retried(conv.gens[g], poll), conv' = RetryOf(s, g, u),
         settings' = settings, trouble' \in 0..MaxTrouble, jobs' \subseteq jobs,
         g \in jobs' => poll, poll => ~SaidBy(s.entries, g, conv.gens[g].sent)
  PROVE  ConvInv'
<1> DEFINE t == conv.gens[g]
<1>1. /\ s \in Conv /\ s.gens = conv.gens /\ s.run = conv.run /\ s.comps = conv.comps
      /\ s.slots = conv.slots /\ Says(conv.entries, s.entries, g, t.sent) /\ g \in DOMAIN s.gens
      /\ g \in DOMAIN conv.gens /\ conv \in Conv
  BY InvFacts DEF Ready, Gens
<1>2. t \in Gen /\ t.attempt <= settings.retries
  BY LiveFacts DEF RetryLeft
<1>3. u = Retried(t, poll)
  OBVIOUS
<1> HIDE DEF t
<1>4. /\ u \in Gen /\ u.phase = "retry" /\ u.fly = "none" /\ u.attempt = t.attempt
      /\ u.sent = t.sent /\ u.resent = t.resent
      /\ u.comp = t.comp /\ u.poll = poll
  BY <1>2, <1>3, RetriedTyped
<1>5. /\ conv' \in Conv /\ conv'.gens = Put(conv.gens, g, u) /\ conv'.entries = s.entries
      /\ conv'.run = conv.run /\ conv'.slots = conv.slots /\ conv'.comps = conv.comps
      /\ conv'.partial = "none"
  BY <1>1, <1>4, RetryOfTyped
<1>6. Says(conv.entries, conv'.entries, g, t.sent) /\ conv'.run.task = conv.run.task
  BY <1>1, <1>5
<1>7. CallsKnown' /\ SlotsOnce'
  BY <1>5, <1>6, SlotsUntouched
<1>8. Polls(u) <=> poll
  BY <1>4 DEF Polls
<1>9. /\ jobs' \subseteq jobs \cup {g} /\ (g \in jobs' => Polls(u))
      /\ (Polls(u) => ~SaidBy(conv'.entries, g, u.sent))
      /\ u.phase \in Phases \ {"prepare", "request"} /\ u.attempt <= settings.retries
  BY <1>2, <1>4, <1>5, <1>8 DEF Phases, t
<1> QED BY <1>4, <1>5, <1>6, <1>7, <1>9, MoveOn DEF t

LEMMA ModelErrorPreserves ==
  ASSUME ConvInv, NEW g \in Gens, NEW permanent \in BOOLEAN, ModelError(g, permanent)
  PROVE  ConvInv'
<1> DEFINE s == Say(conv, g, "error")
           m == Moved(s, g, "retry", "sleeping")
           r == [m EXCEPT !.partial = "none", !.gens[g] = [@ EXCEPT !.poll = FALSE]]
           u == Retried(conv.gens[g], FALSE)
<1>1. /\ Answered(g) /\ jobs' = jobs \ {g} /\ settings' = settings /\ trouble' \in 0..MaxTrouble
      /\ (RetryLeft(g) /\ conv' = r) \/ conv' = End(EndFailedRun(s, g), g, "")
  <2> HIDE DEF r
  <2>1. r = [m EXCEPT !.partial = "none", !.gens[g] = [@ EXCEPT !.poll = FALSE]]
    BY DEF r
  <2> QED BY <2>1 DEF ModelError, ConvInv, TypeOK
<1>2. conv.gens[g].phase # "ended" /\ ~SaidBy(conv.entries, g, conv.gens[g].sent)
  <2> HIDE DEF r
  <2> QED BY <1>1, AnsweredFacts
<1>3. Ready(s, g)
  BY <1>2, ReadySay DEF SaidKinds
<1>4. jobs' \subseteq jobs /\ g \notin jobs'
  <2> HIDE DEF r
  <2> QED BY <1>1
<1> HIDE DEF s
<1>5. s \in Conv /\ g \in DOMAIN s.gens /\ s.gens = conv.gens
  BY <1>3 DEF Ready, Gens
<1>6. r = RetryOf(s, g, u)
  BY <1>5, RetryOfIs
<1> HIDE DEF r
<1>7. CASE conv' = End(EndFailedRun(s, g), g, "")
  BY <1>1, <1>2, <1>3, <1>4, <1>7, EndFailedStep DEF Causes
<1>8. CASE RetryLeft(g) /\ conv' = r
  <2>1. PICK poll \in BOOLEAN : poll = FALSE
    OBVIOUS
  <2>2. u = Retried(conv.gens[g], poll)
    BY <2>1
  <2> HIDE DEF u
  <2>3. (g \in jobs' => poll) /\ (poll => ~SaidBy(s.entries, g, conv.gens[g].sent))
    BY <1>4, <2>1
  <2>4. conv' = RetryOf(s, g, u) /\ RetryLeft(g)
    BY <1>6, <1>8
  <2> QED BY <1>1, <1>2, <1>3, <1>4, <2>2, <2>3, <2>4, RetryLater
<1> QED BY <1>1, <1>7, <1>8

LEMMA InterruptedPreserves == ASSUME ConvInv, NEW g \in Gens, Interrupted(g) PROVE ConvInv'
<1> DEFINE t == conv.gens[g]
           b == t.phase = "poll"
           s == ConvertPartial(conv, g)
           m == Moved(s, g, "retry", "sleeping")
           r == [m EXCEPT !.partial = "none", !.gens[g] = [@ EXCEPT !.poll = b]]
<1>1. /\ t.phase \in {"request", "poll"} /\ settings' = settings /\ trouble' \in 0..MaxTrouble
      /\ jobs' = IF RetryLeft(g) THEN jobs ELSE jobs \ {g}
      /\ conv' = IF RetryLeft(g) THEN r ELSE End(EndFailedRun(s, g), g, "")
  <2>1. conv' = IF RetryLeft(g) THEN r ELSE End(EndFailedRun(s, g), g, "")
    BY Zenon DEF Interrupted
  <2>2. /\ t.phase \in {"request", "poll"} /\ settings' = settings /\ trouble' = trouble
        /\ jobs' = IF RetryLeft(g) THEN jobs ELSE jobs \ {g}
    BY DEF Interrupted, InPhase
  <2>3. trouble \in 0..MaxTrouble
    BY DEF ConvInv, TypeOK
  <2> HIDE DEF r, s
  <2> QED BY <2>1, <2>2, <2>3
<1>2. b \in BOOLEAN
  OBVIOUS
<1>3. t.phase # "ended" /\ t \in Gen
  <2> HIDE DEF r, s
  <2> QED BY <1>1, InvFacts
<1>4. Ready(s, g)
  BY <1>3, ReadyConvert
<1>5. b => ~SaidBy(s.entries, g, t.sent)
  <2>1. SUFFICES ASSUME t.phase = "poll" PROVE ~SaidBy(s.entries, g, t.sent)
    OBVIOUS
  <2>2. Polls(t) /\ conv.partial = "none"
    BY <1>3, <2>1, LiveFacts DEF Polls
  <2>3. s = conv
    BY <2>2 DEF ConvertPartial
  <2> QED BY <1>3, <2>2, <2>3, LiveFacts
<1>6. g \in jobs => b
  <2>1. g \in jobs => Polls(t)
    BY <1>3, LiveFacts
  <2> HIDE DEF r, s
  <2> QED BY <1>1, <2>1 DEF Polls
<1> HIDE DEF s
<1>7. s \in Conv /\ g \in DOMAIN s.gens /\ s.gens = conv.gens
  BY <1>4 DEF Ready, Gens
<1> DEFINE u == Retried(t, b)
<1>8. r = RetryOf(s, g, u)
  <2> HIDE DEF b
  <2> QED BY ZenonT(30), <1>2, <1>7, RetryOfIs
<1> HIDE DEF r
<1>9. CASE ~RetryLeft(g)
  <2>1. jobs' \subseteq jobs /\ g \notin jobs' /\ conv' = End(EndFailedRun(s, g), g, "")
    BY <1>1, <1>9
  <2> QED BY <1>1, <1>3, <1>4, <2>1, EndFailedStep DEF Causes
<1>10. CASE RetryLeft(g)
  <2>1. jobs' = jobs /\ conv' = RetryOf(s, g, u)
    BY <1>1, <1>8, <1>10
  <2>2. u = Retried(conv.gens[g], b)
    OBVIOUS
  <2> HIDE DEF b, u
  <2>3. (g \in jobs' => b) /\ (b => ~SaidBy(s.entries, g, conv.gens[g].sent))
    BY <1>5, <1>6, <2>1
  <2>4. jobs' \subseteq jobs /\ settings' = settings /\ trouble' \in 0..MaxTrouble
    BY <1>1, <2>1
  <2> QED BY <1>2, <1>3, <1>4, <1>10, <2>1, <2>2, <2>3, <2>4, RetryLater
<1> QED BY <1>9, <1>10

LEMMA AppendTyped ==
  ASSUME NEW s \in Conv, NEW e \in EntryType, NEW r, r = AppendEntry(s, e)
  PROVE  /\ r \in Conv /\ r.entries = Append(s.entries, e) /\ r.gens = s.gens /\ r.subs = s.subs
         /\ r.inbox = s.inbox /\ r.run = s.run /\ r.slots = s.slots /\ r.comps = s.comps
         /\ r.partial = s.partial /\ r.failure = s.failure /\ r.lost = s.lost
<1>1. s.entries \in Seq(EntryType)
  BY DEF Conv
<1>2. Append(s.entries, e) \in Seq(EntryType)
  BY <1>1
<1> QED BY <1>2 DEF AppendEntry, Conv

\* The record of a generation that waits for the compaction k.
Waiting(t, k, cause) == [Going(t, "prepare", "waiting") EXCEPT !.comp = k, !.cause = cause]

LEMMA WaitingTyped ==
  ASSUME NEW t \in Gen, NEW k \in Nat, NEW u, u = Waiting(t, k, "overflow")
  PROVE  /\ u \in Gen /\ u.phase = "prepare" /\ u.fly = "none" /\ u.attempt = t.attempt
         /\ u.sent = t.sent /\ u.resent = t.resent /\ u.comp = k
<1> DEFINE v == Going(t, "prepare", "waiting")
<1>1. /\ v.phase = "prepare" /\ v.fly = "none" /\ v.attempt = t.attempt /\ v.sent = t.sent
      /\ v.resent = t.resent /\ v \in Gen
  BY GoingTyped DEF Phases, Statuses
<1>2. u = [v EXCEPT !.comp = k, !.cause = "overflow"]
  BY DEF Waiting
<1> HIDE DEF v
<1> QED BY <1>1, <1>2 DEF Gen

LEMMA OverflowPreserves == ASSUME ConvInv, NEW g \in Gens, Overflow(g) PROVE ConvInv'
<1> DEFINE t == conv.gens[g]
           k == Len(conv.comps) + 1
           m == Moved(conv, g, "prepare", "waiting")
           v == Going(t, "prepare", "waiting")
           e == Entry("error", g, t.sent)
           a == AppendEntry(m, e)
           n == NewComp(g, FALSE)
           c == WithComp(a, n)
           p == WithPartial(c, "none")
           u == Waiting(t, k, "overflow")
<1>1. /\ Answered(g) /\ t.comp = 0 /\ jobs' = jobs \ {g} /\ settings' = settings
      /\ trouble' \in 0..MaxTrouble
  BY DEF Overflow, MayCompact, ConvInv, TypeOK
<1>2. /\ t.phase \in {"request", "poll"} /\ t.phase # "ended" /\ ~SaidBy(conv.entries, g, t.sent)
      /\ t \in Gen /\ conv \in Conv /\ g \in DOMAIN conv.gens /\ g \in Nat
  BY <1>1, AnsweredFacts
<1>3. t.sent \in Nat /\ t.resent \in Nat /\ t.attempt \in Nat /\ Len(conv.comps) \in Nat
  <2>1. t.sent \in Nat /\ t.resent \in Nat /\ t.attempt \in Nat
    BY <1>2 DEF Gen
  <2>2. conv.comps \in Seq(Comp)
    BY <1>2 DEF Conv
  <2> QED BY <2>1, <2>2
<1>4. /\ m \in Conv /\ m.gens = Put(conv.gens, g, v) /\ m.gens[g] = v /\ m.entries = conv.entries
      /\ m.run = conv.run /\ m.slots = conv.slots /\ m.comps = conv.comps /\ v \in Gen
  BY <1>2, MovedTyped DEF Phases, Statuses
<1>5. v.sent = t.sent /\ v.resent = t.resent
  BY <1>2, GoingTyped DEF Phases, Statuses
<1>6. Say(m, g, "error") = a
  <2> HIDE DEF m, v
  <2> QED BY <1>4, <1>5 DEF Say
<1>7. CreateCompaction(a, g, FALSE) = c /\ n \in Comp
  BY <1>2, CreateCompactionIs
<1>8. conv' = [c EXCEPT !.partial = "none", !.gens[g] = [@ EXCEPT !.comp = k, !.cause = "overflow"]]
  <2> HIDE DEF k, a, c
  <2> QED BY <1>6, <1>7 DEF Overflow, k
<1>9. e \in EntryType /\ e.n = g /\ e.m = t.sent
  BY <1>2, <1>3, EntryTyped DEF SaidKinds, Entry
<1> HIDE DEF m, v, e, n
<1>10. /\ a \in Conv /\ a.gens = m.gens /\ a.entries = Append(m.entries, e) /\ a.run = m.run
       /\ a.slots = m.slots /\ a.comps = m.comps
  BY <1>4, <1>9, AppendTyped
<1> HIDE DEF a
<1>11. /\ c \in Conv /\ c.gens = a.gens /\ c.entries = a.entries /\ c.run = a.run
       /\ c.slots = a.slots
       /\ DOMAIN a.comps \subseteq DOMAIN c.comps /\ Len(a.comps) + 1 \in DOMAIN c.comps
  BY <1>7, <1>10, CompactionCreated
<1> HIDE DEF c
<1>12. /\ p \in Conv /\ p.gens = m.gens /\ p.entries = Append(conv.entries, e)
       /\ p.run = conv.run /\ p.slots = conv.slots /\ p.comps = c.comps /\ p.partial = "none"
  BY <1>4, <1>10, <1>11, WithPartialTyped
<1>13. conv' = WithGen(p, g, u)
  <2>1. c.gens[g] = v
    BY <1>4, <1>10, <1>11
  <2>2. u = [v EXCEPT !.comp = k, !.cause = "overflow"]
    BY DEF Waiting, v
  <2>3. [c EXCEPT !.partial = "none", !.gens[g] = [@ EXCEPT !.comp = k, !.cause = "overflow"]]
          = WithGen(WithPartial(c, "none"), g, [c.gens[g] EXCEPT !.comp = k, !.cause = "overflow"])
    <3> HIDE DEF k
    <3> QED BY <1>11 DEF WithGen, WithPartial, Put, Conv
  <2> HIDE DEF u, k
  <2> QED BY <1>8, <2>1, <2>2, <2>3
<1> HIDE DEF p
<1>14. /\ u \in Gen /\ u.phase = "prepare" /\ u.fly = "none" /\ u.attempt = t.attempt
       /\ u.sent = t.sent /\ u.resent = t.resent /\ u.comp = k /\ k # 0 /\ k \in DOMAIN c.comps
       /\ DOMAIN conv.comps \subseteq DOMAIN c.comps
  <2>1. k \in Nat /\ k # 0 /\ k \in DOMAIN c.comps /\ DOMAIN conv.comps \subseteq DOMAIN c.comps
    BY <1>3, <1>4, <1>10, <1>11
  <2> HIDE DEF k, t
  <2> QED BY <1>2, <2>1, WaitingTyped
<1> HIDE DEF u, k
<1>15. /\ conv' \in Conv /\ conv'.gens = Put(conv.gens, g, u) /\ conv'.entries = Append(conv.entries, e)
       /\ conv'.run = conv.run /\ conv'.slots = conv.slots /\ conv'.partial = "none"
       /\ conv'.comps = c.comps
  <2>1. p.gens = Put(conv.gens, g, v)
    BY <1>4, <1>12
  <2>2. conv \in Conv /\ g \in DOMAIN conv.gens /\ p \in Conv /\ u \in Gen
    BY <1>2, <1>12, <1>14
  <2>3. /\ conv' \in Conv /\ conv'.gens = Put(conv.gens, g, u) /\ conv'.entries = p.entries
        /\ conv'.run = p.run /\ conv'.slots = p.slots /\ conv'.partial = p.partial
        /\ conv'.comps = p.comps
    BY <1>13, <2>1, <2>2, Amended
  <2> QED BY <1>12, <2>3
<1>16. Says(conv.entries, conv'.entries, g, t.sent)
  <2>1. Ready(AppendEntry(conv, e), g)
    BY <1>2, <1>9, SayReady
  <2>2. AppendEntry(conv, e).entries = Append(conv.entries, e)
    BY <1>2, <1>9, AppendTyped
  <2> QED BY <1>15, <2>1, <2>2 DEF Ready
<1>17. TaskSound(u, settings.retries) /\ ~Polls(u) /\ u.phase # "ended"
  <2>1. TaskSound(t, settings.retries)
    BY <1>2, LiveFacts
  <2>2. t.attempt <= settings.retries + 1 /\ t.sent <= t.attempt + t.resent
    BY <1>1, <1>2, <1>3, <2>1, RetriesNat DEF TaskSound
  <2> QED BY SMTT(30), <1>3, <1>14, <2>2, RetriesNat DEF TaskSound, Polls, Unsent
<1>18. /\ Comps \subseteq Comps' /\ u.comp \in {t.comp} \cup Comps' /\ t.sent <= u.sent
       /\ jobs' \subseteq jobs \cup {g} /\ g \notin jobs' /\ u.fly # "streaming"
  BY <1>1, <1>3, <1>14, <1>15 DEF Comps
<1> QED BY <1>1, <1>2, <1>14, <1>15, <1>16, <1>17, <1>18, MoveFrom

LEMMA NewSlotTyped ==
  ASSUME NEW st \in {"pending", "call", "done", "lost"}
  PROVE  NewSlot(st) \in Slot /\ NewSlot(st).ran = 0 /\ NewSlot(st).fly = "none"
  BY DEF NewSlot, Slot, Statuses

\* A round begins: s with its slots, and one more turn.
RoundOf(s, slots, turns) ==
  [s EXCEPT !.partial = "none", !.slots = slots, !.run = [s.run EXCEPT !.turns = turns]]

LEMMA RoundOfTyped ==
  ASSUME NEW s \in Conv, NEW slots \in Seq(Slot), NEW turns \in Nat, NEW r, r = RoundOf(s, slots, turns)
  PROVE  /\ r \in Conv /\ r.gens = s.gens /\ r.entries = s.entries /\ r.run.task = s.run.task
         /\ r.slots = slots /\ r.comps = s.comps /\ r.partial = "none"
<1> DEFINE run == [s.run EXCEPT !.turns = turns]
<1>1. s.run \in Run
  BY DEF Conv
<1>2. run \in Run /\ run.task = s.run.task
  BY <1>1 DEF Run
<1>3. r = [s EXCEPT !.partial = "none", !.slots = slots, !.run = run]
  BY DEF RoundOf
<1> HIDE DEF run
<1> QED BY <1>2, <1>3 DEF Conv

LEMMA StartToolRoundPreserves ==
  ASSUME ConvInv, NEW g \in Gens, NEW n \in 1..MaxCalls, StartToolRound(g, n)
  PROVE  ConvInv'
<1> DEFINE t == conv.gens[g]
           m == Moved(conv, g, "tools", "waiting")
           u == Going(t, "tools", "waiting")
           e == [Entry("calls", g, t.sent) EXCEPT !.calls = n]
           a == AppendEntry(m, e)
           slots == [c \in 1..n |-> NewSlot(IF settings.sequential /\ c > 1 THEN "pending" ELSE "call")]
           turns == IF conv.run.task = g THEN a.run.turns + 1 ELSE a.run.turns
<1>1. /\ Answered(g) /\ jobs' = jobs \ {g} /\ settings' = settings /\ trouble' \in 0..MaxTrouble
      /\ conv' = [a EXCEPT !.partial = "none", !.slots = slots,
                           !.run.turns = IF conv.run.task = g THEN @ + 1 ELSE @]
  <2>1. conv' = [a EXCEPT !.partial = "none", !.slots = slots,
                           !.run.turns = IF conv.run.task = g THEN @ + 1 ELSE @]
    BY Zenon DEF StartToolRound
  <2>2. Answered(g) /\ jobs' = jobs \ {g} /\ settings' = settings /\ trouble' \in 0..MaxTrouble
    BY DEF StartToolRound, ConvInv, TypeOK
  <2> HIDE DEF a, slots
  <2> QED BY <2>1, <2>2
<1>2. conv' = RoundOf(a, slots, turns)
  <2>1. [a EXCEPT !.partial = "none", !.slots = slots,
                           !.run.turns = IF conv.run.task = g THEN @ + 1 ELSE @]
         = RoundOf(a, slots, turns)
    <3> HIDE DEF a, slots
    <3> QED BY DEF RoundOf
  <2> QED BY <1>1, <2>1
<1>3. /\ t.phase \in {"request", "poll"} /\ t.phase # "ended" /\ ~SaidBy(conv.entries, g, t.sent)
      /\ t \in Gen /\ conv \in Conv /\ g \in DOMAIN conv.gens /\ g \in Nat
  <2> HIDE DEF a, slots
  <2> QED BY <1>1, AnsweredFacts
<1>4. t.sent \in Nat /\ t.resent \in Nat /\ n \in Nat
  <2>1. t.sent \in Nat /\ t.resent \in Nat
    BY <1>3 DEF Gen
  <2>2. n \in Nat
    BY BoundsAssumption
  <2> QED BY <2>1, <2>2
<1>5. /\ m \in Conv /\ m.gens = Put(conv.gens, g, u) /\ m.entries = conv.entries
      /\ m.run = conv.run /\ m.slots = conv.slots /\ m.comps = conv.comps
  BY <1>3, MovedTyped DEF Phases, Statuses
<1>6. e \in EntryType /\ e.n = g /\ e.m = t.sent /\ e.kind = "calls"
  BY <1>3, <1>4 DEF Entry, EntryType, SaidKinds
<1> HIDE DEF m, e
<1>7. /\ a \in Conv /\ a.gens = m.gens /\ a.entries = Append(m.entries, e) /\ a.run = m.run
      /\ a.slots = m.slots /\ a.comps = m.comps
  BY <1>5, <1>6, AppendTyped
<1>8. /\ slots \in Seq(Slot) /\ \A c \in DOMAIN slots : slots[c].ran = 0
  <2>1. \A c \in 1..n : slots[c] \in Slot /\ slots[c].ran = 0
    <3> TAKE c \in 1..n
    <3> DEFINE st == IF settings.sequential /\ c > 1 THEN "pending" ELSE "call"
    <3>1. slots[c] = NewSlot(st) /\ st \in {"pending", "call", "done", "lost"}
      OBVIOUS
    <3> HIDE DEF st, slots
    <3> QED BY <3>1, NewSlotTyped
  <2>2. slots \in [1..n -> Slot]
    BY <2>1
  <2>3. DOMAIN slots = 1..n
    OBVIOUS
  <2> HIDE DEF slots
  <2> QED BY <1>4, <2>1, <2>2, <2>3, IsSeq
<1>9. turns \in Nat
  <2>1. a.run.turns \in Nat
    BY <1>7 DEF Conv, Run
  <2> HIDE DEF a
  <2> QED BY <2>1
<1> HIDE DEF a, slots, turns
<1>10. /\ conv' \in Conv /\ conv'.gens = Put(conv.gens, g, u) /\ conv'.entries = Append(conv.entries, e)
       /\ conv'.run.task = conv.run.task /\ conv'.slots = slots /\ conv'.comps = conv.comps
       /\ conv'.partial = "none"
  <2>1. a \in Conv /\ slots \in Seq(Slot)
    BY <1>7, <1>8
  <2>2. /\ conv' \in Conv /\ conv'.gens = a.gens /\ conv'.entries = a.entries
        /\ conv'.run.task = a.run.task /\ conv'.slots = slots /\ conv'.comps = a.comps
        /\ conv'.partial = "none"
    BY <1>2, <1>9, <2>1, RoundOfTyped
  <2> HIDE DEF u
  <2> QED BY <1>5, <1>7, <2>2
<1>11. Says(conv.entries, conv'.entries, g, t.sent)
  <2>1. Ready(AppendEntry(conv, e), g)
    BY <1>3, <1>6, SayReady
  <2>2. AppendEntry(conv, e).entries = Append(conv.entries, e)
    BY <1>3, <1>6, AppendTyped
  <2> QED BY <1>10, <2>1, <2>2 DEF Ready
<1>12. CallsKnown' /\ SlotsOnce'
  <2>1. conv.entries \in Seq(EntryType)
    BY InvFacts
  <2>2. /\ Len(conv.entries) + 1 \in DOMAIN Append(conv.entries, e)
        /\ Append(conv.entries, e)[Len(conv.entries) + 1] = e
    BY <2>1, <1>6
  <2>3. CallsKnown'
    BY <1>6, <1>10, <2>2 DEF CallsKnown
  <2>4. SlotsOnce'
    BY <1>8, <1>10 DEF SlotsOnce, UnsafeRunsOnce
  <2> QED BY <2>3, <2>4
<1>13. /\ u \in Gen /\ u.phase = "tools" /\ u.fly = "none" /\ u.attempt = t.attempt
       /\ u.sent = t.sent /\ u.resent = t.resent
       /\ u.comp = t.comp
  BY <1>3, GoingTyped DEF Phases, Statuses
<1> HIDE DEF u
<1>14. /\ ~Polls(u) /\ u.phase \in Phases \ {"prepare", "request"} /\ u.phase # "retry"
       /\ jobs' \subseteq jobs \cup {g} /\ g \notin jobs'
  BY <1>1, <1>13 DEF Polls, Phases
<1>15. settings' = settings /\ trouble' \in 0..MaxTrouble
  BY <1>1
<1> QED BY <1>3, <1>10, <1>11, <1>12, <1>13, <1>14, <1>15, MoveOn

\* s with v for the slot of call c.
WithSlot(s, c, v) == [s EXCEPT !.slots = Put(s.slots, c, v)]

LEMMA WithSlotTyped ==
  ASSUME NEW s \in Conv, NEW c, NEW v \in Slot, NEW r, r = WithSlot(s, c, v)
  PROVE  /\ r \in Conv /\ r.slots = Put(s.slots, c, v) /\ r.gens = s.gens
         /\ r.subs = s.subs /\ r.inbox = s.inbox /\ r.entries = s.entries /\ r.run = s.run
         /\ r.comps = s.comps /\ r.partial = s.partial
         /\ r.failure = s.failure /\ r.lost = s.lost
<1>1. s.slots \in Seq(Slot)
  BY DEF Conv
<1>2. Put(s.slots, c, v) \in Seq(Slot)
  BY <1>1, SeqExcept DEF Put
<1> QED BY <1>2 DEF WithSlot, Conv

\* The transcript keeps what it has.
Kept(es, fs) == \A i \in DOMAIN es : i \in DOMAIN fs /\ fs[i] = es[i]

LEMMA LongerKept ==
  ASSUME NEW es \in Seq(EntryType), NEW fs \in Seq(EntryType), Longer(es, fs)
  PROVE  Kept(es, fs)
  BY DEF Kept, Longer

LEMMA SlotPut ==
  ASSUME ConvInv, conv' \in Conv, NEW c \in DOMAIN conv.slots, NEW v \in Slot,
         conv'.slots = Put(conv.slots, c, v), Kept(conv.entries, conv'.entries),
         v.ran > 1 => v.safe, v.st = "call" \/ v.fly = "intent" => v.ran = 0
  PROVE  CallsKnown' /\ SlotsOnce'
<1>1. conv.slots \in Seq(Slot)
  BY InvFacts DEF Conv
<1>2. /\ DOMAIN conv'.slots = DOMAIN conv.slots /\ conv'.slots[c] = v
      /\ \A d \in DOMAIN conv.slots : d # c => conv'.slots[d] = conv.slots[d]
  BY <1>1 DEF Put
<1>3. SlotsOnce /\ CallsKnown
  BY DEF ConvInv
<1>4. CallsKnown'
  <2>1. conv.slots # <<>>
    BY <1>1
  <2>2. PICK i \in DOMAIN conv.entries : conv.entries[i].kind = "calls"
    BY <1>3, <2>1 DEF CallsKnown
  <2>3. i \in DOMAIN conv'.entries /\ conv'.entries[i].kind = "calls"
    BY <2>2 DEF Kept
  <2> QED BY <2>3 DEF CallsKnown
<1>5. SlotsOnce'
  <2> SUFFICES ASSUME NEW d \in DOMAIN conv'.slots
               PROVE  /\ conv'.slots[d].ran > 1 => conv'.slots[d].safe
                      /\ conv'.slots[d].st = "call" \/ conv'.slots[d].fly = "intent" => conv'.slots[d].ran = 0
    BY DEF SlotsOnce, UnsafeRunsOnce
  <2>1. CASE d = c
    BY <1>2, <2>1
  <2>2. CASE d # c
    <3>1. conv'.slots[d] = conv.slots[d] /\ d \in DOMAIN conv.slots
      BY <1>2, <2>2
    <3> QED BY <1>3, <3>1 DEF SlotsOnce, UnsafeRunsOnce
  <2> QED BY <2>1, <2>2
<1> QED BY <1>4, <1>5

LEMMA NextCallPreserves == ASSUME ConvInv, NEW g \in Gens, NextCall(g) PROVE ConvInv'
<1> DEFINE t == conv.gens[g]
           m == Moved(conv, g, "tools", "waiting")
           u == Going(t, "tools", "waiting")
           c == Min(Pending(conv))
           v == NewSlot("call")
<1>1. /\ t.phase = "tools" /\ Pending(conv) # {} /\ UNCHANGED <<settings, jobs, trouble>>
      /\ conv' = [m EXCEPT !.slots[c] = v]
  BY DEF NextCall, InPhase
<1>2. conv' = WithSlot(m, c, v)
  <2>1. [m EXCEPT !.slots[c] = v] = WithSlot(m, c, v)
    <3> HIDE DEF m, c, v
    <3> QED BY DEF WithSlot, Put
  <2> QED BY <1>1, <2>1
<1>3. /\ t.phase # "ended" /\ t \in Gen /\ conv \in Conv /\ g \in DOMAIN conv.gens
      /\ conv.partial = "none" /\ g \notin jobs
  <2> HIDE DEF m, c, v
  <2> QED BY <1>1, LiveFacts, InvFacts DEF Polls, Gens
<1>4. c \in DOMAIN conv.slots
  <2>1. Pending(conv) \subseteq Nat /\ Pending(conv) \subseteq DOMAIN conv.slots
    BY <1>3, SlotNumbers DEF Pending
  <2>2. c \in Pending(conv)
    BY <1>1, <2>1, MinIn
  <2> QED BY <2>1, <2>2
<1>5. v \in Slot /\ v.ran = 0
  BY NewSlotTyped
<1>6. /\ m \in Conv /\ m.gens = Put(conv.gens, g, u) /\ m.entries = conv.entries
      /\ m.run = conv.run /\ m.slots = conv.slots /\ m.comps = conv.comps /\ m.partial = conv.partial
  BY <1>3, MovedTyped DEF Phases, Statuses
<1> HIDE DEF m, c, v
<1>7. /\ conv' \in Conv /\ conv'.gens = Put(conv.gens, g, u) /\ conv'.entries = conv.entries
      /\ conv'.run = conv.run /\ conv'.slots = Put(conv.slots, c, v) /\ conv'.comps = conv.comps
      /\ conv'.partial = "none"
  <2> HIDE DEF u
  <2> QED BY <1>2, <1>3, <1>5, <1>6, WithSlotTyped
<1>8. CallsKnown' /\ SlotsOnce'
  <2>1. Kept(conv.entries, conv'.entries)
    BY <1>7 DEF Kept
  <2> QED BY <1>4, <1>5, <1>7, <2>1, SlotPut
<1>9. Says(conv.entries, conv'.entries, g, t.sent)
  BY <1>7, InvFacts, GrowsSelf, GrowsSays
<1>10. /\ u \in Gen /\ u.phase = "tools" /\ u.fly = "none" /\ u.attempt = t.attempt
       /\ u.sent = t.sent /\ u.resent = t.resent
       /\ u.comp = t.comp
  BY <1>3, GoingTyped DEF Phases, Statuses
<1> HIDE DEF u
<1>11. settings' = settings /\ jobs' = jobs /\ trouble' \in 0..MaxTrouble
  BY <1>1, Held
<1>12. /\ ~Polls(u) /\ u.phase \in Phases \ {"prepare", "request"} /\ u.phase # "retry"
       /\ jobs' \subseteq jobs \cup {g} /\ g \notin jobs' /\ conv'.run.task = conv.run.task
  BY <1>3, <1>7, <1>10, <1>11 DEF Polls, Phases
<1> QED BY <1>3, <1>7, <1>8, <1>9, <1>10, <1>11, <1>12, MoveOn

LEMMA FinishPreserves == ASSUME ConvInv, NEW g \in Gens, Finish(g) PROVE ConvInv'
<1> DEFINE t == conv.gens[g]
           m == Moved(conv, g, "drain", "waiting")
           w == Going(t, "drain", "waiting")
           u == [m.gens[g] EXCEPT !.tasks = TRUE]
           r == [m EXCEPT !.gens[g] = [@ EXCEPT !.tasks = TRUE]]
<1>1. /\ t.phase = "finish" /\ UNCHANGED <<settings, jobs, trouble>>
      /\ conv' = r \/ conv' = EndAnswered(conv, g)
  <2>1. conv' = r \/ conv' = EndAnswered(conv, g)
    BY Zenon DEF Finish
  <2>2. t.phase = "finish" /\ UNCHANGED <<settings, jobs, trouble>>
    BY DEF Finish, InPhase
  <2> HIDE DEF r
  <2> QED BY <2>1, <2>2
<1>2. /\ t.phase # "ended" /\ t \in Gen /\ conv \in Conv /\ g \in DOMAIN conv.gens
      /\ conv.partial = "none" /\ g \notin jobs
  <2> HIDE DEF r
  <2> QED BY <1>1, LiveFacts, InvFacts DEF Polls, Gens
<1>3. settings' = settings /\ jobs' = jobs /\ trouble' \in 0..MaxTrouble
  <2> HIDE DEF r
  <2> QED BY <1>1, Held
<1>4. CASE conv' = EndAnswered(conv, g)
  BY <1>2, <1>3, <1>4, ReadySelf, EndAnsweredStep
<1>5. CASE conv' = r
  <2>1. r = WithGen(m, g, u)
    <3> HIDE DEF m
    <3> QED BY DEF WithGen, Put
  <2>2. /\ m \in Conv /\ m.gens = Put(conv.gens, g, w) /\ m.gens[g] = w /\ m.entries = conv.entries
        /\ m.run = conv.run /\ m.slots = conv.slots /\ m.comps = conv.comps /\ m.partial = conv.partial
        /\ w \in Gen
    BY <1>2, MovedTyped DEF Phases, Statuses
  <2>3. conv' = WithGen(m, g, u)
    BY <1>5, <2>1
  <2> HIDE DEF r, m
  <2>4. /\ w.phase = "drain" /\ w.fly = "none" /\ w.attempt = t.attempt /\ w.sent = t.sent
        /\ w.resent = t.resent
        /\ w.comp = t.comp
    BY <1>2, GoingTyped DEF Phases, Statuses
  <2> HIDE DEF w
  <2>5. /\ u \in Gen /\ u.phase = "drain" /\ u.fly = "none" /\ u.attempt = t.attempt
        /\ u.sent = t.sent /\ u.resent = t.resent
        /\ u.comp = t.comp
    BY <2>2, <2>4 DEF Gen
  <2> HIDE DEF u
  <2>6. /\ conv' \in Conv /\ conv'.gens = Put(conv.gens, g, u) /\ conv'.entries = m.entries
        /\ conv'.run = m.run /\ conv'.slots = m.slots /\ conv'.comps = m.comps
        /\ conv'.partial = m.partial
    <3>1. conv \in Conv /\ g \in DOMAIN conv.gens /\ m \in Conv /\ m.gens = Put(conv.gens, g, w) /\ u \in Gen
      BY <1>2, <2>2, <2>5
    <3> QED BY SMTT(30), <2>3, <3>1, Amended
  <2>7. Says(conv.entries, conv'.entries, g, t.sent)
    BY <2>2, <2>6, InvFacts, GrowsSelf, GrowsSays
  <2>8. CallsKnown' /\ SlotsOnce'
    BY <2>2, <2>6, <2>7, SlotsUntouched
  <2>9. /\ ~Polls(u) /\ u.phase \in Phases \ {"prepare", "request"} /\ u.phase # "retry"
        /\ jobs' \subseteq jobs \cup {g} /\ g \notin jobs' /\ conv'.run.task = conv.run.task
        /\ conv'.comps = conv.comps /\ conv'.partial = "none"
    BY <1>2, <1>3, <2>2, <2>5, <2>6 DEF Polls, Phases
  <2> QED BY <1>2, <1>3, <2>5, <2>6, <2>7, <2>8, <2>9, MoveOn
<1> QED
  <2> HIDE DEF r
  <2> QED BY <1>1, <1>4, <1>5

-----------------------------------------------------------------------------
(* The actions that leave the generations as they are                       *)

LEMMA StillStep ==
  ASSUME ConvInv, settings' = settings, trouble' \in 0..MaxTrouble, jobs' = jobs,
         conv' \in Conv, conv'.gens = conv.gens, conv'.run = conv.run,
         Longer(conv.entries, conv'.entries), Comps \subseteq Comps',
         conv'.partial # "none" => conv.partial # "none", CallsKnown', SlotsOnce'
  PROVE  ConvInv'
<1>1. Bounded
  BY DEF Bounded
<1>2. \A g \in Gens : Weaker(conv.gens[g], conv'.gens[g])
  BY InvFacts, WeakerSelf
<1>3. Len(conv'.gens) = Len(conv.gens)
  OBVIOUS
<1> QED BY <1>1, <1>2, <1>3, WeakStep

LEMMA FramedStep ==
  ASSUME ConvInv, settings' = settings, trouble' \in 0..MaxTrouble, jobs' = jobs, Framed(conv, conv')
  PROVE  ConvInv'
<1>1. /\ conv' \in Conv /\ conv'.gens = conv.gens /\ conv'.run = conv.run
      /\ Grows(conv.entries, conv'.entries) /\ conv'.comps = conv.comps /\ conv'.partial = conv.partial
      /\ conv'.slots = conv.slots
  BY DEF Framed
<1>2. SlotsKept(conv, conv')
  BY <1>1 DEF SlotsKept, Grows
<1>3. CallsKnown' /\ SlotsOnce'
  BY <1>1, <1>2, SlotsKeep
<1> QED BY <1>1, <1>3, GrowsLonger, StillStep DEF Comps

LEMMA StorePartialPreserves == ASSUME ConvInv, StorePartial PROVE ConvInv'
<1>1. conv' = WithPartial(conv, "stored") /\ conv.partial = "memory" /\ UNCHANGED <<settings, jobs, trouble>>
  BY DEF StorePartial, WithPartial
<1>2. /\ conv' \in Conv /\ conv'.gens = conv.gens /\ conv'.run = conv.run /\ conv'.entries = conv.entries
      /\ conv'.slots = conv.slots /\ conv'.comps = conv.comps
  BY <1>1, InvFacts, WithPartialTyped
<1>3. Grows(conv.entries, conv'.entries) /\ Comps \subseteq Comps'
  BY <1>2, InvFacts, GrowsSelf DEF Comps
<1>4. CallsKnown' /\ SlotsOnce'
  <2>1. SlotsKept(conv, conv')
    BY <1>2, InvFacts DEF SlotsKept
  <2> QED BY <1>2, <2>1, SlotsKeep
<1> QED BY <1>1, <1>2, <1>3, <1>4, Held, GrowsLonger, StillStep

LEMMA AbortSubmissionPreserves ==
  ASSUME ConvInv, NEW i \in DOMAIN conv.subs, AbortSubmission(i)
  PROVE  ConvInv'
<1>1. conv' = Withdraw(conv, {i}) /\ UNCHANGED <<settings, jobs, trouble>>
  BY DEF AbortSubmission
<1>2. Framed(conv, conv')
  BY <1>1, InvFacts, WithdrawFramed
<1> QED BY <1>1, <1>2, Held, FramedStep

LEMMA CompactPreserves == ASSUME ConvInv, Compact PROVE ConvInv'
<1> DEFINE n == NewComp(0, FALSE)
<1>1. conv' = CreateCompaction(conv, 0, FALSE) /\ UNCHANGED <<settings, jobs, trouble>>
  BY DEF Compact
<1>2. conv' = WithComp(conv, n) /\ n \in Comp
  BY <1>1, CreateCompactionIs
<1> HIDE DEF n
<1>3. /\ conv' \in Conv /\ conv'.gens = conv.gens /\ conv'.run = conv.run /\ conv'.entries = conv.entries
      /\ conv'.slots = conv.slots /\ conv'.partial = conv.partial
      /\ DOMAIN conv.comps \subseteq DOMAIN conv'.comps
  BY <1>2, InvFacts, CompactionCreated
<1>4. Grows(conv.entries, conv'.entries) /\ Comps \subseteq Comps'
  BY <1>3, InvFacts, GrowsSelf DEF Comps
<1>5. CallsKnown' /\ SlotsOnce'
  <2>1. SlotsKept(conv, conv')
    BY <1>3, InvFacts DEF SlotsKept
  <2> QED BY <1>3, <2>1, SlotsKeep
<1> QED BY <1>1, <1>3, <1>4, <1>5, Held, GrowsLonger, StillStep

LEMMA AfterRunTaskEndsPreserves ==
  ASSUME ConvInv, NEW g \in Gens, AfterRunTaskEnds(g)
  PROVE  ConvInv'
<1> DEFINE t == conv.gens[g]
           u == [t EXCEPT !.tasks = FALSE]
<1>1. conv' = WithGen(conv, g, u) /\ UNCHANGED <<settings, jobs, trouble>>
  BY DEF AfterRunTaskEnds, WithGen, Put
<1>2. t \in Gen /\ conv \in Conv /\ g \in DOMAIN conv.gens
  BY InvFacts DEF Gens
<1> HIDE DEF t
<1>3. /\ u \in Gen /\ u.phase = t.phase /\ u.poll = t.poll /\ u.sent = t.sent
      /\ u.resent = t.resent /\ u.comp = t.comp
      /\ u.attempt = t.attempt /\ u.cause = t.cause /\ u.fly = t.fly /\ u.status = t.status
      /\ u.marked = t.marked /\ u.restarts = t.restarts
  BY <1>2 DEF Gen
<1> HIDE DEF u
<1>4. /\ conv' \in Conv /\ conv'.gens = Put(conv.gens, g, u) /\ DOMAIN conv'.gens = DOMAIN conv.gens
      /\ conv'.run = conv.run /\ conv'.entries = conv.entries /\ conv'.slots = conv.slots
      /\ conv'.comps = conv.comps /\ conv'.partial = conv.partial
  BY <1>1, <1>2, <1>3, WithGenTyped
<1>5. Weaker(t, u)
  <2>1. t.resent \in Nat
    BY <1>2 DEF Gen
  <2> QED BY <1>3, <2>1 DEF Weaker, Unsent
<1>6. \A h \in Gens : Weaker(conv.gens[h], conv'.gens[h])
  <2> TAKE h \in Gens
  <2>1. CASE h = g
    BY <1>2, <1>4, <1>5, <2>1, PutAt DEF t
  <2>2. CASE h # g
    <3>1. conv'.gens[h] = conv.gens[h]
      BY <1>4, <2>2 DEF Put, Gens
    <3> QED BY <3>1, InvFacts, WeakerSelf
  <2> QED BY <2>1, <2>2
<1>7. Len(conv'.gens) = Len(conv.gens)
  <2>1. conv.gens \in Seq(Gen) /\ conv'.gens \in Seq(Gen)
    BY <1>2, <1>4 DEF Conv
  <2> QED BY <1>4, <2>1
<1>8. Grows(conv.entries, conv'.entries) /\ Comps \subseteq Comps'
  BY <1>4, InvFacts, GrowsSelf DEF Comps
<1>9. CallsKnown' /\ SlotsOnce'
  <2>1. SlotsKept(conv, conv')
    BY <1>4, InvFacts DEF SlotsKept
  <2> QED BY <1>4, <2>1, SlotsKeep
<1>10. Bounded /\ jobs' = jobs
  BY <1>1, <1>4, <1>9, Held DEF Bounded
<1> QED BY <1>4, <1>6, <1>7, <1>8, <1>10, GrowsLonger, WeakStep

-----------------------------------------------------------------------------
(* Tool calls                                                               *)

\* A step of the task of call c, which leaves v for its slot.
LEMMA SlotStep ==
  ASSUME ConvInv, settings' = settings, trouble' \in 0..MaxTrouble, jobs' = jobs,
         NEW c \in DOMAIN conv.slots, NEW v \in Slot,
         v.ran > 1 => v.safe, v.st = "call" \/ v.fly = "intent" => v.ran = 0,
         conv' \in Conv, conv'.slots = Put(conv.slots, c, v), conv'.gens = conv.gens,
         conv'.run = conv.run, conv'.comps = conv.comps, conv'.partial = conv.partial,
         Longer(conv.entries, conv'.entries)
  PROVE  ConvInv'
<1>1. conv.entries \in Seq(EntryType) /\ conv'.entries \in Seq(EntryType)
  BY InvFacts DEF Conv
<1>2. Kept(conv.entries, conv'.entries)
  BY <1>1, LongerKept
<1>3. CallsKnown' /\ SlotsOnce'
  BY <1>2, SlotPut
<1>4. Comps \subseteq Comps'
  BY DEF Comps
<1> QED BY <1>3, <1>4, StillStep

LEMMA SlotFacts ==
  ASSUME ConvInv, NEW c \in DOMAIN conv.slots
  PROVE  /\ conv.slots[c] \in Slot /\ conv.slots[c].ran \in Nat /\ conv \in Conv /\ c \in Nat
         /\ conv.slots[c].ran > 1 => conv.slots[c].safe
         /\ conv.slots[c].st = "call" \/ conv.slots[c].fly = "intent" => conv.slots[c].ran = 0
         /\ Assistant(conv) \in Nat
<1>1. conv \in Conv
  BY InvFacts
<1>2. conv.slots \in Seq(Slot)
  BY <1>1 DEF Conv
<1>3. conv.slots[c] \in Slot /\ c \in Nat /\ conv.slots # <<>>
  BY <1>2
<1>4. conv.slots[c].ran \in Nat
  BY <1>3 DEF Slot
<1>5. Assistant(conv) \in Nat
  <2>1. \E i \in DOMAIN conv.entries : conv.entries[i].kind = "calls"
    BY <1>3 DEF ConvInv, CallsKnown
  <2> QED BY <1>1, <2>1, AssistantFound
<1>6. SlotsOnce
  BY DEF ConvInv
<1>7. /\ conv.slots[c].ran > 1 => conv.slots[c].safe
      /\ conv.slots[c].st = "call" \/ conv.slots[c].fly = "intent" => conv.slots[c].ran = 0
  BY <1>6 DEF SlotsOnce, UnsafeRunsOnce
<1> QED BY <1>1, <1>3, <1>4, <1>5, <1>7

\* The slot alone changes.
LEMMA SlotOnlyStep ==
  ASSUME ConvInv, UNCHANGED <<settings, jobs, trouble>>,
         NEW c \in DOMAIN conv.slots, NEW v \in Slot,
         v.ran > 1 => v.safe, v.st = "call" \/ v.fly = "intent" => v.ran = 0,
         conv' = WithSlot(conv, c, v)
  PROVE  ConvInv'
<1>1. /\ conv' \in Conv /\ conv'.slots = Put(conv.slots, c, v) /\ conv'.gens = conv.gens
      /\ conv'.run = conv.run /\ conv'.comps = conv.comps /\ conv'.partial = conv.partial
      /\ conv'.entries = conv.entries
  BY InvFacts, WithSlotTyped
<1>2. Grows(conv.entries, conv'.entries)
  BY <1>1, InvFacts, GrowsSelf
<1> QED BY <1>1, <1>2, Held, GrowsLonger, SlotStep

LEMMA SettleCallStep ==
  ASSUME ConvInv, UNCHANGED <<settings, jobs, trouble>>, NEW c \in DOMAIN conv.slots,
         NEW control \in SUBSET {"terminate", "handoff"}, SettleCall(c, control)
  PROVE  ConvInv'
<1> DEFINE r == Results(conv, <<c>>)
           n == NewSlot("done")
           v == [n EXCEPT !.control = control]
<1>1. conv' = WithSlot(r, c, v)
  <2>1. conv' = [r EXCEPT !.slots[c] = v]
    BY DEF SettleCall
  <2> HIDE DEF r, v
  <2> QED BY <2>1 DEF WithSlot, Put
<1>2. n \in Slot /\ n.ran = 0 /\ n.fly = "none"
  BY NewSlotTyped
<1> HIDE DEF n
<1>3. v \in Slot /\ v.ran = 0
  BY <1>2 DEF Slot
<1> HIDE DEF v
<1>4. Lengthened(conv, r)
  <2>1. <<c>> \in Seq(Nat)
    BY SlotFacts
  <2> QED BY <2>1, SlotFacts, ResultsLengthened
<1> HIDE DEF r
<1>5. /\ r \in Conv /\ Longer(conv.entries, r.entries) /\ r.gens = conv.gens /\ r.run = conv.run
      /\ r.slots = conv.slots /\ r.comps = conv.comps /\ r.partial = conv.partial
  BY <1>4 DEF Lengthened
<1>6. /\ conv' \in Conv /\ conv'.slots = Put(conv.slots, c, v) /\ conv'.gens = conv.gens
      /\ conv'.run = conv.run /\ conv'.comps = conv.comps /\ conv'.partial = conv.partial
      /\ Longer(conv.entries, conv'.entries)
  BY <1>1, <1>3, <1>5, WithSlotTyped
<1> QED BY <1>3, <1>6, Held, SlotStep

LEMMA CallLostStep ==
  ASSUME ConvInv, settings' = settings, trouble' \in 0..MaxTrouble, jobs' = jobs,
         NEW c \in DOMAIN conv.slots, CallLost(c)
  PROVE  ConvInv'
<1> DEFINE v == NewSlot("lost")
           w == WithSlot(conv, c, v)
           lost == conv.lost \cup {<<Assistant(conv), c>>}
<1>1. conv' = [w EXCEPT !.lost = lost]
  <2>1. conv' = [conv EXCEPT !.slots[c] = v, !.lost = @ \cup {<<Assistant(conv), c>>}]
    BY DEF CallLost
  <2>2. conv \in Conv
    BY InvFacts
  <2> HIDE DEF v
  <2> QED BY <2>1, <2>2 DEF WithSlot, Put, Conv
<1>2. v \in Slot /\ v.ran = 0
  BY NewSlotTyped
<1> HIDE DEF v
<1>3. /\ w \in Conv /\ w.slots = Put(conv.slots, c, v) /\ w.gens = conv.gens
      /\ w.run = conv.run /\ w.comps = conv.comps /\ w.partial = conv.partial
      /\ w.entries = conv.entries
  BY <1>2, InvFacts, WithSlotTyped
<1>4. lost \in SUBSET (Nat \X Nat)
  <2>1. conv.lost \in SUBSET (Nat \X Nat)
    BY InvFacts DEF Conv
  <2> QED BY <2>1, SlotFacts
<1> HIDE DEF w, lost
<1>5. /\ conv' \in Conv /\ conv'.slots = Put(conv.slots, c, v) /\ conv'.gens = conv.gens
      /\ conv'.run = conv.run /\ conv'.comps = conv.comps /\ conv'.partial = conv.partial
      /\ conv'.entries = conv.entries
  <2>1. /\ conv' \in Conv /\ conv'.slots = w.slots /\ conv'.gens = w.gens
        /\ conv'.run = w.run /\ conv'.comps = w.comps /\ conv'.partial = w.partial
        /\ conv'.entries = w.entries
    BY <1>1, <1>3, <1>4 DEF Conv
  <2> QED BY <1>3, <2>1
<1>6. Grows(conv.entries, conv'.entries)
  BY <1>5, InvFacts, GrowsSelf
<1> QED BY <1>2, <1>5, <1>6, GrowsLonger, SlotStep

LEMMA ToolPreserves ==
  ASSUME ConvInv, NEW c \in DOMAIN conv.slots, Tool(c) \/ ToolFaults(c)
  PROVE  ConvInv'
<1> DEFINE t == conv.slots[c]
<1>1. /\ t \in Slot /\ t.ran \in Nat /\ conv \in Conv /\ (t.ran > 1 => t.safe)
      /\ t.st = "call" \/ t.fly = "intent" => t.ran = 0
  BY SlotFacts
<1>2. CASE ToolReserve(c)
  <2> DEFINE v == [t EXCEPT !.status = "running"]
  <2>1. conv' = WithSlot(conv, c, v) /\ UNCHANGED <<settings, jobs, trouble>>
    BY <1>2 DEF ToolReserve, WithSlot, Put
  <2> HIDE DEF t
  <2>2. v \in Slot /\ v.ran = t.ran /\ v.safe = t.safe /\ v.st = t.st /\ v.fly = t.fly
    BY <1>1 DEF Slot, Statuses
  <2> HIDE DEF v
  <2> QED BY <1>1, <2>1, <2>2, SlotOnlyStep
<1>3. CASE ToolIntent(c)
  <2>1. PICK safe \in BOOLEAN :
          conv' = [conv EXCEPT !.slots[c] = [@ EXCEPT !.st = "execute", !.restarts = 0,
                                                      !.safe = safe, !.fly = "intent"]]
    BY <1>3, Zenon DEF ToolIntent
  <2>2. t.st = "call" /\ UNCHANGED <<settings, jobs, trouble>>
    BY <1>3 DEF ToolIntent, CallAt
  <2> DEFINE v == [t EXCEPT !.st = "execute", !.restarts = 0, !.safe = safe, !.fly = "intent"]
  <2>3. conv' = WithSlot(conv, c, v)
    BY <2>1 DEF WithSlot, Put
  <2> HIDE DEF t
  <2>4. v \in Slot /\ v.ran = t.ran
    BY <1>1 DEF Slot
  <2> HIDE DEF v
  <2> QED BY <1>1, <2>2, <2>3, <2>4, SlotOnlyStep
<1>4. CASE ToolRuns(c) \/ ToolReplays(c)
  <2> DEFINE n == t.ran + 1
             v == [t EXCEPT !.fly = "running", !.ran = n]
  <2>1. /\ conv' = Execute(c) /\ UNCHANGED <<settings, jobs, trouble>> /\ t.st = "execute"
        /\ t.fly = "intent" \/ t.safe
    BY <1>4 DEF ToolRuns, ToolReplays, CallAt
  <2>2. conv' = WithSlot(conv, c, v)
    BY <2>1 DEF Execute, WithSlot, Put
  <2>3. n \in Nat /\ (t.ran = 0 => n = 1)
    BY <1>1
  <2> HIDE DEF t, n
  <2>4. v \in Slot /\ v.ran = n /\ v.safe = t.safe /\ v.st = t.st /\ v.fly = "running"
    BY <1>1, <2>3 DEF Slot
  <2> HIDE DEF v
  <2>5. v.ran > 1 => v.safe
    <3>1. CASE t.fly = "intent"
      BY <1>1, <2>3, <2>4, <3>1
    <3>2. CASE t.safe
      BY <2>4, <3>2
    <3> QED BY <2>1, <3>1, <3>2
  <2>6. ~(v.st = "call" \/ v.fly = "intent")
    BY <2>1, <2>4
  <2> QED BY <2>1, <2>2, <2>4, <2>5, <2>6, SlotOnlyStep
<1>5. CASE \E control \in SUBSET {"terminate", "handoff"} :
             SettleCall(c, control) /\ UNCHANGED <<settings, jobs, trouble>>
  BY <1>5, SettleCallStep
<1>6. CASE ToolFaults(c) \/ ToolEnded(c)
  <2>1. settings' = settings /\ trouble' \in 0..MaxTrouble /\ jobs' = jobs /\ CallLost(c)
    BY <1>6, Held, MoreTroubleCounts DEF ToolFaults, ToolEnded
  <2> QED BY <2>1, CallLostStep
<1>7. CASE ToolInterrupted(c) \/ ToolAborts(c)
  <2>1. SettleCall(c, {}) /\ UNCHANGED <<settings, jobs, trouble>>
    BY <1>7 DEF ToolInterrupted, ToolAborts
  <2> QED BY <1>5, <2>1
<1>8. CASE ToolReject(c) \/ ToolEnds(c)
  <2>1. PICK control \in Controls \cup {{}} : SettleCall(c, control)
    BY <1>8 DEF ToolReject, ToolEnds
  <2>2. control \in SUBSET {"terminate", "handoff"}
    BY ControlsAssumption
  <2>3. UNCHANGED <<settings, jobs, trouble>>
    BY <1>8 DEF ToolReject, ToolEnds
  <2> QED BY <1>5, <2>1, <2>2, <2>3
<1> QED BY <1>2, <1>3, <1>4, <1>6, <1>7, <1>8 DEF Tool

-----------------------------------------------------------------------------
(* Admission                                                                *)

\* One more submission.
NewSub(s, sub) == [s EXCEPT !.subs = Append(@, sub)]

LEMMA NewSubFramed ==
  ASSUME NEW s \in Conv, NEW sub \in Sub, NEW r, r = NewSub(s, sub)
  PROVE  Framed(s, r) /\ r.inbox = s.inbox /\ r.entries = s.entries /\ r \in Conv
<1>1. s.subs \in Seq(Sub) /\ s.entries \in Seq(EntryType)
  BY DEF Conv
<1>2. Append(s.subs, sub) \in Seq(Sub) /\ Grows(s.entries, s.entries)
  BY <1>1, GrowsSelf
<1>3. /\ r \in Conv /\ r.entries = s.entries /\ r.inbox = s.inbox
      /\ r.gens = s.gens /\ r.run = s.run /\ r.slots = s.slots /\ r.comps = s.comps
      /\ r.partial = s.partial /\ r.lost = s.lost /\ r.failure = s.failure
  BY <1>2 DEF NewSub, Conv
<1> QED BY <1>2, <1>3 DEF Framed

\* A run started after the commit wrote this or that.
LEMMA FramedThenCreated ==
  ASSUME NEW s \in Conv, NEW f, Framed(s, f), NEW r, Created(f, r)
  PROVE  Created(s, r) /\ Len(f.gens) = Len(s.gens)
<1>1. f \in Conv /\ r \in Conv
  BY DEF Framed, Created
<1>2. s.entries \in Seq(EntryType) /\ f.entries \in Seq(EntryType) /\ r.entries \in Seq(EntryType)
  BY <1>1 DEF Conv
<1>3. Grows(s.entries, f.entries) /\ Grows(f.entries, r.entries)
  BY DEF Framed, Created
<1>4. Grows(s.entries, r.entries)
  BY <1>2, <1>3, GrowsTrans
<1> QED BY <1>4 DEF Framed, Created

LEMMA RunStartedKeeping ==
  ASSUME NEW s \in Conv, NEW inputs \in Seq(Nat), NEW keep \in BOOLEAN
  PROVE  /\ Created(s, StartRun(s, inputs, keep))
         /\ StartRun(s, inputs, keep).run.task = Len(s.gens) + 1
<1> DEFINE t == StartRun(s, inputs, keep)
<1>1. /\ Created(s, t) /\ t.run = [NoRun EXCEPT !.task = Len(s.gens) + 1, !.inputs = inputs]
      /\ t.slots = s.slots /\ t.partial = s.partial
  BY StartRunCreates
<1> HIDE DEF t
<1>2. t.run.task = Len(s.gens) + 1
  BY <1>1 DEF NoRun
<1> QED BY <1>1, <1>2 DEF t

LEMMA RunStarted ==
  ASSUME NEW s \in Conv, NEW inputs \in Seq(Nat), NEW r, r = StartRun(s, inputs, FALSE)
  PROVE  Created(s, r) /\ r.run.task = Len(s.gens) + 1
<1>1. FALSE \in BOOLEAN
  OBVIOUS
<1> QED BY <1>1, RunStartedKeeping, Zenon

\* What an admission does: it writes or queues, or it starts a run.
Opens(s, r) ==
  \/ Framed(s, r)
  \/ ~Busy(s) /\ Created(s, r) /\ r.run.task = Len(s.gens) + 1

LEMMA AdmitOpens ==
  ASSUME NEW s \in Conv, NEW d \in Draft, d.kind = "continue" => ~Busy(s), NEW r, r = Admit(s, d)
  PROVE  Opens(s, r)
<1> DEFINE id == Len(s.subs) + 1
           Sb(status) == [kind |-> d.kind, status |-> status, req |-> d.req]
           New(status) == NewSub(s, Sb(status))
           mode == IF d.kind # "input" THEN d.kind ELSE IF d.busy = "steer" THEN "steer" ELSE "followUp"
           item == [id |-> id, mode |-> mode, cut |-> d.cut]
           queued == [New("queued") EXCEPT !.inbox = Append(@, item)]
           continued == ApplyBoundary(New("placed"), "final")
           inputs == Append(continued.users, id)
           direct == d.kind = "display" /\ ~HasQueuedReset(s.inbox)
           waits == ~direct /\ d.kind # "continue" /\ (Busy(s) \/ s.inbox # <<>>)
<1>1. d.kind \in {"input", "continue"} \cup WriteKinds /\ d.cut \in Nat /\ d.req \in Nat
  BY DEF Draft
<1>2. id \in Nat
  <2>1. s.subs \in Seq(Sub)
    BY DEF Conv
  <2> QED BY <2>1
<1>3. \A status \in SubStatus :
        /\ Framed(s, New(status)) /\ New(status).inbox = s.inbox /\ New(status) \in Conv
  <2> TAKE status \in SubStatus
  <2>1. Sb(status) \in Sub
    BY <1>1 DEF Sub, SubStatus
  <2> HIDE DEF Sb
  <2> QED BY <2>1, NewSubFramed
<1>4. d.kind # "continue" => item \in Item
  <2>1. d.kind # "continue" => mode \in {"steer", "followUp"} \cup WriteKinds
    BY <1>1
  <2> HIDE DEF mode, id
  <2> QED BY <1>1, <1>2, <2>1 DEF Item
<1>5. ASSUME d.kind # "continue"
      PROVE  Framed(s, queued) /\ queued \in Conv
  <2> DEFINE n == New("queued")
  <2>1. Framed(s, n) /\ n.inbox = s.inbox /\ n \in Conv
    BY <1>3 DEF SubStatus
  <2>2. n.inbox \in Seq(Item)
    BY <2>1 DEF Conv
  <2> DEFINE box == Append(n.inbox, item)
  <2> HIDE DEF item
  <2>3. box \in Seq(Item)
    BY <1>4, <1>5, <2>2
  <2>4. queued = [n EXCEPT !.inbox = box]
    OBVIOUS
  <2> HIDE DEF n, box, queued, New
  <2>5. Framed(n, queued)
    BY <2>1, <2>3, <2>4, InboxFramed
  <2>6. queued \in Conv
    BY <2>5 DEF Framed
  <2> QED BY <2>1, <2>5, <2>6, FramedTrans
<1>6. r = CASE direct -> AppendEntry(New("done"), Entry("display", id, 0))
            [] d.kind = "continue" -> StartRun(continued.conv, inputs, FALSE)
            [] waits /\ Busy(s) -> queued
            [] waits /\ ~Busy(s) -> StartNext(ApplyBoundary(queued, "final"), FALSE)
            [] ~direct /\ ~waits /\ d.kind \in WriteKinds ->
                 IF IsStale(s, item) THEN New("unanswered")
                 ELSE AppendEntry(New("done"), Entry(d.kind, id, d.cut))
            [] ~waits /\ d.kind = "input" ->
                 StartRun(AppendEntry(New("placed"), Entry("user", id, 0)), <<id>>, FALSE)
  BY DEF Admit, NewSub
<1> HIDE DEF id, Sb, New, item, queued, continued, inputs
<1>7. ASSUME NEW kind, NEW m \in Nat, NEW status \in SubStatus,
             kind \in {"user"} \cup WriteKinds
      PROVE  /\ Framed(s, AppendEntry(New(status), Entry(kind, id, m)))
             /\ AppendEntry(New(status), Entry(kind, id, m)) \in Conv
  <2> DEFINE e == Entry(kind, id, m)
             n == New(status)
             a == AppendEntry(n, e)
  <2>1. e \in EntryType /\ e.kind = kind
    BY <1>2, <1>7, EntryTyped
  <2>2. e.kind \notin TaskKinds
    BY <1>7, <2>1 DEF SaidKinds, TaskKinds, WriteKinds
  <2>3. Framed(s, n) /\ n \in Conv
    BY <1>3, <1>7
  <2> HIDE DEF e, n
  <2>4. Framed(n, a)
    BY <2>1, <2>2, <2>3, AppendFramed
  <2>5. a \in Conv
    BY <2>4 DEF Framed
  <2>6. Framed(s, a)
    BY <2>3, <2>4, FramedTrans
  <2> QED BY <2>5, <2>6 DEF e, n
<1>8. CASE direct
  <2>1. r = AppendEntry(New("done"), Entry("display", id, 0))
    BY <1>6, <1>8
  <2> QED BY <1>7, <2>1 DEF Opens, SubStatus, WriteKinds
<1>9. CASE d.kind = "continue"
  <2> DEFINE n == New("placed")
  <2>1. r = StartRun(continued.conv, inputs, FALSE)
    <3>1. ~direct /\ ~waits
      BY <1>9
    <3> HIDE DEF direct, waits
    <3> QED BY <1>6, <1>9, <3>1 DEF WriteKinds
  <2>2. Framed(s, n) /\ n \in Conv
    BY <1>3 DEF SubStatus
  <2>3. Framed(n, continued.conv) /\ continued.users \in Seq(Nat)
    BY <2>2, BoundaryFramed DEF continued
  <2> HIDE DEF n
  <2>4. inputs \in Seq(Nat) /\ continued.conv \in Conv
    BY <1>2, <2>3 DEF Framed, inputs
  <2>5. Framed(s, continued.conv)
    BY <2>2, <2>3, FramedTrans
  <2>6. Created(continued.conv, r) /\ r.run.task = Len(continued.conv.gens) + 1
    BY <2>1, <2>4, RunStarted
  <2>8. Created(s, r) /\ Len(continued.conv.gens) = Len(s.gens)
    BY <2>5, <2>6, FramedThenCreated
  <2> QED BY <1>9, <2>6, <2>8 DEF Opens
<1>10. CASE waits /\ Busy(s)
  <2>1. r = queued
    BY <1>6, <1>10
  <2> QED BY <1>5, <1>10, <2>1 DEF Opens
<1>11. CASE waits /\ ~Busy(s)
  <2> DEFINE b == ApplyBoundary(queued, "final")
  <2>1. r = StartNext(b, FALSE)
    BY <1>6, <1>11
  <2>0. Framed(s, queued) /\ queued \in Conv
    BY <1>5, <1>11
  <2>2. Framed(queued, b.conv) /\ b.users \in Seq(Nat)
    BY <2>0, BoundaryFramed
  <2> HIDE DEF b
  <2>3. b.conv \in Conv
    BY <2>2 DEF Framed
  <2>4. Framed(s, b.conv)
    BY <2>0, <2>2, FramedTrans
  <2>5. r = b.conv \/ (Created(b.conv, r) /\ r.run.task = Len(b.conv.gens) + 1)
    BY <2>1, <2>2, <2>3, StartNextOpens
  <2>6. CASE r = b.conv
    BY <2>4, <2>6 DEF Opens
  <2>7. CASE Created(b.conv, r) /\ r.run.task = Len(b.conv.gens) + 1
    <3>1. Created(s, r) /\ Len(b.conv.gens) = Len(s.gens)
      BY <2>4, <2>7, FramedThenCreated
    <3> QED BY <1>11, <2>7, <3>1 DEF Opens
  <2> QED BY <2>5, <2>6, <2>7
<1>12. CASE ~direct /\ ~waits /\ d.kind \in WriteKinds
  <2>1. r = IF IsStale(s, item) THEN New("unanswered")
            ELSE AppendEntry(New("done"), Entry(d.kind, id, d.cut))
    BY <1>6, <1>12 DEF WriteKinds
  <2>2. Framed(s, New("unanswered"))
    BY <1>3 DEF SubStatus
  <2>3. Framed(s, AppendEntry(New("done"), Entry(d.kind, id, d.cut)))
    BY <1>1, <1>7, <1>12 DEF SubStatus
  <2> QED BY <2>1, <2>2, <2>3 DEF Opens
<1>13. CASE ~waits /\ d.kind = "input"
  <2> DEFINE a == AppendEntry(New("placed"), Entry("user", id, 0))
  <2>1. r = StartRun(a, <<id>>, FALSE)
    BY <1>6, <1>13 DEF WriteKinds
  <2>2. Framed(s, a) /\ a \in Conv
    BY <1>7 DEF SubStatus
  <2>3. ~Busy(s)
    BY <1>13
  <2> HIDE DEF a, waits, direct
  <2> DEFINE only == <<id>>
  <2>4. only \in Seq(Nat)
    BY <1>2
  <2> HIDE DEF only
  <2>5. r = StartRun(a, only, FALSE)
    BY <2>1 DEF only
  <2>6. Created(a, r) /\ r.run.task = Len(a.gens) + 1
    BY <2>2, <2>4, <2>5, RunStarted
  <2>7. Created(s, r) /\ Len(a.gens) = Len(s.gens)
    BY <2>2, <2>6, FramedThenCreated
  <2> QED BY <2>3, <2>6, <2>7 DEF Opens
<1> QED BY <1>1, <1>8, <1>9, <1>10, <1>11, <1>12, <1>13

\* A commit that writes or starts a run, and perhaps moves a compaction.
LEMMA OpensStep ==
  ASSUME ConvInv, settings' = settings, trouble' \in 0..MaxTrouble, jobs' = jobs,
         NEW s, Opens(conv, s), conv' \in Conv, conv'.gens = s.gens, conv'.run = s.run,
         conv'.entries = s.entries, conv'.slots = s.slots, conv'.partial = s.partial,
         Comps \subseteq Comps'
  PROVE  ConvInv'
<1>1. CASE Framed(conv, s)
  <2>1. /\ conv'.gens = conv.gens /\ conv'.run = conv.run /\ Grows(conv.entries, conv'.entries)
        /\ conv'.slots = conv.slots /\ conv'.partial = conv.partial
    BY <1>1 DEF Framed
  <2>2. SlotsKept(conv, conv')
    BY <2>1 DEF SlotsKept, Grows
  <2>3. CallsKnown' /\ SlotsOnce'
    BY <2>2, SlotsKeep
  <2> QED BY <2>1, <2>3, GrowsLonger, StillStep
<1>2. CASE ~Busy(conv) /\ Created(conv, s) /\ s.run.task = Len(conv.gens) + 1
  <2>1. /\ Grows(conv.entries, conv'.entries) /\ conv'.gens = Append(conv.gens, NewGeneration)
        /\ conv'.run.task = Len(conv.gens) + 1 /\ conv'.partial \in {conv.partial, "none"}
        /\ conv'.slots \in {conv.slots, <<>>}
    BY <1>2 DEF Created
  <2>2. SlotsKept(conv, conv')
    BY <2>1 DEF SlotsKept, Grows
  <2> QED BY <1>2, <2>1, <2>2, OpenStep
<1> QED BY <1>1, <1>2 DEF Opens

LEMMA SubmitPreserves == ASSUME ConvInv, NEW d \in Drafts, Submit(d) PROVE ConvInv'
<1>1. conv' = Admit(conv, d) /\ ~Rejected(conv, d) /\ UNCHANGED <<settings, jobs, trouble>>
  BY DEF Submit
<1>2. d \in Draft /\ (d.kind = "continue" => ~Busy(conv)) /\ conv \in Conv
  BY <1>1, DraftsAssumption, InvFacts DEF Rejected
<1>3. Opens(conv, conv')
  BY <1>1, <1>2, AdmitOpens
<1>4. conv' \in Conv /\ Comps \subseteq Comps'
  BY <1>3 DEF Opens, Framed, Created, Comps
<1> QED BY <1>1, <1>3, <1>4, Held, OpensStep

-----------------------------------------------------------------------------
(* Compactions                                                              *)

\* s with v for the record of compaction k.
WithCompAt(s, k, v) == [s EXCEPT !.comps = Put(s.comps, k, v)]

LEMMA WithCompAtTyped ==
  ASSUME NEW s \in Conv, NEW k, NEW v \in Comp, NEW r, r = WithCompAt(s, k, v)
  PROVE  /\ r \in Conv /\ r.comps = Put(s.comps, k, v) /\ DOMAIN r.comps = DOMAIN s.comps
         /\ r.gens = s.gens /\ r.entries = s.entries /\ r.run = s.run /\ r.slots = s.slots
         /\ r.partial = s.partial
<1>1. s.comps \in Seq(Comp)
  BY DEF Conv
<1>2. Put(s.comps, k, v) \in Seq(Comp) /\ DOMAIN Put(s.comps, k, v) = DOMAIN s.comps
  BY <1>1, SeqExcept DEF Put
<1> QED BY <1>2 DEF WithCompAt, Conv

Outs == {"", "summary", "nothing", "failed", "aborted"}

LEMMA EndCompTyped ==
  ASSUME NEW s \in Conv, NEW k \in DOMAIN s.comps, NEW out \in Outs, NEW r, r = EndComp(s, k, out)
  PROVE  /\ r \in Conv /\ DOMAIN r.comps = DOMAIN s.comps
         /\ r.gens = s.gens /\ r.entries = s.entries /\ r.run = s.run /\ r.slots = s.slots
         /\ r.partial = s.partial
<1> DEFINE t == s.comps[k]
           v == [t EXCEPT !.phase = "ended", !.status = "ready", !.restarts = 0,
                          !.marked = FALSE, !.attempt = 0, !.cut = 0, !.out = out]
<1>1. s.comps \in Seq(Comp)
  BY DEF Conv
<1>2. t \in Comp
  BY <1>1
<1>3. r = WithCompAt(s, k, v)
  BY DEF EndComp, WithCompAt, Put
<1> HIDE DEF t
<1>4. v \in Comp
  BY <1>2 DEF Comp, Statuses, Outs
<1> HIDE DEF v
<1> QED BY <1>3, <1>4, WithCompAtTyped

LEMMA CompStep ==
  ASSUME ConvInv, settings' = settings, trouble' \in 0..MaxTrouble, jobs' = jobs,
         NEW k \in Comps, NEW v \in Comp, conv' = WithCompAt(conv, k, v)
  PROVE  ConvInv'
<1>1. /\ conv' \in Conv /\ DOMAIN conv'.comps = DOMAIN conv.comps
      /\ conv'.gens = conv.gens /\ conv'.entries = conv.entries /\ conv'.run = conv.run
      /\ conv'.slots = conv.slots /\ conv'.partial = conv.partial
  BY InvFacts, WithCompAtTyped
<1>2. Opens(conv, conv) /\ Comps \subseteq Comps'
  BY <1>1, InvFacts, FramedSelf DEF Opens, Comps
<1> QED BY <1>1, <1>2, OpensStep

LEMMA EndCompStep ==
  ASSUME ConvInv, settings' = settings, trouble' \in 0..MaxTrouble, jobs' = jobs,
         NEW k \in Comps, NEW out \in Outs, NEW s, Opens(conv, s), conv' = EndComp(s, k, out)
  PROVE  ConvInv'
<1>1. s \in Conv /\ s.comps = conv.comps
  BY DEF Opens, Framed, Created
<1>2. k \in DOMAIN s.comps
  BY <1>1 DEF Comps
<1>3. /\ conv' \in Conv /\ DOMAIN conv'.comps = DOMAIN s.comps
      /\ conv'.gens = s.gens /\ conv'.entries = s.entries /\ conv'.run = s.run
      /\ conv'.slots = s.slots /\ conv'.partial = s.partial
  BY <1>1, <1>2, EndCompTyped
<1>4. Comps \subseteq Comps'
  BY <1>1, <1>3 DEF Comps
<1> QED BY <1>3, <1>4, OpensStep

LEMMA CompFacts ==
  ASSUME ConvInv, NEW k \in Comps
  PROVE  /\ conv.comps[k] \in Comp /\ conv.comps[k].attempt \in Nat /\ conv.comps[k].cut \in Nat
         /\ conv \in Conv /\ Opens(conv, conv)
<1>1. conv \in Conv
  BY InvFacts
<1>2. conv.comps \in Seq(Comp)
  BY <1>1 DEF Conv
<1>3. conv.comps[k] \in Comp
  BY <1>2 DEF Comps
<1>4. conv.comps[k].attempt \in Nat /\ conv.comps[k].cut \in Nat
  BY <1>3 DEF Comp
<1> QED BY <1>1, <1>3, <1>4, FramedSelf DEF Opens

\* The record CompMoved() leaves.
CompGoing(t, phase, status) == [t EXCEPT !.phase = phase, !.status = status, !.restarts = 0]

LEMMA CompMovedIs ==
  ASSUME ConvInv, NEW k \in Comps, NEW phase \in {"select", "summarize", "retry"}, NEW status \in Statuses
  PROVE  /\ CompMoved(k, phase, status) = WithCompAt(conv, k, CompGoing(conv.comps[k], phase, status))
         /\ CompGoing(conv.comps[k], phase, status) \in Comp
<1> DEFINE t == conv.comps[k]
<1>1. t \in Comp
  BY CompFacts
<1>2. CompMoved(k, phase, status) = WithCompAt(conv, k, CompGoing(t, phase, status))
  BY DEF CompMoved, WithCompAt, Put, CompGoing
<1> HIDE DEF t
<1>3. CompGoing(t, phase, status) \in Comp
  BY <1>1 DEF CompGoing, Comp
<1> QED BY <1>2, <1>3 DEF t

LEMMA CompAmended ==
  ASSUME NEW s \in Conv, NEW k \in DOMAIN s.comps, NEW v \in Comp, NEW w \in Comp
  PROVE  /\ WithCompAt(WithCompAt(s, k, v), k, w) = WithCompAt(s, k, w)
         /\ WithCompAt(s, k, v).comps[k] = v /\ WithCompAt(s, k, v) \in Conv
<1> DEFINE r == WithCompAt(s, k, v)
<1>1. r \in Conv /\ r.comps = Put(s.comps, k, v)
  BY WithCompAtTyped
<1>2. Put(Put(s.comps, k, v), k, w) = Put(s.comps, k, w) /\ Put(s.comps, k, v)[k] = v
  <2>1. s.comps \in Seq(Comp)
    BY DEF Conv
  <2> QED BY <2>1 DEF Put
<1>3. WithCompAt(r, k, w) = WithCompAt(s, k, w)
  <2>1. WithCompAt(r, k, w) = [r EXCEPT !.comps = Put(s.comps, k, w)]
    <3> HIDE DEF r
    <3> QED BY <1>1, <1>2 DEF WithCompAt
  <2> DEFINE q == Put(s.comps, k, v)
             x == Put(s.comps, k, w)
  <2>2. r = [s EXCEPT !.comps = q]
    BY DEF WithCompAt
  <2>3. WithCompAt(s, k, w) = [s EXCEPT !.comps = x]
    BY DEF WithCompAt
  <2>4. WithCompAt(r, k, w) = [r EXCEPT !.comps = x]
    BY <2>1
  <2> HIDE DEF q, x, r
  <2>5. [r EXCEPT !.comps = x] = [s EXCEPT !.comps = x]
    BY <2>2 DEF Conv
  <2> QED BY <2>3, <2>4, <2>5
<1> QED BY <1>1, <1>2, <1>3

LEMMA CompSelectPreserves == ASSUME ConvInv, NEW k \in Comps, CompSelect(k) PROVE ConvInv'
<1> DEFINE t == conv.comps[k]
           v == CompGoing(t, "summarize", "running")
           m == CompMoved(k, "summarize", "running")
<1>1. PICK cut \in Cuts(conv.entries) : conv' = [m EXCEPT !.comps[k].cut = cut]
  BY Zenon DEF CompSelect
<1>2. UNCHANGED <<settings, jobs, trouble>>
  BY DEF CompSelect
<1>3. m = WithCompAt(conv, k, v) /\ v \in Comp
  BY CompMovedIs DEF Statuses
<1>4. cut \in Nat
  BY InvFacts DEF Cuts, Active
<1> DEFINE w == [v EXCEPT !.cut = cut]
<1>5. w \in Comp
  <2> HIDE DEF v
  <2> QED BY <1>3, <1>4 DEF Comp
<1>6. conv \in Conv /\ k \in DOMAIN conv.comps
  BY InvFacts DEF Comps
<1> HIDE DEF v
<1>7. m.comps[k] = v /\ m \in Conv /\ WithCompAt(m, k, w) = WithCompAt(conv, k, w)
  <2> HIDE DEF m, w
  <2> QED BY <1>3, <1>5, <1>6, CompAmended
<1> HIDE DEF m
<1>8. conv' = WithCompAt(m, k, w)
  BY <1>1, <1>7 DEF WithCompAt, Put
<1> HIDE DEF w
<1>9. conv' = WithCompAt(conv, k, w)
  BY <1>7, <1>8
<1> QED BY <1>2, <1>5, <1>9, Held, CompStep

LEMMA CompRetryPreserves == ASSUME ConvInv, NEW k \in Comps, CompRetry(k) PROVE ConvInv'
<1> DEFINE t == conv.comps[k]
           v == CompGoing(t, "summarize", "running")
           m == CompMoved(k, "summarize", "running")
           n == t.attempt + 1
<1>1. conv' = [m EXCEPT !.comps[k].attempt = n]
  BY Zenon DEF CompRetry
<1>2. UNCHANGED <<settings, jobs, trouble>>
  BY DEF CompRetry
<1>3. m = WithCompAt(conv, k, v) /\ v \in Comp
  BY CompMovedIs DEF Statuses
<1>4. n \in Nat
  BY CompFacts
<1> HIDE DEF n
<1> DEFINE w == [v EXCEPT !.attempt = n]
<1>5. w \in Comp
  <2> HIDE DEF v
  <2> QED BY <1>3, <1>4 DEF Comp
<1>6. conv \in Conv /\ k \in DOMAIN conv.comps
  BY InvFacts DEF Comps
<1> HIDE DEF v
<1>7. m.comps[k] = v /\ m \in Conv /\ WithCompAt(m, k, w) = WithCompAt(conv, k, w)
  <2> HIDE DEF m, w
  <2> QED BY <1>3, <1>5, <1>6, CompAmended
<1> HIDE DEF m
<1>8. conv' = WithCompAt(m, k, w)
  BY <1>1, <1>7 DEF WithCompAt, Put
<1> HIDE DEF w
<1>9. conv' = WithCompAt(conv, k, w)
  BY <1>7, <1>8
<1> QED BY <1>2, <1>5, <1>9, Held, CompStep

LEMMA CompPlacePreserves == ASSUME ConvInv, NEW k \in Comps, CompPlace(k) PROVE ConvInv'
<1> DEFINE t == conv.comps[k]
           d == [kind |-> "summary", busy |-> "followUp", idle |-> "run", cut |-> t.cut, req |-> 0]
           e == Entry("summary", 0, t.cut)
           a == AppendEntry(conv, e)
           b == Admit(conv, d)
<1>1. /\ UNCHANGED <<settings, jobs, trouble>>
      /\ conv' = EndComp(a, k, "summary") \/ conv' = EndComp(b, k, "summary")
  BY DEF CompPlace
<1>2. t.cut \in Nat /\ conv \in Conv
  BY CompFacts
<1>3. Opens(conv, a)
  <2>1. e \in EntryType /\ e.kind \notin TaskKinds
    BY <1>2, EntryTyped DEF WriteKinds, SaidKinds, TaskKinds
  <2> HIDE DEF e
  <2> QED BY <1>2, <2>1, AppendFramed DEF Opens
<1>4. Opens(conv, b)
  <2>1. d \in Draft /\ d.kind # "continue"
    BY <1>2 DEF Draft, WriteKinds
  <2> HIDE DEF d
  <2> QED BY <1>2, <2>1, AdmitOpens
<1> HIDE DEF a, b
<1>5. CASE conv' = EndComp(a, k, "summary")
  BY <1>1, <1>3, <1>5, Held, EndCompStep DEF Outs
<1>6. CASE conv' = EndComp(b, k, "summary")
  BY <1>1, <1>4, <1>6, Held, EndCompStep DEF Outs
<1> QED BY <1>1, <1>5, <1>6

LEMMA CompactionPreserves ==
  ASSUME ConvInv, NEW k \in Comps, Compaction(k) \/ CompFaults(k)
  PROVE  ConvInv'
<1> DEFINE t == conv.comps[k]
<1>1. t \in Comp /\ Opens(conv, conv)
  BY CompFacts
<1>2. CASE CompReserve(k)
  <2> DEFINE v == [t EXCEPT !.status = "running"]
  <2>1. conv' = WithCompAt(conv, k, v) /\ UNCHANGED <<settings, jobs, trouble>>
    BY <1>2 DEF CompReserve, WithCompAt, Put
  <2> HIDE DEF t
  <2>2. v \in Comp
    BY <1>1 DEF Comp, Statuses
  <2> HIDE DEF v
  <2> QED BY <2>1, <2>2, Held, CompStep
<1>3. CASE /\ UNCHANGED <<settings, jobs, trouble>>
           /\ \E out \in Outs : conv' = EndComp(conv, k, out)
  BY <1>1, <1>3, Held, EndCompStep
<1>4. CASE CompNothing(k) \/ CompNoModel(k) \/ CompCutOff(k) \/ CompAborts(k)
  BY <1>3, <1>4 DEF CompNothing, CompNoModel, CompCutOff, CompAborts, Outs
<1>5. CASE \E permanent \in BOOLEAN : CompError(k, permanent)
  <2>1. /\ UNCHANGED <<settings, jobs, trouble>>
        /\ conv' = CompMoved(k, "retry", "sleeping") \/ conv' = EndComp(conv, k, "failed")
    BY <1>5 DEF CompError
  <2>2. CASE conv' = EndComp(conv, k, "failed")
    BY <1>3, <2>1, <2>2 DEF Outs
  <2>3. CASE conv' = CompMoved(k, "retry", "sleeping")
    <3> DEFINE v == CompGoing(t, "retry", "sleeping")
    <3>1. conv' = WithCompAt(conv, k, v) /\ v \in Comp
      BY <2>3, CompMovedIs DEF Statuses
    <3> HIDE DEF v
    <3> QED BY <2>1, <3>1, Held, CompStep
  <2> QED BY <2>1, <2>2, <2>3
<1>6. CASE CompFaults(k)
  <2>1. /\ settings' = settings /\ jobs' = jobs /\ trouble' \in 0..MaxTrouble
        /\ conv' = EndComp(conv, k, "failed")
    BY <1>6, MoreTroubleCounts DEF CompFaults
  <2> QED BY <1>1, <2>1, EndCompStep DEF Outs
<1>7. CASE CompSelect(k) \/ CompRetry(k) \/ CompPlace(k)
  BY <1>7, CompSelectPreserves, CompRetryPreserves, CompPlacePreserves
<1> QED BY <1>2, <1>4, <1>5, <1>6, <1>7 DEF Compaction

-----------------------------------------------------------------------------
(* Aborts and crashes: every task at once                                   *)

\* The call's task stops, and may start again.
SlotEased(v, w) ==
  /\ w \in Slot /\ w.ran = v.ran /\ w.safe = v.safe /\ w.st = v.st /\ w.fly \in {"none", v.fly}

\* From s to r tasks stop, and a partial may be lost.
Eased(s, r) ==
  /\ r \in Conv /\ r.run = s.run /\ Grows(s.entries, r.entries)
  /\ r.partial # "none" => s.partial # "none"
  /\ DOMAIN r.gens = DOMAIN s.gens /\ \A g \in DOMAIN s.gens : Weaker(s.gens[g], r.gens[g])
  /\ DOMAIN r.slots = DOMAIN s.slots /\ \A c \in DOMAIN s.slots : SlotEased(s.slots[c], r.slots[c])
  /\ DOMAIN r.comps = DOMAIN s.comps

LEMMA EasedStep ==
  ASSUME ConvInv, settings' = settings, trouble' \in 0..MaxTrouble, jobs' = jobs, Eased(conv, conv')
  PROVE  ConvInv'
<1>1. /\ conv' \in Conv /\ conv'.run = conv.run /\ Grows(conv.entries, conv'.entries)
      /\ conv'.partial # "none" => conv.partial # "none"
      /\ DOMAIN conv'.gens = DOMAIN conv.gens
      /\ \A g \in Gens : Weaker(conv.gens[g], conv'.gens[g])
      /\ DOMAIN conv'.slots = DOMAIN conv.slots
      /\ \A c \in DOMAIN conv.slots : SlotEased(conv.slots[c], conv'.slots[c])
      /\ Comps \subseteq Comps'
  BY DEF Eased, Gens, Comps
<1>2. conv \in Conv
  BY InvFacts
<1>3. /\ conv.gens \in Seq(Gen) /\ conv'.gens \in Seq(Gen)
      /\ conv.slots \in Seq(Slot) /\ conv'.slots \in Seq(Slot)
      /\ conv.entries \in Seq(EntryType) /\ conv'.entries \in Seq(EntryType)
  BY <1>1, <1>2 DEF Conv
<1>4. Len(conv'.gens) = Len(conv.gens)
  BY <1>1, <1>3
<1>5. SlotsOnce'
  <2>1. \A c \in DOMAIN conv.slots :
          /\ conv'.slots[c].ran = conv.slots[c].ran /\ conv'.slots[c].safe = conv.slots[c].safe
          /\ conv'.slots[c].st = conv.slots[c].st /\ conv'.slots[c].fly \in {"none", conv.slots[c].fly}
    BY <1>1 DEF SlotEased
  <2>2. SlotsOnce
    BY DEF ConvInv
  <2> SUFFICES ASSUME NEW d \in DOMAIN conv'.slots
               PROVE  /\ conv'.slots[d].ran > 1 => conv'.slots[d].safe
                      /\ conv'.slots[d].st = "call" \/ conv'.slots[d].fly = "intent" => conv'.slots[d].ran = 0
    BY DEF SlotsOnce, UnsafeRunsOnce
  <2>3. d \in DOMAIN conv.slots
    BY <1>1
  <2>4. /\ conv.slots[d].ran > 1 => conv.slots[d].safe
        /\ conv.slots[d].st = "call" \/ conv.slots[d].fly = "intent" => conv.slots[d].ran = 0
    BY <2>2, <2>3 DEF SlotsOnce, UnsafeRunsOnce
  <2> QED BY <2>1, <2>3, <2>4
<1>6. CallsKnown'
  <2>1. Kept(conv.entries, conv'.entries)
    BY <1>1, <1>3, GrowsLonger, LongerKept
  <2>2. SUFFICES ASSUME conv'.slots # <<>>
                 PROVE  \E i \in DOMAIN conv'.entries : conv'.entries[i].kind = "calls"
    BY DEF CallsKnown
  <2>3. conv.slots # <<>>
    BY <1>1, <1>3, <2>2
  <2>4. PICK i \in DOMAIN conv.entries : conv.entries[i].kind = "calls"
    BY <2>3 DEF ConvInv, CallsKnown
  <2> QED BY <2>1, <2>4 DEF Kept
<1>7. Bounded
  BY <1>1, <1>5, <1>6 DEF Bounded
<1> QED BY <1>1, <1>4, <1>7, GrowsLonger, WeakStep

LEMMA WeakerTrans ==
  ASSUME NEW t, NEW u, NEW v, Weaker(t, u), Weaker(u, v)
  PROVE  Weaker(t, v)
  BY DEF Weaker

LEMMA EasedTrans ==
  ASSUME NEW s \in Conv, NEW r, NEW q, Eased(s, r), Eased(r, q)
  PROVE  Eased(s, q)
<1>1. r \in Conv /\ q \in Conv
  BY DEF Eased
<1>2. s.entries \in Seq(EntryType) /\ r.entries \in Seq(EntryType) /\ q.entries \in Seq(EntryType)
  BY <1>1 DEF Conv
<1>3. Grows(s.entries, r.entries) /\ Grows(r.entries, q.entries)
  BY DEF Eased
<1>4. Grows(s.entries, q.entries)
  BY <1>2, <1>3, GrowsTrans
<1>5. \A g \in DOMAIN s.gens : Weaker(s.gens[g], q.gens[g])
  BY WeakerTrans DEF Eased
<1>6. \A c \in DOMAIN s.slots : SlotEased(s.slots[c], q.slots[c])
  BY DEF Eased, SlotEased
<1> QED BY <1>4, <1>5, <1>6 DEF Eased

LEMMA FramedEased == ASSUME NEW s \in Conv, NEW r, Framed(s, r) PROVE Eased(s, r)
<1>1. \A c \in DOMAIN s.slots : s.slots[c] \in Slot
  BY DEF Conv
<1>2. \A g \in DOMAIN s.gens : Weaker(s.gens[g], s.gens[g])
  <2>1. \A g \in DOMAIN s.gens : s.gens[g] \in Gen
    BY DEF Conv
  <2> QED BY <2>1, WeakerSelf
<1>3. \A c \in DOMAIN s.slots : SlotEased(s.slots[c], s.slots[c])
  BY <1>1 DEF SlotEased
<1> QED BY <1>2, <1>3 DEF Framed, Eased

\* Other records for the tasks of s.
Remade(s, gs, cs, ks, p) == [s EXCEPT !.gens = gs, !.slots = cs, !.comps = ks, !.partial = p]

LEMMA RemadeEased ==
  ASSUME NEW s \in Conv,
         NEW gs \in [DOMAIN s.gens -> Gen], \A g \in DOMAIN s.gens : Weaker(s.gens[g], gs[g]),
         NEW cs, DOMAIN cs = DOMAIN s.slots, \A c \in DOMAIN s.slots : SlotEased(s.slots[c], cs[c]),
         cs \in [DOMAIN s.slots -> Slot],
         NEW ks \in [DOMAIN s.comps -> Comp],
         NEW p \in {"none", "memory", "stored"}, p # "none" => s.partial # "none",
         NEW r, r = Remade(s, gs, cs, ks, p)
  PROVE  Eased(s, r)
<1>1. s.gens \in Seq(Gen) /\ s.slots \in Seq(Slot) /\ s.comps \in Seq(Comp) /\ s.entries \in Seq(EntryType)
  BY DEF Conv
<1>2. /\ DOMAIN s.gens = 1..Len(s.gens) /\ Len(s.gens) \in Nat
      /\ DOMAIN s.slots = 1..Len(s.slots) /\ Len(s.slots) \in Nat
      /\ DOMAIN s.comps = 1..Len(s.comps) /\ Len(s.comps) \in Nat
  BY <1>1
<1>3. gs \in Seq(Gen)
  BY <1>2, IsSeq
<1>4. cs \in Seq(Slot)
  BY <1>2, IsSeq
<1>5. ks \in Seq(Comp)
  BY <1>2, IsSeq
<1>6. Grows(s.entries, s.entries)
  BY <1>1, GrowsSelf
<1>7. /\ r \in Conv /\ r.gens = gs /\ r.slots = cs /\ r.comps = ks /\ r.partial = p /\ r.run = s.run
      /\ r.entries = s.entries
  BY <1>3, <1>4, <1>5 DEF Remade, Conv
<1>8. DOMAIN gs = DOMAIN s.gens /\ DOMAIN ks = DOMAIN s.comps
  OBVIOUS
<1> QED BY <1>6, <1>7, <1>8 DEF Eased


LEMMA TasksOf ==
  ASSUME NEW s \in Conv
  PROVE  /\ s.gens \in [DOMAIN s.gens -> Gen] /\ s.slots \in [DOMAIN s.slots -> Slot]
         /\ s.comps \in [DOMAIN s.comps -> Comp]
         /\ \A g \in DOMAIN s.gens : s.gens[g] \in Gen
         /\ \A c \in DOMAIN s.slots : s.slots[c] \in Slot /\ SlotEased(s.slots[c], s.slots[c])
         /\ \A k \in DOMAIN s.comps : s.comps[k] \in Comp
<1>1. s.gens \in Seq(Gen) /\ s.slots \in Seq(Slot) /\ s.comps \in Seq(Comp)
  BY DEF Conv
<1>2. /\ \A g \in DOMAIN s.gens : s.gens[g] \in Gen
      /\ \A c \in DOMAIN s.slots : s.slots[c] \in Slot
      /\ \A k \in DOMAIN s.comps : s.comps[k] \in Comp
  BY <1>1
<1>3. \A c \in DOMAIN s.slots : SlotEased(s.slots[c], s.slots[c])
  BY <1>2 DEF SlotEased
<1>4. /\ s.gens \in [DOMAIN s.gens -> Gen] /\ s.slots \in [DOMAIN s.slots -> Slot]
      /\ s.comps \in [DOMAIN s.comps -> Comp]
  BY <1>1
<1> QED BY <1>2, <1>3, <1>4

LEMMA MarkGensEased ==
  ASSUME NEW s \in Conv, NEW G, NEW r, r = MarkGens(s, G)
  PROVE  Eased(s, r)
<1> DEFINE gs == [g \in DOMAIN s.gens |->
                    IF g \in G /\ s.gens[g].phase # "ended" /\ ~s.gens[g].marked
                    THEN [s.gens[g] EXCEPT !.marked = TRUE, !.status = "ready", !.fly = "none",
                                           !.seen = <<>>, !.restarts = 0]
                    ELSE s.gens[g]]
<1>1. r = [s EXCEPT !.gens = gs]
  BY DEF MarkGens
<1>2. \A g \in DOMAIN s.gens : gs[g] \in Gen /\ Weaker(s.gens[g], gs[g])
  <2> TAKE g \in DOMAIN s.gens
  <2> DEFINE t == s.gens[g]
             u == [t EXCEPT !.marked = TRUE, !.status = "ready", !.fly = "none", !.seen = <<>>, !.restarts = 0]
  <2>1. gs[g] = u \/ gs[g] = t
    OBVIOUS
  <2>2. t \in Gen
    BY TasksOf
  <2> HIDE DEF t, gs
  <2>e. <<>> \in Seq(Nat)
    OBVIOUS
  <2>3. u \in Gen
    BY <2>2, <2>e DEF Gen, Statuses
  <2>4. Weaker(t, u)
    <3>1. /\ u.phase = t.phase /\ u.poll = t.poll /\ u.sent = t.sent /\ u.resent = t.resent
          /\ u.comp = t.comp /\ u.attempt = t.attempt /\ u.cause = t.cause /\ u.fly = "none"
          /\ u.marked /\ t.resent \in Nat
      BY <2>2 DEF Gen
    <3> HIDE DEF u
    <3> QED BY <3>1 DEF Weaker, Unsent
  <2> HIDE DEF u
  <2>5. Weaker(t, t)
    BY <2>2, WeakerSelf
  <2>6. gs[g] \in Gen /\ Weaker(t, gs[g])
    BY <2>1, <2>2, <2>3, <2>4, <2>5
  <2> QED BY <2>6 DEF t
<1>3. gs \in [DOMAIN s.gens -> Gen]
  BY <1>2
<1> HIDE DEF gs
<1>4. r = Remade(s, gs, s.slots, s.comps, s.partial)
  BY <1>1 DEF Remade, Conv
<1>5. s.partial \in {"none", "memory", "stored"}
  BY DEF Conv
<1> QED BY <1>2, <1>3, <1>4, <1>5, TasksOf, RemadeEased

LEMMA MarkSlotsEased ==
  ASSUME NEW s \in Conv, NEW C, NEW r, r = MarkSlots(s, C)
  PROVE  Eased(s, r)
<1> DEFINE cs == [c \in DOMAIN s.slots |->
                    IF c \in C /\ LiveSlot(s, c) /\ ~s.slots[c].marked
                    THEN [s.slots[c] EXCEPT !.marked = TRUE, !.status = "ready", !.fly = "none", !.restarts = 0]
                    ELSE s.slots[c]]
<1>1. r = [s EXCEPT !.slots = cs]
  BY DEF MarkSlots
<1>2. \A c \in DOMAIN s.slots : cs[c] \in Slot /\ SlotEased(s.slots[c], cs[c])
  <2> TAKE c \in DOMAIN s.slots
  <2> DEFINE t == s.slots[c]
             u == [t EXCEPT !.marked = TRUE, !.status = "ready", !.fly = "none", !.restarts = 0]
  <2>1. cs[c] = u \/ cs[c] = t
    OBVIOUS
  <2>2. t \in Slot /\ SlotEased(t, t)
    BY TasksOf
  <2> HIDE DEF t, cs
  <2>3. u \in Slot /\ SlotEased(t, u)
    <3>1. u \in Slot
      BY <2>2 DEF Slot, Statuses
    <3>2. u.ran = t.ran /\ u.safe = t.safe /\ u.st = t.st /\ u.fly = "none"
      BY <2>2 DEF Slot
    <3> HIDE DEF u
    <3> QED BY <3>1, <3>2 DEF SlotEased
  <2> HIDE DEF u
  <2>4. cs[c] \in Slot /\ SlotEased(t, cs[c])
    BY <2>1, <2>2, <2>3
  <2> QED BY <2>4 DEF t
<1>3. cs \in [DOMAIN s.slots -> Slot] /\ DOMAIN cs = DOMAIN s.slots
  BY <1>2
<1> HIDE DEF cs
<1>4. r = Remade(s, s.gens, cs, s.comps, s.partial)
  BY <1>1 DEF Remade, Conv
<1>5. s.partial \in {"none", "memory", "stored"} /\ \A g \in DOMAIN s.gens : Weaker(s.gens[g], s.gens[g])
  BY WeakerSelf, TasksOf DEF Conv
<1> QED BY <1>2, <1>3, <1>4, <1>5, TasksOf, RemadeEased

LEMMA MarkCompsEased ==
  ASSUME NEW s \in Conv, NEW K, NEW r, r = MarkComps(s, K)
  PROVE  Eased(s, r)
<1> DEFINE ks == [k \in DOMAIN s.comps |->
                    IF k \in K /\ LiveComp(s, k) /\ ~s.comps[k].marked
                    THEN [s.comps[k] EXCEPT !.marked = TRUE, !.status = "ready", !.restarts = 0]
                    ELSE s.comps[k]]
<1>1. r = [s EXCEPT !.comps = ks]
  BY DEF MarkComps
<1>2. \A k \in DOMAIN s.comps : ks[k] \in Comp
  <2> TAKE k \in DOMAIN s.comps
  <2> DEFINE t == s.comps[k]
             u == [t EXCEPT !.marked = TRUE, !.status = "ready", !.restarts = 0]
  <2>1. ks[k] = u \/ ks[k] = t
    OBVIOUS
  <2>2. t \in Comp
    BY TasksOf
  <2> HIDE DEF t, ks
  <2>3. u \in Comp
    BY <2>2 DEF Comp, Statuses
  <2> HIDE DEF u
  <2> QED BY <2>1, <2>2, <2>3
<1>3. ks \in [DOMAIN s.comps -> Comp]
  BY <1>2
<1> HIDE DEF ks
<1>4. r = Remade(s, s.gens, s.slots, ks, s.partial)
  BY <1>1 DEF Remade, Conv
<1>5. s.partial \in {"none", "memory", "stored"} /\ \A g \in DOMAIN s.gens : Weaker(s.gens[g], s.gens[g])
  BY WeakerSelf, TasksOf DEF Conv
<1> QED BY <1>3, <1>4, <1>5, TasksOf, RemadeEased

LEMMA AbortTaskPreserves == ASSUME ConvInv, NEW g \in Gens, AbortTask(g) PROVE ConvInv'
<1>1. /\ conv' = MarkGens(conv, {g}) /\ settings' = settings /\ jobs' = jobs
      /\ trouble' \in 0..MaxTrouble
  BY MoreTroubleCounts DEF AbortTask
<1>2. Eased(conv, conv')
  BY <1>1, InvFacts, MarkGensEased
<1> QED BY <1>1, <1>2, EasedStep

\* A mark on calls and compactions at once.
LEMMA MarkWorkEased ==
  ASSUME NEW s \in Conv, NEW C, NEW K, NEW r, r = MarkComps(MarkSlots(s, C), K)
  PROVE  Eased(s, r)
<1>1. PICK q : q = MarkSlots(s, C)
  OBVIOUS
<1>2. Eased(s, q)
  BY <1>1, MarkSlotsEased
<1>3. q \in Conv /\ r = MarkComps(q, K)
  BY <1>1, <1>2 DEF Eased
<1>4. Eased(q, r)
  BY <1>3, MarkCompsEased
<1> QED BY <1>2, <1>4, EasedTrans

LEMMA CascadePreserves == ASSUME ConvInv, NEW g \in Gens, Cascade(g) PROVE ConvInv'
<1>1. /\ \E C, K : conv' = MarkComps(MarkSlots(conv, C), K)
      /\ UNCHANGED <<settings, jobs, trouble>>
  BY DEF Cascade
<1>2. Eased(conv, conv')
  BY <1>1, InvFacts, MarkWorkEased
<1> QED BY <1>1, <1>2, Held, EasedStep

LEMMA AbortWorkPreserves == ASSUME ConvInv, NEW C, NEW K, AbortWork(C, K) PROVE ConvInv'
<1>1. /\ conv' = MarkComps(MarkSlots(conv, C), K) /\ settings' = settings /\ jobs' = jobs
      /\ trouble' \in 0..MaxTrouble
  BY MoreTroubleCounts DEF AbortWork
<1>2. Eased(conv, conv')
  BY <1>1, InvFacts, MarkWorkEased
<1> QED BY <1>1, <1>2, EasedStep

LEMMA AbortConversationPreserves == ASSUME ConvInv, AbortConversation PROVE ConvInv'
<1> DEFINE foreground == {k \in Comps : ~conv.comps[k].background}
           a == MarkGens(conv, Gens)
           b == MarkComps(a, foreground)
           calls == DOMAIN conv.slots
           c == MarkSlots(b, calls)
<1>1. /\ conv' = WithdrawQueuedInputs(c) /\ settings' = settings /\ jobs' = jobs
      /\ trouble' \in 0..MaxTrouble
  BY MoreTroubleCounts DEF AbortConversation
<1>2. conv \in Conv
  BY InvFacts
<1>3. Eased(conv, a) /\ a \in Conv
  <2>1. Eased(conv, a)
    BY <1>2, MarkGensEased
  <2> QED BY <2>1 DEF Eased
<1> HIDE DEF a, foreground, calls
<1>4. Eased(a, b) /\ b \in Conv
  <2>1. Eased(a, b)
    BY <1>3, MarkCompsEased
  <2> QED BY <2>1 DEF Eased
<1> HIDE DEF b
<1>5. Eased(b, c) /\ c \in Conv
  <2>1. Eased(b, c)
    BY <1>4, MarkSlotsEased
  <2> QED BY <2>1 DEF Eased
<1> HIDE DEF c
<1>6. Eased(c, conv')
  <2>1. Framed(c, conv')
    BY <1>1, <1>5, WithdrawFramed DEF WithdrawQueuedInputs
  <2> QED BY <1>5, <2>1, FramedEased
<1>7. Eased(conv, b)
  BY <1>2, <1>3, <1>4, EasedTrans
<1>8. Eased(conv, c)
  BY <1>2, <1>5, <1>7, EasedTrans
<1>9. Eased(conv, conv')
  BY <1>2, <1>6, <1>8, EasedTrans
<1> QED BY <1>1, <1>9, EasedStep

LEMMA ReopensEased ==
  ASSUME ConvInv, NEW n \in {0, 1}, NEW p \in {"none", "memory", "stored"},
         p # "none" => conv.partial # "none", Reopens(n, p)
  PROVE  Eased(conv, conv')
<1> DEFINE unpaid(g) == IF n = 0 /\ conv.gens[g].fly = "streaming" THEN 1 ELSE 0
           gs == [g \in Gens |-> [Stopped(conv.gens[g], n) EXCEPT
                    !.fly = "none", !.seen = <<>>, !.resent = conv.gens[g].resent + unpaid(g)]]
           cs == [c \in DOMAIN conv.slots |-> [Stopped(conv.slots[c], n) EXCEPT !.fly = "none"]]
           ks == [k \in Comps |-> Stopped(conv.comps[k], n)]
<1>1. conv' = [conv EXCEPT !.gens = gs, !.slots = cs, !.comps = ks, !.partial = p]
  BY Zenon DEF Reopens
<1>2. conv \in Conv /\ n \in Nat
  BY InvFacts
<1>4. \A g \in DOMAIN conv.gens : gs[g] \in Gen /\ Weaker(conv.gens[g], gs[g])
  <2> TAKE g \in DOMAIN conv.gens
  <2> DEFINE t == conv.gens[g]
             m == t.restarts + n
             k == t.resent + unpaid(g)
             u == [t EXCEPT !.fly = "none", !.seen = <<>>, !.resent = k]
             v == [t EXCEPT !.status = "ready", !.restarts = m, !.fly = "none", !.seen = <<>>, !.resent = k]
  <2>1. t \in Gen /\ TaskSound(t, settings.retries)
    BY InvFacts DEF Gens
  <2>2. /\ m \in Nat /\ t.restarts \in Nat /\ (n = 1 => m # 0) /\ (n = 0 => m = t.restarts)
        /\ k \in Nat /\ t.resent \in Nat /\ t.resent <= k
        /\ n = 0 /\ t.fly = "streaming" => t.resent < k
    <3>1. t.restarts \in Nat /\ t.resent \in Nat
      BY <2>1 DEF Gen
    <3>2. k = t.resent + (IF n = 0 /\ t.fly = "streaming" THEN 1 ELSE 0)
      OBVIOUS
    <3> HIDE DEF t, k, unpaid
    <3> QED BY <1>2, <3>1, <3>2
  <2>3. gs[g] = [Stopped(t, n) EXCEPT !.fly = "none", !.seen = <<>>, !.resent = k]
    BY DEF Gens
  <2>4. /\ t.fly # "none" => t.status = "running"
        /\ t.fly \in {"none", "streaming"} \/ t.phase = "prepare"
    BY <2>1 DEF TaskSound, Gen
  <2>e. <<>> \in Seq(Nat)
    OBVIOUS
  <2> HIDE DEF gs, t, m, k, unpaid
  <2>5. CASE t.status = "running"
    <3>1. gs[g] = v
      BY <2>3, <2>5 DEF Stopped, m
    <3>2. /\ v \in Gen /\ v.phase = t.phase /\ v.poll = t.poll /\ v.sent = t.sent
      /\ v.resent = k /\ v.comp = t.comp
          /\ v.attempt = t.attempt /\ v.cause = t.cause /\ v.fly = "none" /\ v.restarts = m
          /\ v.marked = t.marked
      BY <2>1, <2>2, <2>e DEF Gen, Statuses
    <3> HIDE DEF v
    <3>3. Unsent(v) => Unsent(t) \/ t.resent < v.resent
      BY <2>2, <2>4, <3>2 DEF Unsent
    <3>4. Weaker(t, v)
      BY <2>2, <3>2, <3>3 DEF Weaker
    <3> QED BY <3>1, <3>2, <3>4 DEF t
  <2>6. CASE t.status # "running"
    <3>1. gs[g] = u
      BY <2>3, <2>6 DEF Stopped
    <3>2. /\ u \in Gen /\ u.phase = t.phase /\ u.poll = t.poll /\ u.sent = t.sent
      /\ u.resent = k /\ u.comp = t.comp
          /\ u.attempt = t.attempt /\ u.cause = t.cause /\ u.fly = "none" /\ u.restarts = t.restarts
          /\ u.marked = t.marked
      BY <2>1, <2>2, <2>e DEF Gen
    <3> HIDE DEF u
    <3>3. Weaker(t, u)
      BY <2>2, <2>4, <2>6, <3>2 DEF Weaker, Unsent
    <3> QED BY <3>1, <3>2, <3>3 DEF t
  <2> QED BY <2>5, <2>6
<1>5. \A c \in DOMAIN conv.slots : cs[c] \in Slot /\ SlotEased(conv.slots[c], cs[c])
  <2> TAKE c \in DOMAIN conv.slots
  <2> DEFINE t == conv.slots[c]
             m == t.restarts + n
             u == [t EXCEPT !.fly = "none"]
             v == [t EXCEPT !.status = "ready", !.restarts = m, !.fly = "none"]
  <2>1. t \in Slot
    BY <1>2, TasksOf
  <2>2. m \in Nat
    <3>1. t.restarts \in Nat
      BY <2>1 DEF Slot
    <3> HIDE DEF t
    <3> QED BY <1>2, <3>1
  <2>3. cs[c] = [Stopped(t, n) EXCEPT !.fly = "none"]
    OBVIOUS
  <2> HIDE DEF cs, t
  <2>4. cs[c] = u \/ cs[c] = v
    BY <2>3 DEF Stopped
  <2> HIDE DEF m
  <2>5. u \in Slot /\ u.ran = t.ran /\ u.safe = t.safe /\ u.st = t.st /\ u.fly = "none"
    BY <2>1 DEF Slot
  <2>6. v \in Slot /\ v.ran = t.ran /\ v.safe = t.safe /\ v.st = t.st /\ v.fly = "none"
    BY <2>1, <2>2 DEF Slot, Statuses
  <2> HIDE DEF u, v
  <2>7. cs[c] \in Slot /\ SlotEased(t, cs[c])
    BY <2>4, <2>5, <2>6 DEF SlotEased
  <2> QED BY <2>7 DEF t
<1>6. \A k \in DOMAIN conv.comps : ks[k] \in Comp
  <2> TAKE k \in DOMAIN conv.comps
  <2> DEFINE t == conv.comps[k]
             m == t.restarts + n
             v == [t EXCEPT !.status = "ready", !.restarts = m]
  <2>1. t \in Comp
    BY <1>2, TasksOf
  <2>2. m \in Nat
    <3>1. t.restarts \in Nat
      BY <2>1 DEF Comp
    <3> HIDE DEF t
    <3> QED BY <1>2, <3>1
  <2>3. ks[k] = Stopped(t, n)
    BY DEF Comps
  <2> HIDE DEF ks, t
  <2>4. ks[k] = t \/ ks[k] = v
    BY <2>3 DEF Stopped
  <2> HIDE DEF m
  <2>5. v \in Comp
    BY <2>1, <2>2 DEF Comp, Statuses
  <2> HIDE DEF v
  <2> QED BY <2>1, <2>4, <2>5
<1>7. gs \in [DOMAIN conv.gens -> Gen]
  BY <1>4 DEF Gens
<1>8. cs \in [DOMAIN conv.slots -> Slot] /\ DOMAIN cs = DOMAIN conv.slots
  BY <1>5
<1>9. ks \in [DOMAIN conv.comps -> Comp]
  BY <1>6 DEF Comps
<1> HIDE DEF gs, cs, ks
<1>10. conv' = Remade(conv, gs, cs, ks, p)
  BY <1>1, <1>2 DEF Remade, Conv
<1> QED BY <1>2, <1>4, <1>5, <1>7, <1>8, <1>9, <1>10, RemadeEased

LEMMA ReopenedAs ==
  ASSUME ConvInv, Crash \/ Close
  PROVE  \E n \in {0, 1}, p \in {"none", "memory", "stored"} :
           (p # "none" => conv.partial # "none") /\ Reopens(n, p)
<1>1. conv.partial \in {"none", "memory", "stored"}
  BY InvFacts DEF Conv
<1>2. /\ Crash => Reopens(1, IF conv.partial = "memory" THEN "none" ELSE conv.partial)
      /\ Close => Reopens(0, IF conv.partial = "memory" THEN "stored" ELSE conv.partial)
  BY Zenon DEF Crash, Close
<1> QED BY <1>1, <1>2

LEMMA ReopenedPreserves == ASSUME ConvInv, Crash \/ Close PROVE ConvInv'
<1>1. settings' = settings /\ jobs' = jobs /\ trouble' \in 0..MaxTrouble
  BY MoreTroubleCounts DEF Crash, Close
<1>2. PICK n \in {0, 1}, p \in {"none", "memory", "stored"} :
        (p # "none" => conv.partial # "none") /\ Reopens(n, p)
  BY ReopenedAs
<1>3. Eased(conv, conv')
  BY <1>2, ReopensEased
<1> QED BY <1>1, <1>3, EasedStep

-----------------------------------------------------------------------------
(* The theorems                                                             *)

LEMMA InitInv == Init => ConvInv
<1> SUFFICES ASSUME Init PROVE ConvInv
  OBVIOUS
<1> DEFINE s == [subs |-> <<>>, inbox |-> <<>>, entries |-> <<>>, run |-> NoRun, gens |-> <<>>,
                 slots |-> <<>>, comps |-> <<>>, partial |-> "none", failure |-> <<>>, lost |-> {}]
<1>1. conv = s /\ jobs = {} /\ trouble = 0 /\ settings \in SettingsSet
  BY DEF Init
<1>2. /\ <<>> \in Seq(Sub) /\ <<>> \in Seq(Item) /\ <<>> \in Seq(EntryType) /\ <<>> \in Seq(Gen)
      /\ <<>> \in Seq(Slot) /\ <<>> \in Seq(Comp) /\ <<>> \in Seq(Nat)
  OBVIOUS
<1>3. s \in Conv
  BY <1>2, NoRunTyped DEF Conv
<1>4. /\ conv \in Conv /\ conv.gens = <<>> /\ conv.slots = <<>> /\ conv.entries = <<>>
      /\ conv.run = NoRun /\ conv.partial = "none"
  BY <1>1, <1>3
<1>5. Gens = {} /\ DOMAIN conv.slots = {} /\ DOMAIN conv.entries = {}
  BY <1>4 DEF Gens
<1>6. TypeOK
  <2>1. conv.run.task = 0
    BY <1>4 DEF NoRun
  <2>2. trouble \in 0..MaxTrouble
    BY <1>1, BoundsAssumption
  <2> QED BY <1>1, <1>4, <1>5, <2>1, <2>2 DEF TypeOK
<1>7. CallsKnown /\ RunOwned /\ SlotsOnce /\ JobTracked /\ Flying /\ Charged /\ SaidOnce
  BY <1>1, <1>4, <1>5
     DEF CallsKnown, RunOwned, Busy, SlotsOnce, UnsafeRunsOnce, JobTracked, Flying, Charged, SaidOnce
<1> QED BY <1>6, <1>7 DEF ConvInv

LEMMA GenerationPreserves ==
  ASSUME ConvInv, NEW g \in Gens,
         \/ Generation(g) \/ Reply(g) \/ Deferred(g) \/ ShowPartial(g) \/ NoModel(g)
         \/ AbortTask(g) \/ Faults(g)
  PROVE  ConvInv'
<1>1. CASE \/ PrepareFails(g) \/ NoModel(g) \/ Drain(g) \/ EndAnsweredCutOff(g) \/ EndCutOff(g)
           \/ Aborts(g) \/ Faults(g) \/ SchedulerEnds(g)
  BY <1>1, EndsPreserve
<1>2. CASE Reserve(g) \/ PrepareReads(g) \/ PrepareBlocks(g) \/ PrepareCommits(g) \/ Request(g)
  BY <1>2, ReservePreserves, PrepareReadsPreserves, PrepareBlocksPreserves,
     PrepareCommitsPreserves, RequestPreserves
<1>3. CASE \/ Interrupted(g) \/ Retry(g) \/ NextCall(g) \/ FinishToolRound(g) \/ Finish(g)
           \/ AfterRunTaskEnds(g) \/ Cascade(g)
  BY <1>3, InterruptedPreserves, RetryPreserves, NextCallPreserves, FinishToolRoundPreserves,
     FinishPreserves, AfterRunTaskEndsPreserves, CascadePreserves
<1>4. CASE Reply(g)
  <2>1. CASE \E n \in 1..MaxCalls : StartToolRound(g, n)
    BY <2>1, StartToolRoundPreserves
  <2>2. CASE \E continuation \in BOOLEAN : Answer(g, continuation)
    BY <2>2, AnswerPreserves
  <2>3. CASE \E permanent \in BOOLEAN : ModelError(g, permanent)
    BY <2>3, ModelErrorPreserves
  <2>4. CASE Overflow(g)
    BY <2>4, OverflowPreserves
  <2> QED BY <1>4, <2>1, <2>2, <2>3, <2>4 DEF Reply
<1>5. CASE Deferred(g) \/ ShowPartial(g) \/ AbortTask(g)
  BY <1>5, DeferredPreserves, ShowPartialPreserves, AbortTaskPreserves
<1> QED BY <1>1, <1>2, <1>3, <1>4, <1>5 DEF Generation

LEMMA NextInv == ConvInv /\ [Next]_vars => ConvInv'
<1> SUFFICES ASSUME ConvInv, [Next]_vars PROVE ConvInv'
  OBVIOUS
<1>1. CASE UNCHANGED vars
  <2>1. conv' = conv /\ UNCHANGED <<settings, jobs, trouble>>
    BY <1>1 DEF vars
  <2>2. Framed(conv, conv')
    BY <2>1, InvFacts, FramedSelf
  <2> QED BY <2>1, <2>2, Held, FramedStep
<1>2. CASE Client
  BY <1>2, SubmitPreserves, AbortSubmissionPreserves, CompactPreserves DEF Client
<1>3. CASE \E g \in Gens : \/ Generation(g) \/ Reply(g) \/ Deferred(g) \/ ShowPartial(g) \/ NoModel(g)
                           \/ AbortTask(g) \/ Faults(g)
  BY <1>3, GenerationPreserves
<1>4. CASE \E c \in DOMAIN conv.slots : Tool(c) \/ ToolFaults(c)
  BY <1>4, ToolPreserves
<1>5. CASE \E k \in Comps : Compaction(k) \/ CompFaults(k)
  BY <1>5, CompactionPreserves
<1>6. CASE \/ StorePartial \/ AbortConversation \/ Crash \/ Close
           \/ \E c \in DOMAIN conv.slots : AbortWork({c}, {})
           \/ \E k \in Comps : AbortWork({}, {k})
  BY <1>6, StorePartialPreserves, AbortConversationPreserves, ReopenedPreserves, AbortWorkPreserves
<1> QED BY <1>1, <1>2, <1>3, <1>4, <1>5, <1>6 DEF Next

\* The inductive invariant of the conversation holds in every reachable state,
\* for every set of settings, drafts, replies and faults, and every bound:
\* types, the owner of the run, the slots' intents, what flies, what is charged,
\* what is said and which deferred responses are tracked.
THEOREM ConversationInvariant == Spec => []ConvInv
<1>1. Init => ConvInv
  BY InitInv
<1>2. ConvInv /\ [Next]_vars => ConvInv'
  BY NextInv
<1> QED BY <1>1, <1>2, PTL DEF Spec

\* The records and tasks of a conversation have their types, and the tasks that
\* the run, a waiting generation or the provider's jobs name exist.
THEOREM TypeCorrect == Spec => []TypeOK
<1>1. ConvInv => TypeOK
  BY DEF ConvInv
<1> QED BY <1>1, ConversationInvariant, PTL

\* A busy conversation has exactly one live generation, the owner of its run,
\* and an idle one has none, through every hand over, end, abort, fault and
\* crash (startRun, handOver, endRun, settleSchedulerOutcome).
THEOREM OneOwner == Spec => []RunOwned
<1>1. ConvInv => RunOwned
  BY DEF ConvInv
<1> QED BY <1>1, ConversationInvariant, PTL

\* A tool that may not be replayed is executed at most once, whatever crashes
\* between its intent and its result (ToolTask phases call and execute).
THEOREM UnsafeOnce == Spec => []UnsafeRunsOnce
<1>1. ConvInv => UnsafeRunsOnce
  BY DEF ConvInv, SlotsOnce
<1> QED BY <1>1, ConversationInvariant, PTL

\* A deferred response is polled again or cancelled, and never asked for anew,
\* but for a fault, a missing model or the restart limit (interrupted, retry,
\* cancelDeferred).
THEOREM JobsTracked == Spec => []JobTracked
<1>1. ConvInv => JobTracked
  BY DEF ConvInv
<1> QED BY <1>1, ConversationInvariant, PTL

\* A generation sends one request, one for each retry, one for a compaction and
\* again only what a close stopped, and a request leaves at most one assistant
\* entry, however often hosts die or close (interrupted, request, convertPartial).
THEOREM EachRequestOnce == Spec => []RequestsCounted
<1>1. ConvInv => RequestsCounted
  <2> SUFFICES ASSUME ConvInv PROVE RequestsCounted
    OBVIOUS
  <2>1. ASSUME NEW g \in Gens
        PROVE  conv.gens[g].sent <= settings.retries + 1 + (IF conv.gens[g].comp = 0 THEN 0 ELSE 1)
                                      + conv.gens[g].resent
    <3> DEFINE t == conv.gens[g]
    <3>1. t \in Gen /\ TaskSound(t, settings.retries)
      BY InvFacts
    <3>2. t.sent \in Nat /\ t.resent \in Nat /\ t.attempt \in Nat /\ settings.retries \in Nat
      BY <3>1, RetriesNat DEF Gen
    <3> HIDE DEF t
    <3>3. t.sent <= settings.retries + 1 + (IF t.comp = 0 THEN 0 ELSE 1) + t.resent
      BY <3>1, <3>2 DEF TaskSound
    <3> QED BY <3>3 DEF t
  <2>2. \A i, j \in DOMAIN conv.entries :
          /\ conv.entries[i].kind \in SaidKinds /\ conv.entries[j].kind \in SaidKinds
          /\ conv.entries[i].n = conv.entries[j].n /\ conv.entries[i].m = conv.entries[j].m
          => i = j
    BY DEF ConvInv, SaidOnce
  <2> QED BY <2>1, <2>2 DEF RequestsCounted
<1> QED BY <1>1, ConversationInvariant, PTL

=============================================================================
