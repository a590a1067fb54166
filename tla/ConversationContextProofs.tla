---------------------- MODULE ConversationContextProofs ----------------------
(***************************************************************************)
(* Theorems about the context of ConversationRuns: that the range of the   *)
(* transcript a model sees only moves forward, and that a prepared request *)
(* still has the context it was prepared from.                             *)
(***************************************************************************)
EXTENDS ConversationRunsProofs

-----------------------------------------------------------------------------
(* The elements of At()                                                     *)

\* r has the elements of seq at the indices of S up to n, f says where.
Picks(f, r, seq, S, n) ==
  /\ f \in [1..Len(r) -> S \cap (1..n)]
  /\ \A j, k \in 1..Len(r) : j < k => f[j] < f[k]
  /\ \A i \in S \cap (1..n) : \E k \in 1..Len(r) : f[k] = i
  /\ \A k \in 1..Len(r) : r[k] = seq[f[k]]

LEMMA PicksMore ==
  ASSUME NEW X, NEW seq \in Seq(X), NEW S, NEW n \in Nat, n + 1 <= Len(seq), n + 1 \in S,
         NEW r \in Seq(X), NEW f, Picks(f, r, seq, S, n)
  PROVE  \E g : Picks(g, Append(r, seq[n + 1]), seq, S, n + 1)
<1> DEFINE m == Len(r)
           t == Append(r, seq[n + 1])
           g == [k \in 1..(m + 1) |-> IF k <= m THEN f[k] ELSE n + 1]
<1>1. m \in Nat /\ Len(t) = m + 1 /\ t[m + 1] = seq[n + 1] /\ \A k \in 1..m : t[k] = r[k]
  <2>1. seq[n + 1] \in X
    OBVIOUS
  <2> QED BY <2>1
<1> HIDE DEF t
<1>2. \A k \in 1..m : f[k] \in S \cap (1..n)
  BY DEF Picks
<1>3. g \in [1..(m + 1) -> S \cap (1..(n + 1))]
  BY <1>1, <1>2
<1>4. \A j, k \in 1..(m + 1) : j < k => g[j] < g[k]
  <2> SUFFICES ASSUME NEW j \in 1..(m + 1), NEW k \in 1..(m + 1), j < k PROVE g[j] < g[k]
    OBVIOUS
  <2>1. j \in 1..m /\ g[j] = f[j] /\ f[j] \in 1..n
    BY <1>1, <1>2
  <2>2. CASE k <= m
    BY <1>1, <2>1, <2>2 DEF Picks
  <2>3. CASE k = m + 1
    BY <1>1, <2>1, <2>3
  <2> QED BY <1>1, <2>2, <2>3
<1>5. \A i \in S \cap (1..(n + 1)) : \E k \in 1..(m + 1) : g[k] = i
  <2> SUFFICES ASSUME NEW i \in S \cap (1..(n + 1)) PROVE \E k \in 1..(m + 1) : g[k] = i
    OBVIOUS
  <2>1. CASE i = n + 1
    <3>1. g[m + 1] = n + 1 /\ m + 1 \in 1..(m + 1)
      BY <1>1
    <3> QED BY <2>1, <3>1
  <2>2. CASE i \in 1..n
    <3>1. PICK k \in 1..m : f[k] = i
      BY <2>2 DEF Picks
    <3>2. k \in 1..(m + 1) /\ g[k] = i
      BY <1>1, <3>1
    <3> QED BY <3>2
  <2> QED BY <2>1, <2>2
<1>6. \A k \in 1..(m + 1) : t[k] = seq[g[k]]
  BY <1>1, <1>2 DEF Picks
<1> HIDE DEF g, m
<1>7. Picks(g, t, seq, S, n + 1)
  BY <1>1, <1>3, <1>4, <1>5, <1>6 DEF Picks
<1> QED BY <1>7 DEF t

\* At() keeps the order, and has each element at an index of S once.
LEMMA AtPicks ==
  ASSUME NEW X, NEW seq \in Seq(X), NEW S
  PROVE  At(seq, S) \in Seq(X) /\ \E f : Picks(f, At(seq, S), seq, S, Len(seq))
<1>1. Len(seq) \in Nat
  OBVIOUS
<1>2. PICK q : Walk(q, seq, S, Len(seq)) /\ At(seq, S) = q[Len(seq)]
  BY <1>1, AtWalk
<1> DEFINE T == {k \in Nat : k <= Len(seq) => q[k] \in Seq(X) /\ \E f : Picks(f, q[k], seq, S, k)}
<1>3. 0 \in T
  <2>1. q[0] = <<>>
    BY <1>1, <1>2, WalkAt, 0 \in 0..Len(seq)
  <2> DEFINE f == [k \in 1..0 |-> 0]
  <2>2. Picks(f, <<>>, seq, S, 0) /\ <<>> \in Seq(X)
    BY DEF Picks
  <2> QED BY <2>1, <2>2
<1>4. ASSUME NEW k \in Nat, k \in T PROVE k + 1 \in T
  <2> SUFFICES ASSUME k + 1 <= Len(seq)
               PROVE  q[k + 1] \in Seq(X) /\ \E f : Picks(f, q[k + 1], seq, S, k + 1)
    OBVIOUS
  <2>1. q[k] \in Seq(X) /\ \E f : Picks(f, q[k], seq, S, k)
    BY <1>1, <1>4
  <2>2. q[k + 1] = IF k + 1 \in S THEN Append(q[k], seq[k + 1]) ELSE q[k]
    BY <1>1, <1>2, WalkAt, k + 1 \in 0..Len(seq), k + 1 # 0, (k + 1) - 1 = k
  <2>3. PICK f : Picks(f, q[k], seq, S, k)
    BY <2>1
  <2>4. CASE k + 1 \in S
    <3>1. \E g : Picks(g, Append(q[k], seq[k + 1]), seq, S, k + 1)
      BY <1>1, <2>1, <2>3, <2>4, PicksMore
    <3>2. seq[k + 1] \in X
      BY <1>1
    <3> QED BY <2>1, <2>2, <2>4, <3>1, <3>2
  <2>5. CASE k + 1 \notin S
    <3>1. S \cap (1..(k + 1)) = S \cap (1..k)
      BY <2>5
    <3>2. Picks(f, q[k], seq, S, k + 1)
      BY <2>3, <3>1 DEF Picks
    <3> QED BY <2>1, <2>2, <2>5, <3>2
  <2> QED BY <2>4, <2>5
<1> HIDE DEF T
<1>5. Len(seq) \in T
  BY <1>1, <1>3, <1>4, Induct
<1> QED BY <1>1, <1>2, <1>5 DEF T

-----------------------------------------------------------------------------
(* Heads, and the range that is active                                      *)

LEMMA HeadTyped ==
  ASSUME NEW es \in Seq(EntryType), NEW i \in DOMAIN es
  PROVE  HeadOf(es, i) \in Nat
<1>1. es[i] \in EntryType /\ i \in Nat
  OBVIOUS
<1> QED BY <1>1 DEF HeadOf, EntryType

\* The latest head marker is the last entry that declares a head.
LEMMA MarkerIs ==
  ASSUME NEW es \in Seq(EntryType)
  PROVE  LET i == LatestHeadMarker(es) IN
         /\ i \in 0..Len(es) /\ (i # 0 => HeadOf(es, i) # 0)
         /\ \A j \in DOMAIN es : HeadOf(es, j) # 0 => j <= i
<1> DEFINE S == {0} \cup {i \in DOMAIN es : HeadOf(es, i) # 0}
<1>1. Len(es) \in Nat /\ DOMAIN es = 1..Len(es)
  OBVIOUS
<1>2. S \subseteq Nat /\ S # {} /\ \A x \in S : x <= Len(es)
  BY <1>1
<1>3. LatestHeadMarker(es) = Max(S)
  BY DEF LatestHeadMarker
<1> HIDE DEF S
<1>4. Max(S) \in S /\ \A x \in S : x <= Max(S)
  BY <1>1, <1>2, MaxIn
<1> QED BY <1>1, <1>3, <1>4 DEF S

\* ... and the only such number.
LEMMA MarkerUnique ==
  ASSUME NEW es \in Seq(EntryType), NEW i \in 0..Len(es), i # 0 => HeadOf(es, i) # 0,
         \A j \in DOMAIN es : HeadOf(es, j) # 0 => j <= i
  PROVE  LatestHeadMarker(es) = i
<1> DEFINE k == LatestHeadMarker(es)
<1>1. Len(es) \in Nat /\ DOMAIN es = 1..Len(es)
  OBVIOUS
<1>2. /\ k \in 0..Len(es) /\ (k # 0 => HeadOf(es, k) # 0)
      /\ \A j \in DOMAIN es : HeadOf(es, j) # 0 => j <= k
  BY MarkerIs
<1> HIDE DEF k
<1>3. k <= i
  BY <1>1, <1>2
<1>4. i <= k
  BY <1>1, <1>2
<1> QED BY <1>1, <1>2, <1>3, <1>4 DEF k

LEMMA ActiveFromTyped ==
  ASSUME NEW es \in Seq(EntryType)
  PROVE  ActiveFrom(es) \in Nat
<1> DEFINE i == LatestHeadMarker(es)
<1>1. i \in 0..Len(es) /\ Len(es) \in Nat /\ DOMAIN es = 1..Len(es)
  BY MarkerIs
<1>2. ActiveFrom(es) = IF i = 0 THEN 0 ELSE HeadOf(es, i)
  BY DEF ActiveFrom
<1> HIDE DEF i
<1>3. i # 0 => i \in DOMAIN es
  BY <1>1
<1> QED BY <1>2, <1>3, HeadTyped

\* fs starts with es.
Starts(es, fs) == Len(es) <= Len(fs) /\ \A i \in 1..Len(es) : fs[i] = es[i]

LEMMA HeadStays ==
  ASSUME NEW es \in Seq(EntryType), NEW fs \in Seq(EntryType), Starts(es, fs), NEW i \in DOMAIN es
  PROVE  i \in DOMAIN fs /\ HeadOf(fs, i) = HeadOf(es, i) /\ fs[i] = es[i]
<1>1. i \in DOMAIN fs /\ fs[i] = es[i]
  BY DEF Starts
<1> QED BY <1>1 DEF HeadOf

\* Entries that declare no head leave the range.
LEMMA RangeStays ==
  ASSUME NEW es \in Seq(EntryType), NEW fs \in Seq(EntryType), Starts(es, fs),
         \A i \in (Len(es) + 1)..Len(fs) : HeadOf(fs, i) = 0
  PROVE  LatestHeadMarker(fs) = LatestHeadMarker(es) /\ ActiveFrom(fs) = ActiveFrom(es)
<1> DEFINE k == LatestHeadMarker(es)
<1>1. Len(es) \in Nat /\ DOMAIN es = 1..Len(es) /\ Len(fs) \in Nat /\ DOMAIN fs = 1..Len(fs)
      /\ Len(es) <= Len(fs)
  BY DEF Starts
<1>2. /\ k \in 0..Len(es) /\ (k # 0 => HeadOf(es, k) # 0)
      /\ \A j \in DOMAIN es : HeadOf(es, j) # 0 => j <= k
  BY MarkerIs
<1>3. \A j \in DOMAIN es : HeadOf(fs, j) = HeadOf(es, j)
  BY HeadStays
<1>4. ASSUME NEW j \in DOMAIN fs, HeadOf(fs, j) # 0 PROVE j <= k
  <2>1. j \in DOMAIN es
    BY <1>1, <1>4
  <2> QED BY <1>2, <1>3, <1>4, <2>1
<1>5. LatestHeadMarker(fs) = k
  <2> HIDE DEF k
  <2>1. k \in 0..Len(fs) /\ (k # 0 => HeadOf(fs, k) # 0)
    BY <1>1, <1>2, <1>3
  <2> QED BY <1>4, <2>1, MarkerUnique
<1>6. ActiveFrom(fs) = ActiveFrom(es)
  <2>1. k # 0 => k \in DOMAIN es
    BY <1>1, <1>2
  <2>2. ActiveFrom(fs) = IF k = 0 THEN 0 ELSE HeadOf(fs, k)
    BY <1>5 DEF ActiveFrom
  <2>3. ActiveFrom(es) = IF k = 0 THEN 0 ELSE HeadOf(es, k)
    BY DEF ActiveFrom
  <2> QED BY <1>3, <2>1, <2>2, <2>3
<1> QED BY <1>5, <1>6

\* One entry at the end: it is the head it declares, or changes none.
LEMMA RangeAppend ==
  ASSUME NEW es \in Seq(EntryType), NEW e \in EntryType
  PROVE  LET fs == Append(es, e)
             head == HeadOf(fs, Len(es) + 1)
         IN  /\ fs \in Seq(EntryType) /\ Starts(es, fs) /\ Len(fs) = Len(es) + 1
             /\ fs[Len(es) + 1] = e
             /\ ActiveFrom(fs) = IF head = 0 THEN ActiveFrom(es) ELSE head
<1> DEFINE fs == Append(es, e)
           n == Len(es) + 1
           head == HeadOf(fs, n)
<1>1. /\ fs \in Seq(EntryType) /\ Starts(es, fs) /\ Len(fs) = n /\ fs[n] = e
      /\ Len(es) \in Nat /\ DOMAIN fs = 1..n
  BY DEF Starts
<1> HIDE DEF fs
<1>2. CASE head = 0
  <2>1. \A i \in (Len(es) + 1)..Len(fs) : HeadOf(fs, i) = 0
    BY <1>1, <1>2
  <2> QED BY <1>1, <1>2, <2>1, RangeStays DEF fs
<1>3. CASE head # 0
  <2>1. LatestHeadMarker(fs) = n
    BY <1>1, <1>3, MarkerUnique
  <2>2. ActiveFrom(fs) = head
    BY <1>1, <2>1 DEF ActiveFrom
  <2> QED BY <1>1, <1>3, <2>2 DEF fs
<1> QED BY <1>2, <1>3

-----------------------------------------------------------------------------
(* Commits move the range forward                                           *)

HeadKinds == {"reset", "handoff", "summary"}

LEMMA NoHead ==
  ASSUME NEW es, NEW i, es[i].kind \notin HeadKinds
  PROVE  HeadOf(es, i) = 0
  BY DEF HeadOf, HeadKinds

\* From s to r the transcript gets longer and the range does not grow back.
Forward(s, r) ==
  /\ r \in Conv /\ Starts(s.entries, r.entries)
  /\ HeadsKnown(s) => HeadsKnown(r) /\ ActiveFrom(s.entries) <= ActiveFrom(r.entries)

LEMMA ForwardTrans ==
  ASSUME NEW s \in Conv, NEW r, NEW t, Forward(s, r), Forward(r, t)
  PROVE  Forward(s, t)
<1>1. s.entries \in Seq(EntryType) /\ r.entries \in Seq(EntryType) /\ t.entries \in Seq(EntryType)
      /\ t \in Conv
  BY DEF Forward, Conv
<1>2. Len(s.entries) \in Nat /\ Len(r.entries) \in Nat /\ Len(t.entries) \in Nat
  BY <1>1
<1>3. Starts(s.entries, t.entries)
  BY <1>2 DEF Forward, Starts
<1>4. ASSUME HeadsKnown(s) PROVE HeadsKnown(t) /\ ActiveFrom(s.entries) <= ActiveFrom(t.entries)
  <2>1. /\ HeadsKnown(r) /\ ActiveFrom(s.entries) <= ActiveFrom(r.entries)
        /\ HeadsKnown(t) /\ ActiveFrom(r.entries) <= ActiveFrom(t.entries)
    BY <1>4 DEF Forward
  <2>2. ActiveFrom(s.entries) \in Nat /\ ActiveFrom(r.entries) \in Nat /\ ActiveFrom(t.entries) \in Nat
    BY <1>1, ActiveFromTyped
  <2> QED BY <2>1, <2>2
<1> QED BY <1>1, <1>3, <1>4 DEF Forward

\* The transcript stays, and the inbox has nothing new.
LEMMA ForwardFewer ==
  ASSUME NEW s \in Conv, NEW r \in Conv, r.entries = s.entries,
         \A k \in DOMAIN r.inbox : \E j \in DOMAIN s.inbox : r.inbox[k] = s.inbox[j]
  PROVE  Forward(s, r)
<1>1. s.entries \in Seq(EntryType)
  BY DEF Conv
<1>2. Starts(s.entries, r.entries)
  BY <1>1 DEF Starts
<1>3. ActiveFrom(s.entries) \in Nat
  BY <1>1, ActiveFromTyped
<1> QED BY <1>2, <1>3 DEF Forward, HeadsKnown

LEMMA ForwardSame ==
  ASSUME NEW s \in Conv, NEW r \in Conv, r.entries = s.entries, r.inbox = s.inbox
  PROVE  Forward(s, r)
<1>1. \A k \in DOMAIN r.inbox : \E j \in DOMAIN s.inbox : r.inbox[k] = s.inbox[j]
  OBVIOUS
<1> QED BY <1>1, ForwardFewer

\* More entries, none of which declares a head.
LEMMA ForwardLonger ==
  ASSUME NEW s \in Conv, NEW r \in Conv, r.inbox = s.inbox, Starts(s.entries, r.entries),
         \A i \in (Len(s.entries) + 1)..Len(r.entries) : r.entries[i].kind \notin HeadKinds
  PROVE  /\ Forward(s, r) /\ ActiveFrom(r.entries) = ActiveFrom(s.entries)
         /\ LatestHeadMarker(r.entries) = LatestHeadMarker(s.entries)
<1>1. s.entries \in Seq(EntryType) /\ r.entries \in Seq(EntryType) /\ s.inbox \in Seq(Item)
  BY DEF Conv
<1>2. \A i \in (Len(s.entries) + 1)..Len(r.entries) : HeadOf(r.entries, i) = 0
  BY NoHead
<1>3. /\ ActiveFrom(r.entries) = ActiveFrom(s.entries)
      /\ LatestHeadMarker(r.entries) = LatestHeadMarker(s.entries)
  BY <1>1, <1>2, RangeStays
<1>4. ActiveFrom(s.entries) \in Nat /\ Len(s.entries) \in Nat /\ Len(r.entries) \in Nat
  BY <1>1, ActiveFromTyped
<1>5. ASSUME NEW k \in DOMAIN r.inbox, HeadsKnown(s), r.inbox[k].mode = "summary"
      PROVE  r.inbox[k].cut <= Len(r.entries)
  <2>1. r.inbox[k] \in Item /\ r.inbox[k].cut <= Len(s.entries)
    BY <1>1, <1>5 DEF HeadsKnown
  <2>2. r.inbox[k].cut \in Nat
    BY <2>1 DEF Item
  <2> QED BY <1>4, <2>1, <2>2 DEF Starts
<1> QED BY <1>3, <1>4, <1>5 DEF Forward, HeadsKnown, Starts

\* One more entry, which declares a head no earlier than the range.
LEMMA ForwardAppend ==
  ASSUME NEW s \in Conv, NEW e \in EntryType, NEW r \in Conv,
         r.entries = Append(s.entries, e), r.inbox = s.inbox,
         HeadsKnown(s) /\ e.kind = "summary" => ActiveFrom(s.entries) <= e.m /\ e.m <= Len(s.entries)
  PROVE  Forward(s, r)
<1> DEFINE n == Len(s.entries) + 1
           head == HeadOf(r.entries, n)
<1>1. s.entries \in Seq(EntryType) /\ s.inbox \in Seq(Item)
  BY DEF Conv
<1>2. /\ r.entries \in Seq(EntryType) /\ Starts(s.entries, r.entries) /\ Len(r.entries) = n
      /\ r.entries[n] = e /\ ActiveFrom(r.entries) = IF head = 0 THEN ActiveFrom(s.entries) ELSE head
  BY <1>1, RangeAppend
<1>3. ActiveFrom(s.entries) \in Nat /\ Len(s.entries) \in Nat
  BY <1>1, ActiveFromTyped
<1>4. head = CASE e.kind \in {"reset", "handoff"} -> n [] e.kind = "summary" -> e.m [] OTHER -> 0
  BY <1>2 DEF HeadOf
<1> HIDE DEF head
<1>5. ASSUME HeadsKnown(s)
      PROVE  ActiveFrom(s.entries) <= ActiveFrom(r.entries) /\ ActiveFrom(r.entries) <= Len(r.entries)
  <2>1. e.m \in Nat /\ ActiveFrom(s.entries) <= Len(s.entries)
    BY <1>5 DEF EntryType, HeadsKnown
  <2>2. CASE e.kind \in {"reset", "handoff"}
    BY <1>2, <1>3, <1>4, <2>1, <2>2
  <2>3. CASE e.kind = "summary"
    BY <1>2, <1>3, <1>4, <1>5, <2>1, <2>3
  <2>4. CASE e.kind \notin HeadKinds
    BY <1>2, <1>3, <1>4, <2>1, <2>4 DEF HeadKinds
  <2> QED BY <2>2, <2>3, <2>4 DEF HeadKinds
<1>6. ASSUME NEW k \in DOMAIN r.inbox, HeadsKnown(s), r.inbox[k].mode = "summary"
      PROVE  r.inbox[k].cut <= Len(r.entries)
  <2>1. r.inbox[k] \in Item /\ r.inbox[k].cut <= Len(s.entries)
    BY <1>1, <1>6 DEF HeadsKnown
  <2>2. r.inbox[k].cut \in Nat
    BY <2>1 DEF Item
  <2> QED BY <1>2, <1>3, <2>1, <2>2
<1> QED BY <1>2, <1>5, <1>6 DEF Forward, HeadsKnown

LEMMA SettleForward ==
  ASSUME NEW s \in Conv, NEW ids, NEW status \in SubStatus
  PROVE  Forward(s, Settle(s, ids, status)) /\ Settle(s, ids, status).inbox = s.inbox
<1>1. /\ Settle(s, ids, status) \in Conv /\ Settle(s, ids, status).inbox = s.inbox
      /\ Settle(s, ids, status).entries = s.entries
  BY SettleFramed DEF Framed
<1> QED BY <1>1, ForwardSame

LEMMA AppendIs ==
  ASSUME NEW s \in Conv, NEW e \in EntryType, NEW r, r = AppendEntry(s, e)
  PROVE  /\ r \in Conv /\ r.entries = Append(s.entries, e) /\ r.inbox = s.inbox /\ r.subs = s.subs
         /\ r.gens = s.gens /\ r.run = s.run /\ r.slots = s.slots /\ r.comps = s.comps
         /\ r.partial = s.partial /\ r.lost = s.lost /\ r.failure = s.failure
<1> DEFINE es == Append(s.entries, e)
<1>1. es \in Seq(EntryType)
  BY DEF Conv
<1>2. r = [s EXCEPT !.entries = es]
  BY DEF AppendEntry
<1> HIDE DEF es
<1>3. /\ r \in Conv /\ r.entries = es /\ r.inbox = s.inbox /\ r.subs = s.subs
      /\ r.gens = s.gens /\ r.run = s.run /\ r.slots = s.slots /\ r.comps = s.comps
      /\ r.partial = s.partial /\ r.lost = s.lost /\ r.failure = s.failure
  BY <1>1, <1>2 DEF Conv
<1> QED BY <1>3 DEF es

\* A write that is stale is not placed: so the range does not grow back.
LEMMA PlaceWriteForward ==
  ASSUME NEW s \in Conv, NEW item \in WriteItem,
         HeadsKnown(s) /\ item.mode = "summary" => item.cut <= Len(s.entries)
  PROVE  Forward(s, PlaceWrite(s, item)) /\ PlaceWrite(s, item).inbox = s.inbox
<1>1. CASE IsStale(s, item)
  BY <1>1, SettleForward DEF PlaceWrite, SubStatus
<1>2. CASE ~IsStale(s, item)
  <2> DEFINE e == Entry(item.mode, item.id, item.cut)
             r == Settle(s, {item.id}, "done")
             t == AppendEntry(r, e)
  <2>1. item.mode \in WriteKinds /\ item.id \in Nat /\ item.cut \in Nat
    BY DEF WriteItem, Item
  <2>2. e \in EntryType /\ e.kind = item.mode /\ e.m = item.cut
    BY <2>1, EntryTyped DEF Entry
  <2>3. Forward(s, r) /\ r.inbox = s.inbox /\ r \in Conv /\ r.entries = s.entries
    BY SettleForward, SettleFramed DEF SubStatus, Forward
  <2>4. PlaceWrite(s, item) = t
    BY <1>2 DEF PlaceWrite
  <2> HIDE DEF e, r
  <2>5. t \in Conv /\ t.entries = Append(r.entries, e) /\ t.inbox = r.inbox
    BY <2>2, <2>3, AppendIs
  <2>6. s.entries \in Seq(EntryType)
    BY DEF Conv
  <2>7. ActiveFrom(s.entries) \in Nat
    BY <2>6, ActiveFromTyped
  <2>8. HeadsKnown(r) /\ e.kind = "summary" => ActiveFrom(r.entries) <= e.m /\ e.m <= Len(r.entries)
    BY <1>2, <2>1, <2>2, <2>3, <2>7 DEF IsStale, HeadsKnown
  <2> HIDE DEF t
  <2>9. Forward(r, t)
    BY <2>2, <2>3, <2>5, <2>8, ForwardAppend
  <2> QED BY <2>3, <2>4, <2>5, <2>9, ForwardTrans
<1> QED BY <1>1, <1>2

LEMMA PlaceWritesForward ==
  ASSUME NEW s \in Conv, NEW items \in Seq(WriteItem),
         \A k \in DOMAIN items : \E j \in DOMAIN s.inbox : items[k] = s.inbox[j]
  PROVE  Forward(s, PlaceWrites(s, items)) /\ PlaceWrites(s, items).inbox = s.inbox
<1>1. Len(items) \in Nat /\ DOMAIN items = 1..Len(items)
  OBVIOUS
<1>2. PICK q : Fold(q, s, items, Len(items)) /\ PlaceWrites(s, items) = q[Len(items)]
  BY <1>1, PlaceWritesFold
<1> DEFINE T == {k \in Nat : k <= Len(items) => Forward(s, q[k]) /\ q[k].inbox = s.inbox}
<1>3. 0 \in T
  <2>1. q[0] = s
    BY <1>1, <1>2, FoldAt, 0 \in 0..Len(items)
  <2>2. Forward(s, s)
    BY ForwardSame
  <2> QED BY <2>1, <2>2
<1>4. ASSUME NEW k \in Nat, k \in T PROVE k + 1 \in T
  <2> SUFFICES ASSUME k + 1 <= Len(items) PROVE Forward(s, q[k + 1]) /\ q[k + 1].inbox = s.inbox
    OBVIOUS
  <2> DEFINE item == items[k + 1]
  <2>1. Forward(s, q[k]) /\ q[k].inbox = s.inbox
    BY <1>1, <1>4
  <2>2. q[k + 1] = PlaceWrite(q[k], item)
    BY <1>1, <1>2, FoldAt, k + 1 \in 0..Len(items), k + 1 # 0, (k + 1) - 1 = k
  <2>3. item \in WriteItem /\ k + 1 \in DOMAIN items
    BY <1>1
  <2>4. PICK j \in DOMAIN s.inbox : item = s.inbox[j]
    BY <2>3
  <2>5. HeadsKnown(q[k]) /\ item.mode = "summary" => item.cut <= Len(q[k].entries)
    BY <2>1, <2>4 DEF HeadsKnown
  <2> HIDE DEF item
  <2>6. Forward(q[k], q[k + 1]) /\ q[k + 1].inbox = q[k].inbox
    BY <2>1, <2>2, <2>3, <2>5, PlaceWriteForward DEF Forward
  <2> QED BY <2>1, <2>6, ForwardTrans
<1> HIDE DEF T
<1>5. Len(items) \in T
  BY <1>1, <1>3, <1>4, Induct
<1> QED BY <1>1, <1>2, <1>5 DEF T

LEMMA PlaceInputsForward ==
  ASSUME NEW s \in Conv, NEW items \in Seq(Item)
  PROVE  Forward(s, PlaceInputs(s, items)) /\ PlaceInputs(s, items).inbox = s.inbox
<1> DEFINE r == Settle(s, {items[k].id : k \in DOMAIN items}, "placed")
           es == [k \in DOMAIN items |-> Entry("user", items[k].id, 0)]
           t == PlaceInputs(s, items)
<1>1. Forward(s, r) /\ r.inbox = s.inbox /\ r \in Conv /\ r.entries = s.entries
  BY SettleForward, SettleFramed DEF SubStatus, Forward
<1>2. t = [r EXCEPT !.entries = r.entries \o es]
  BY DEF PlaceInputs
<1>3. t \in Conv
  BY PlaceInputsFramed DEF Framed
<1>4. r.entries \in Seq(EntryType)
  BY <1>1 DEF Conv
<1>5. es \in Seq(EntryType) /\ Len(es) = Len(items) /\ Len(es) \in Nat
      /\ \A k \in 1..Len(es) : es[k].kind = "user"
  <2>1. DOMAIN items = 1..Len(items) /\ Len(items) \in Nat
    OBVIOUS
  <2>2. \A k \in DOMAIN items : Entry("user", items[k].id, 0) \in EntryType
                                /\ Entry("user", items[k].id, 0).kind = "user"
    <3> SUFFICES ASSUME NEW k \in DOMAIN items
                 PROVE  Entry("user", items[k].id, 0) \in EntryType /\ Entry("user", items[k].id, 0).kind = "user"
      OBVIOUS
    <3>1. items[k] \in Item
      OBVIOUS
    <3>2. items[k].id \in Nat
      BY <3>1 DEF Item
    <3> QED BY <3>2, EntryTyped
  <2>3. es \in [1..Len(items) -> EntryType]
    BY <2>1, <2>2
  <2>4. es \in Seq(EntryType) /\ Len(es) = Len(items)
    BY <2>1, <2>3, IsSeq
  <2> QED BY <2>1, <2>2, <2>4
<1> HIDE DEF r, es, t
<1>6. t.entries = r.entries \o es /\ t.inbox = r.inbox
  BY <1>1, <1>2 DEF Conv
<1>7. /\ Len(t.entries) = Len(r.entries) + Len(es) /\ Len(r.entries) \in Nat
      /\ \A i \in 1..Len(r.entries) : t.entries[i] = r.entries[i]
  BY SMTT(30), <1>4, <1>5, <1>6
<1>8. \A i \in (Len(r.entries) + 1)..Len(t.entries) : t.entries[i].kind \notin HeadKinds
  <2> SUFFICES ASSUME NEW i \in (Len(r.entries) + 1)..Len(t.entries)
               PROVE  t.entries[i].kind \notin HeadKinds
    OBVIOUS
  <2>1. i - Len(r.entries) \in 1..Len(es) /\ t.entries[i] = es[i - Len(r.entries)]
    BY <1>4, <1>5, <1>6, <1>7
  <2>2. t.entries[i].kind = "user"
    BY <1>5, <2>1
  <2> QED BY <2>2 DEF HeadKinds
<1>9. Starts(r.entries, t.entries)
  BY <1>5, <1>7 DEF Starts
<1>10. Forward(r, t)
  BY <1>1, <1>3, <1>6, <1>8, <1>9, ForwardLonger
<1> QED BY <1>1, <1>6, <1>10, ForwardTrans DEF t

\* At() has only elements of the sequence.
LEMMA AtElements ==
  ASSUME NEW X, NEW seq \in Seq(X), NEW S
  PROVE  \A k \in DOMAIN At(seq, S) : \E j \in DOMAIN seq : j \in S /\ At(seq, S)[k] = seq[j]
<1> DEFINE r == At(seq, S)
<1>1. r \in Seq(X) /\ \E f : Picks(f, r, seq, S, Len(seq))
  BY AtPicks
<1> HIDE DEF r
<1>2. PICK f : Picks(f, r, seq, S, Len(seq))
  BY <1>1
<1>3. DOMAIN r = 1..Len(r) /\ DOMAIN seq = 1..Len(seq)
  BY <1>1
<1>4. \A k \in DOMAIN r : f[k] \in DOMAIN seq /\ f[k] \in S /\ r[k] = seq[f[k]]
  BY <1>2, <1>3 DEF Picks
<1> QED BY <1>4 DEF r

LEMMA InboxForward ==
  ASSUME NEW s \in Conv, NEW S
  PROVE  Forward(s, [s EXCEPT !.inbox = At(s.inbox, S)])
<1> DEFINE items == At(s.inbox, S)
           r == [s EXCEPT !.inbox = items]
<1>1. s.inbox \in Seq(Item)
  BY DEF Conv
<1>2. items \in Seq(Item) /\ \A k \in DOMAIN items : \E j \in DOMAIN s.inbox : items[k] = s.inbox[j]
  BY <1>1, AtType, AtElements
<1> HIDE DEF items
<1>3. r \in Conv /\ r.entries = s.entries /\ r.inbox = items
  BY <1>2 DEF Conv
<1> HIDE DEF r
<1>4. Forward(s, r)
  BY <1>2, <1>3, ForwardFewer
<1> QED BY <1>4 DEF r, items

LEMMA BoundaryForward ==
  ASSUME NEW s \in Conv, NEW at
  PROVE  Forward(s, ApplyBoundary(s, at).conv)
<1> DEFINE items == s.inbox
           users == Picked(items, "steer", settings.steering) \cup
                    (IF at = "final" \/ HasQueuedReset(items)
                     THEN Picked(items, "followUp", settings.followUp) ELSE {})
           writes == {i \in DOMAIN items : items[i].mode \in WriteKinds}
           chosen == At(items, users)
           written == PlaceWrites(s, At(items, writes))
           placed == PlaceInputs(written, chosen)
           rest == DOMAIN items \ (writes \cup users)
<1>1. items \in Seq(Item)
  BY DEF Conv
<1>2. chosen \in Seq(Item) /\ At(items, writes) \in Seq(WriteItem)
  BY <1>1, AtType, AtWrites
<1>3. \A k \in DOMAIN At(items, writes) : \E j \in DOMAIN s.inbox : At(items, writes)[k] = s.inbox[j]
  <2> HIDE DEF writes, items
  <2>1. \A k \in DOMAIN At(items, writes) :
          \E j \in DOMAIN items : j \in writes /\ At(items, writes)[k] = items[j]
    BY <1>1, AtElements
  <2> QED BY <2>1 DEF items
<1>4. ApplyBoundary(s, at).conv = [placed EXCEPT !.inbox = At(items, rest)]
  BY DEF ApplyBoundary
<1>5. Forward(s, written) /\ written.inbox = s.inbox
  BY <1>2, <1>3, PlaceWritesForward
<1> HIDE DEF chosen, rest, writes, written
<1>6. Forward(written, placed) /\ placed.inbox = written.inbox
  BY <1>2, <1>5, PlaceInputsForward DEF Forward
<1> HIDE DEF placed
<1>7. Forward(placed, [placed EXCEPT !.inbox = At(items, rest)])
  BY <1>5, <1>6, InboxForward DEF Forward
<1>8. Forward(s, placed)
  BY <1>5, <1>6, ForwardTrans
<1>9. Forward(s, [placed EXCEPT !.inbox = At(items, rest)])
  BY <1>7, <1>8, ForwardTrans
<1> QED BY <1>4, <1>9

LEMMA WithdrawForward ==
  ASSUME NEW s \in Conv, NEW ids
  PROVE  Forward(s, Withdraw(s, ids)) /\ Withdraw(s, ids).entries = s.entries
<1> DEFINE r == Settle(s, ids, "unanswered")
           S == {k \in DOMAIN r.inbox : r.inbox[k].id \notin ids}
           t == [r EXCEPT !.inbox = At(r.inbox, S)]
<1>1. Forward(s, r) /\ r \in Conv /\ r.entries = s.entries
  BY SettleForward, SettleFramed DEF SubStatus, Forward
<1>2. Withdraw(s, ids) = t
  BY DEF Withdraw
<1> HIDE DEF r, S
<1>3. Forward(r, t) /\ t.entries = r.entries
  BY <1>1, InboxForward DEF Conv
<1> QED BY <1>1, <1>2, <1>3, ForwardTrans

LEMMA StartRunIs ==
  ASSUME NEW s \in Conv, NEW inputs \in Seq(Nat), NEW keep \in BOOLEAN
  PROVE  LET r == StartRun(s, inputs, keep) IN
         r \in Conv /\ r.entries = s.entries /\ r.inbox = s.inbox /\ r.subs = s.subs
<1> DEFINE r == StartRun(s, inputs, keep)
<1>1. r \in Conv
  BY StartRunCreates DEF Created
<1>2. r.entries = s.entries /\ r.inbox = s.inbox /\ r.subs = s.subs
  BY DEF StartRun, CreateGeneration, Conv
<1> QED BY <1>1, <1>2

LEMMA StartNextForward ==
  ASSUME NEW b, b.conv \in Conv, b.users \in Seq(Nat), NEW keep \in BOOLEAN
  PROVE  Forward(b.conv, StartNext(b, keep))
<1>1. CASE b.users = <<>>
  BY <1>1, ForwardSame DEF StartNext
<1>2. CASE b.users # <<>>
  <2> DEFINE r == StartRun(b.conv, b.users, keep)
  <2>1. StartNext(b, keep) = r
    BY <1>2 DEF StartNext
  <2>2. r \in Conv /\ r.entries = b.conv.entries /\ r.inbox = b.conv.inbox
    BY StartRunIs
  <2> QED BY <2>1, <2>2, ForwardSame
<1> QED BY <1>1, <1>2

LEMMA EndRunForward ==
  ASSUME NEW s \in Conv, NEW g, s.run.task = g, NEW status \in {"done", "unanswered"}
  PROVE  Forward(s, EndRun(s, g, status)) /\ EndRun(s, g, status) \in Conv
<1>1. /\ EndRun(s, g, status) \in Conv /\ EndRun(s, g, status).inbox = s.inbox
      /\ EndRun(s, g, status).entries = s.entries
  BY EndRunEnds DEF RunOver
<1> QED BY <1>1, ForwardSame

LEMMA BoundaryNextForward ==
  ASSUME NEW s \in Conv, NEW at, NEW keep \in BOOLEAN
  PROVE  Forward(s, StartNext(ApplyBoundary(s, at), keep))
<1> DEFINE b == ApplyBoundary(s, at)
<1>1. Forward(s, b.conv) /\ b.users \in Seq(Nat) /\ b.conv \in Conv
  BY BoundaryForward, BoundaryFramed DEF Framed
<1> HIDE DEF b
<1>2. Forward(b.conv, StartNext(b, keep))
  BY <1>1, StartNextForward
<1>3. Forward(s, StartNext(b, keep))
  BY <1>1, <1>2, ForwardTrans
<1> QED BY <1>3 DEF b

LEMMA EndFailedRunForward ==
  ASSUME NEW s \in Conv, NEW g, s.run.task = g, settings \in Setting
  PROVE  Forward(s, EndFailedRun(s, g))
<1> DEFINE e == EndRun(s, g, "unanswered")
<1>1. Forward(s, e) /\ e \in Conv
  BY EndRunForward
<1>2. settings.policy \in {"keep", "continue", "withdraw"}
  BY DEF Setting
<1>3. EndFailedRun(s, g) = CASE settings.policy = "keep" -> e
                             [] settings.policy = "withdraw" -> WithdrawQueuedInputs(e)
                             [] settings.policy = "continue" -> StartNext(ApplyBoundary(e, "final"), TRUE)
  BY DEF EndFailedRun
<1> HIDE DEF e
<1>4. Forward(e, WithdrawQueuedInputs(e)) /\ Forward(e, StartNext(ApplyBoundary(e, "final"), TRUE))
  BY <1>1, WithdrawForward, BoundaryNextForward DEF WithdrawQueuedInputs
<1>5. Forward(s, WithdrawQueuedInputs(e)) /\ Forward(s, StartNext(ApplyBoundary(e, "final"), TRUE))
  BY <1>1, <1>4, ForwardTrans
<1> QED BY <1>1, <1>2, <1>3, <1>5

\* The boundary, the end of the run, and the next one.
LEMMA OverForward ==
  ASSUME NEW s \in Conv, NEW g, s.run.task = g, NEW at, NEW status \in {"done", "unanswered"},
         NEW keep \in BOOLEAN
  PROVE  Forward(s, StartNext([ApplyBoundary(s, at) EXCEPT
                                 !.conv = EndRun(ApplyBoundary(s, at).conv, g, status)], keep))
<1> DEFINE f == ApplyBoundary(s, at).conv
           e == EndRun(f, g, status)
           b == [ApplyBoundary(s, at) EXCEPT !.conv = e]
<1>1. Forward(s, f) /\ Framed(s, f) /\ ApplyBoundary(s, at).users \in Seq(Nat)
  BY BoundaryForward, BoundaryFramed
<1>2. f \in Conv /\ f.run.task = g
  BY <1>1 DEF Framed
<1>3. b.conv = e /\ b.users \in Seq(Nat)
  BY <1>1, BoundaryRecord
<1> HIDE DEF f
<1>4. Forward(f, e) /\ e \in Conv
  BY <1>2, EndRunForward
<1> HIDE DEF e, b
<1>5. Forward(e, StartNext(b, keep))
  BY <1>3, <1>4, StartNextForward
<1>6. Forward(s, StartNext(b, keep))
  BY <1>1, <1>4, <1>5, ForwardTrans
<1> QED BY <1>6 DEF b, e, f

LEMMA EndForward ==
  ASSUME NEW s \in Conv, NEW g, NEW cause \in Causes
  PROVE  Forward(s, End(s, g, cause)) /\ End(s, g, cause).subs = s.subs
<1> DEFINE gens == [s.gens EXCEPT ![g] = Over(cause)]
           r == End(s, g, cause)
<1>1. gens \in Seq(Gen)
  <2>1. s.gens \in Seq(Gen)
    BY DEF Conv
  <2> QED BY <2>1, OverTyped, SeqExcept
<1>2. r = [s EXCEPT !.gens = gens]
  BY DEF End, Over
<1> HIDE DEF gens, r
<1>3. r \in Conv /\ r.entries = s.entries /\ r.inbox = s.inbox /\ r.subs = s.subs
  BY <1>1, <1>2 DEF Conv
<1> QED BY <1>3, ForwardSame DEF r

LEMMA HandOverIs ==
  ASSUME NEW s \in Conv, NEW g, s.run.task = g
  PROVE  LET r == HandOver(CreateGeneration(s), g) IN
         /\ r \in Conv /\ r.entries = s.entries /\ r.inbox = s.inbox /\ r.subs = s.subs
         /\ r.run.inputs = s.run.inputs /\ r.run.answered = s.run.answered
<1> DEFINE c == CreateGeneration(s)
           r == HandOver(c, g)
<1>1. /\ c \in Conv /\ c.entries = s.entries /\ c.inbox = s.inbox /\ c.subs = s.subs /\ c.run = s.run
  <2>1. c \in Conv
    BY CreateGenerationCreates DEF Created
  <2> QED BY <2>1 DEF CreateGeneration, Conv
<1> HIDE DEF c
<1>2. /\ r.entries = c.entries /\ r.inbox = c.inbox /\ r.subs = c.subs
      /\ r.run.inputs = c.run.inputs /\ r.run.answered = c.run.answered
  BY <1>1 DEF HandOver, Conv, Run
<1>3. r \in Conv
  BY HandOverCreates DEF Created, c
<1> QED BY <1>1, <1>2, <1>3 DEF c

\* What AfterTools() does when no reset was placed: the run with more inputs.
Joined(b, g) ==
  [b.conv EXCEPT !.slots = <<>>,
                 !.run.inputs = IF b.conv.run.task = g THEN @ \o b.users ELSE @]

LEMMA JoinedIs ==
  ASSUME NEW b, b.conv \in Conv, b.users \in Seq(Nat), NEW g, b.conv.run.task = g
  PROVE  LET r == Joined(b, g) IN
         /\ r \in Conv /\ r.entries = b.conv.entries /\ r.inbox = b.conv.inbox /\ r.subs = b.conv.subs
         /\ r.run.task = g /\ r.run.inputs = b.conv.run.inputs \o b.users
         /\ r.run.answered = b.conv.run.answered
<1> DEFINE f == b.conv
           inputs == f.run.inputs \o b.users
           run == [f.run EXCEPT !.inputs = inputs]
           r == Joined(b, g)
<1>1. f.run \in Run /\ f.run.inputs \in Seq(Nat)
  BY DEF Conv, Run
<1>2. run \in Run /\ run.task = g /\ run.inputs = inputs /\ run.answered = f.run.answered
  <2>1. inputs \in Seq(Nat)
    BY <1>1
  <2> HIDE DEF inputs
  <2> QED BY <1>1, <2>1 DEF Run
<1>3. r = [f EXCEPT !.slots = <<>>, !.run = run]
  BY DEF Joined
<1>4. <<>> \in Seq(Slot)
  OBVIOUS
<1> HIDE DEF run, inputs, r
<1>5. r \in Conv /\ r.entries = f.entries /\ r.inbox = f.inbox /\ r.subs = f.subs /\ r.run = run
  BY <1>2, <1>3, <1>4 DEF Conv
<1> QED BY <1>2, <1>5 DEF inputs, r

LEMMA AfterToolsForward ==
  ASSUME NEW s \in Conv, NEW g, s.run.task = g
  PROVE  Forward(s, AfterTools(s, g))
<1> DEFINE b == ApplyBoundary(s, "postTools")
           cut == [b EXCEPT !.conv = EndRun(b.conv, g, "unanswered")]
           r == HandOver(CreateGeneration(Joined(b, g)), g)
<1>1. AfterTools(s, g) = IF b.reset THEN StartNext(cut, TRUE) ELSE r
  BY DEF AfterTools, Joined
<1>2. Forward(s, StartNext(cut, TRUE))
  BY OverForward
<1>3. Forward(s, b.conv) /\ Framed(s, b.conv) /\ b.users \in Seq(Nat)
  BY BoundaryForward, BoundaryFramed
<1>4. b.conv \in Conv /\ b.conv.run.task = g
  BY <1>3 DEF Framed
<1> HIDE DEF b
<1>5. /\ Joined(b, g) \in Conv /\ Joined(b, g).entries = b.conv.entries
      /\ Joined(b, g).inbox = b.conv.inbox /\ Joined(b, g).run.task = g
  <2>1. PICK x : x = b
    OBVIOUS
  <2>2. x.conv \in Conv /\ x.users \in Seq(Nat) /\ x.conv.run.task = g
    BY <1>3, <1>4, <2>1
  <2>3. PICK j : /\ j = Joined(x, g) /\ j \in Conv /\ j.entries = x.conv.entries
                 /\ j.inbox = x.conv.inbox /\ j.subs = x.conv.subs /\ j.run.task = g
                 /\ j.run.inputs = x.conv.run.inputs \o x.users
                 /\ j.run.answered = x.conv.run.answered
    BY ONLY ZenonT(30), <2>2, JoinedIs
  <2> QED BY <2>1, <2>3
<1>6. r \in Conv /\ r.entries = Joined(b, g).entries /\ r.inbox = Joined(b, g).inbox
  BY <1>5, HandOverIs
<1> HIDE DEF r
<1>7. Forward(b.conv, r)
  BY <1>4, <1>5, <1>6, ForwardSame
<1>8. Forward(s, r)
  BY <1>3, <1>7, ForwardTrans
<1> QED BY <1>1, <1>2, <1>8

LEMMA ContinuedForward ==
  ASSUME NEW s \in Conv, NEW g, s.run.task = g, Continued(s, g) \in Conv
  PROVE  Forward(s, Continued(s, g))
<1> DEFINE f == ApplyBoundary(s, "final").conv
           e == Entry("continuation", 0, 0)
           next == AppendEntry(f, e)
           h == HandOver(CreateGeneration(next), g)
           r == Continued(s, g)
<1>1. Forward(s, f) /\ Framed(s, f)
  BY BoundaryForward, BoundaryFramed
<1>2. f \in Conv /\ f.run.task = g
  BY <1>1 DEF Framed
<1>3. e \in EntryType /\ e.kind # "summary"
  <2>1. e \in EntryType /\ e.kind = "continuation"
    BY EntryTyped
  <2> QED BY <2>1
<1> HIDE DEF f, e
<1>4. /\ next \in Conv /\ next.entries = Append(f.entries, e) /\ next.inbox = f.inbox
      /\ next.run.task = g
  BY <1>2, <1>3, AppendIs
<1> HIDE DEF next
<1>5. Forward(f, next)
  BY <1>2, <1>3, <1>4, ForwardAppend
<1>6. h \in Conv /\ h.entries = next.entries /\ h.inbox = next.inbox
  BY <1>4, HandOverIs
<1>7. r = [End(h, g, "") EXCEPT !.run.turns = 0, !.partial = "none"]
  BY DEF Continued, e, f, next
<1> HIDE DEF h, r
<1>8. r.entries = h.entries /\ r.inbox = h.inbox
  BY <1>6, <1>7 DEF End, Conv
<1>9. r \in Conv
  BY DEF r
<1>10. Forward(next, r)
  BY <1>4, <1>6, <1>8, <1>9, ForwardSame
<1> QED BY <1>1, <1>5, <1>10, ForwardTrans DEF r

LEMMA HoldRunForward ==
  ASSUME NEW s \in Conv, NEW g, HoldRun(s, g) \in Conv
  PROVE  Forward(s, HoldRun(s, g))
<1>1. HoldRun(s, g).entries = s.entries /\ HoldRun(s, g).inbox = s.inbox
  BY DEF HoldRun, Settle, Moved, Conv
<1> QED BY <1>1, ForwardSame

-----------------------------------------------------------------------------
(* What generations and calls write keeps the range                         *)

\* From s to r the range stays, and no head is declared.
Steady(s, r) ==
  /\ Forward(s, r) /\ ActiveFrom(r.entries) = ActiveFrom(s.entries)

LEMMA SayForward ==
  ASSUME NEW s \in Conv, NEW g \in DOMAIN s.gens, NEW kind \in SaidKinds
  PROVE  Steady(s, Say(s, g, kind)) /\ Say(s, g, kind).run = s.run
<1> DEFINE e == Entry(kind, g, s.gens[g].sent)
           r == AppendEntry(s, e)
<1>1. e \in EntryType /\ e.kind = kind
  <2>1. s.gens[g] \in Gen /\ g \in Nat
    BY DEF Conv
  <2>2. s.gens[g].sent \in Nat
    BY <2>1 DEF Gen
  <2> QED BY <2>1, <2>2, EntryTyped
<1>2. e.kind \notin HeadKinds
  BY <1>1 DEF SaidKinds, HeadKinds
<1>3. Say(s, g, kind) = r
  BY DEF Say
<1> HIDE DEF e
<1>4. r \in Conv /\ r.entries = Append(s.entries, e) /\ r.inbox = s.inbox /\ r.run = s.run
  BY <1>1, AppendIs
<1> HIDE DEF r
<1>5. s.entries \in Seq(EntryType)
  BY DEF Conv
<1>6. Starts(s.entries, r.entries) /\ Len(r.entries) = Len(s.entries) + 1 /\ r.entries[Len(r.entries)] = e
  BY <1>1, <1>4, <1>5, RangeAppend
<1>7. Len(s.entries) \in Nat
  BY <1>5
<1>8. \A i \in (Len(s.entries) + 1)..Len(r.entries) : r.entries[i].kind \notin HeadKinds
  BY <1>2, <1>6, <1>7
<1> QED BY <1>3, <1>4, <1>6, <1>8, ForwardLonger DEF Steady

LEMMA ConvertForward ==
  ASSUME NEW s \in Conv, NEW g \in DOMAIN s.gens
  PROVE  Steady(s, ConvertPartial(s, g)) /\ ConvertPartial(s, g).run = s.run
<1>1. CASE s.partial = "none"
  BY <1>1, ForwardSame DEF ConvertPartial, Steady
<1>2. CASE s.partial # "none"
  BY <1>2, SayForward DEF ConvertPartial, SaidKinds
<1> QED BY <1>1, <1>2

LEMMA UnstartedForward ==
  ASSUME NEW s \in Conv, NEW g, Unstarted(s, g) \in Conv
  PROVE  Steady(s, Unstarted(s, g)) /\ Unstarted(s, g).run = s.run
<1>1. /\ Unstarted(s, g).entries = s.entries /\ Unstarted(s, g).inbox = s.inbox
      /\ Unstarted(s, g).run = s.run
  BY DEF Unstarted, Conv
<1> QED BY <1>1, ForwardSame DEF Steady

\* c is a and then b.
Joins(c, a, b) ==
  /\ Len(c) = Len(a) + Len(b) /\ \A i \in 1..Len(a) : c[i] = a[i]
  /\ \A k \in 1..Len(b) : c[Len(a) + k] = b[k]

LEMMA ConcatJoins ==
  ASSUME NEW X, NEW a \in Seq(X), NEW b \in Seq(X)
  PROVE  a \o b \in Seq(X) /\ Joins(a \o b, a, b)
<1>1. a \o b \in Seq(X) /\ Len(a \o b) = Len(a) + Len(b) /\ Len(a) \in Nat /\ Len(b) \in Nat
      /\ \A i \in 1..Len(a) : (a \o b)[i] = a[i]
  OBVIOUS
<1>2. ASSUME NEW k \in 1..Len(b) PROVE (a \o b)[Len(a) + k] = b[k]
  <2> DEFINE i == Len(a) + k
  <2>2. i \in (Len(a) + 1)..(Len(a) + Len(b)) /\ i - Len(a) = k
    BY <1>1
  <2> HIDE DEF i
  <2>3. (a \o b)[i] = b[i - Len(a)]
    BY <1>1, <2>2
  <2> QED BY <2>2, <2>3 DEF i
<1> QED BY <1>1, <1>2 DEF Joins

\* The entries Results() appends.
LEMMA ResultsAre ==
  ASSUME NEW s \in Conv, NEW calls \in Seq(Nat), calls # <<>> => Assistant(s) \in Nat,
         NEW r, r = Results(s, calls)
  PROVE  /\ r \in Conv /\ r.inbox = s.inbox /\ r.run = s.run /\ r.subs = s.subs
         /\ Starts(s.entries, r.entries) /\ Len(r.entries) = Len(s.entries) + Len(calls)
         /\ \A k \in 1..Len(calls) :
              r.entries[Len(s.entries) + k] = Entry("result", calls[k], Assistant(s))
<1> DEFINE es == [k \in DOMAIN calls |-> Entry("result", calls[k], Assistant(s))]
<1>1. DOMAIN calls = 1..Len(calls) /\ Len(calls) \in Nat
  OBVIOUS
<1>2. \A k \in DOMAIN calls : Entry("result", calls[k], Assistant(s)) \in EntryType
  <2> SUFFICES ASSUME NEW k \in DOMAIN calls PROVE Entry("result", calls[k], Assistant(s)) \in EntryType
    OBVIOUS
  <2>1. calls[k] \in Nat /\ Assistant(s) \in Nat
    BY <1>1
  <2> QED BY <2>1, EntryTyped
<1>3. es \in [1..Len(calls) -> EntryType]
  BY <1>1, <1>2
<1>4. es \in Seq(EntryType) /\ Len(es) = Len(calls)
  BY <1>1, <1>3, IsSeq
<1>5. r = [s EXCEPT !.entries = s.entries \o es]
  BY DEF Results
<1>6. s.entries \in Seq(EntryType)
  BY DEF Conv
<1>7. \A k \in 1..Len(calls) : es[k] = Entry("result", calls[k], Assistant(s))
  BY <1>1
<1> HIDE DEF es
<1>8. r \in Conv
  BY ResultsLengthened DEF Lengthened
<1>9. r.entries = s.entries \o es /\ r.inbox = s.inbox /\ r.run = s.run /\ r.subs = s.subs
  BY <1>5 DEF Conv
<1>10. /\ Len(r.entries) = Len(s.entries) + Len(es) /\ Len(s.entries) \in Nat
       /\ \A i \in 1..Len(s.entries) : r.entries[i] = s.entries[i]
       /\ \A k \in 1..Len(es) : r.entries[Len(s.entries) + k] = es[k]
  <2>1. Joins(r.entries, s.entries, es)
    BY <1>4, <1>6, <1>9, ConcatJoins
  <2> QED BY <1>6, <2>1 DEF Joins
<1>11. Starts(s.entries, r.entries)
  BY <1>1, <1>4, <1>10 DEF Starts
<1> QED BY <1>4, <1>7, <1>8, <1>9, <1>10, <1>11

LEMMA ResultsForward ==
  ASSUME NEW s \in Conv, NEW calls \in Seq(Nat), calls # <<>> => Assistant(s) \in Nat
  PROVE  Steady(s, Results(s, calls)) /\ Results(s, calls).run = s.run
<1> DEFINE r == Results(s, calls)
           n == Len(s.entries)
<1>1. /\ r \in Conv /\ r.inbox = s.inbox /\ r.run = s.run
      /\ Starts(s.entries, r.entries) /\ Len(r.entries) = n + Len(calls)
      /\ \A k \in 1..Len(calls) : r.entries[n + k] = Entry("result", calls[k], Assistant(s))
  BY ResultsAre
<1> HIDE DEF r
<1>2. n \in Nat /\ Len(calls) \in Nat
  BY DEF Conv
<1>3. ASSUME NEW i \in (n + 1)..Len(r.entries) PROVE r.entries[i].kind \notin HeadKinds
  <2>1. i - n \in 1..Len(calls) /\ n + (i - n) = i
    BY <1>1, <1>2
  <2>2. r.entries[i] = Entry("result", calls[i - n], Assistant(s))
    BY <1>1, <2>1
  <2> QED BY <2>2 DEF Entry, HeadKinds
<1>4. Steady(s, r)
  BY <1>1, <1>3, ForwardLonger DEF Steady
<1> QED BY <1>1, <1>4 DEF r

-----------------------------------------------------------------------------
(* The cases of an admission                                                *)

NextId(s) == Len(s.subs) + 1

Admitted(s, d, status) == NewSub(s, [kind |-> d.kind, status |-> status, req |-> d.req])

ModeOf(d) == IF d.kind # "input" THEN d.kind ELSE IF d.busy = "steer" THEN "steer" ELSE "followUp"

ItemOf(s, d) == [id |-> NextId(s), mode |-> ModeOf(d), cut |-> d.cut]

Queued(s, d) == [Admitted(s, d, "queued") EXCEPT !.inbox = Append(@, ItemOf(s, d))]

LEMMA AdmittedIs ==
  ASSUME NEW s \in Conv, NEW d \in Draft, NEW status \in SubStatus
  PROVE  LET r == Admitted(s, d, status)
             sub == [kind |-> d.kind, status |-> status, req |-> d.req]
         IN  /\ r \in Conv /\ r.entries = s.entries /\ r.inbox = s.inbox /\ sub \in Sub
             /\ r.subs = Append(s.subs, sub)
             /\ r.gens = s.gens /\ r.run = s.run /\ r.slots = s.slots /\ r.comps = s.comps
             /\ NextId(s) \in Nat
<1> DEFINE r == Admitted(s, d, status)
           sub == [kind |-> d.kind, status |-> status, req |-> d.req]
<1>1. sub \in Sub
  BY DEF Draft, Sub, SubStatus
<1>2. r = NewSub(s, sub)
  BY DEF Admitted
<1> HIDE DEF sub, r
<1>3. Framed(s, r) /\ r.inbox = s.inbox /\ r.entries = s.entries /\ r \in Conv
  BY <1>1, <1>2, NewSubFramed
<1>4. r.subs = Append(s.subs, sub)
  BY <1>2 DEF NewSub, Conv
<1>5. NextId(s) \in Nat
  BY DEF NextId, Conv
<1> QED BY <1>1, <1>3, <1>4, <1>5 DEF Framed, sub, r

LEMMA QueuedIs ==
  ASSUME NEW s \in Conv, NEW d \in Draft, d.kind # "continue"
  PROVE  LET r == Queued(s, d) IN
         /\ r \in Conv /\ r.entries = s.entries /\ r.subs = Admitted(s, d, "queued").subs
         /\ ItemOf(s, d) \in Item /\ r.inbox = Append(s.inbox, ItemOf(s, d))
         /\ r.gens = s.gens /\ r.run = s.run /\ r.slots = s.slots /\ r.comps = s.comps
<1> DEFINE n == Admitted(s, d, "queued")
           box == Append(s.inbox, ItemOf(s, d))
           r == Queued(s, d)
<1>1. /\ n \in Conv /\ n.entries = s.entries /\ n.inbox = s.inbox /\ NextId(s) \in Nat
      /\ n.gens = s.gens /\ n.run = s.run /\ n.slots = s.slots /\ n.comps = s.comps
  BY AdmittedIs DEF SubStatus
<1>2. ItemOf(s, d) \in Item
  <2>1. d.kind \in {"input"} \cup WriteKinds /\ d.cut \in Nat
    BY DEF Draft
  <2>2. ModeOf(d) \in {"steer", "followUp"} \cup WriteKinds
    BY <2>1 DEF ModeOf
  <2> QED BY <1>1, <2>1, <2>2 DEF ItemOf, Item
<1>3. s.inbox \in Seq(Item)
  BY DEF Conv
<1>4. box \in Seq(Item)
  BY <1>2, <1>3
<1>5. r = [n EXCEPT !.inbox = box]
  BY <1>1 DEF Queued
<1> HIDE DEF n, box, r
<1>6. /\ r \in Conv /\ r.entries = n.entries /\ r.inbox = box /\ r.subs = n.subs
      /\ r.gens = n.gens /\ r.run = n.run /\ r.slots = n.slots /\ r.comps = n.comps
  BY <1>1, <1>4, <1>5 DEF Conv
<1> QED BY <1>1, <1>2, <1>6 DEF n, box, r

\* What an admission of d does to s.
AdmitsAs(s, d, r) ==
  \/ /\ d.kind = "display"
     /\ r = AppendEntry(Admitted(s, d, "done"), Entry("display", NextId(s), 0))
  \/ LET b == ApplyBoundary(Admitted(s, d, "placed"), "final") IN
     /\ d.kind = "continue" /\ ~Busy(s)
     /\ r = StartRun(b.conv, Append(b.users, NextId(s)), FALSE)
  \/ d.kind # "continue" /\ Busy(s) /\ r = Queued(s, d)
  \/ /\ d.kind # "continue" /\ ~Busy(s)
     /\ r = StartNext(ApplyBoundary(Queued(s, d), "final"), FALSE)
  \/ /\ d.kind \in WriteKinds /\ ~Busy(s) /\ s.inbox = <<>>
     /\ r = IF IsStale(s, ItemOf(s, d)) THEN Admitted(s, d, "unanswered")
            ELSE AppendEntry(Admitted(s, d, "done"), Entry(d.kind, NextId(s), d.cut))
  \/ /\ d.kind = "input" /\ ~Busy(s) /\ s.inbox = <<>>
     /\ r = StartRun(AppendEntry(Admitted(s, d, "placed"), Entry("user", NextId(s), 0)),
                     <<NextId(s)>>, FALSE)

LEMMA AdmitCases ==
  ASSUME NEW s \in Conv, NEW d \in Draft, d.kind = "continue" => ~Busy(s), NEW r, r = Admit(s, d)
  PROVE  AdmitsAs(s, d, r)
<1> USE DEF AdmitsAs
<1> DEFINE b == ApplyBoundary(Admitted(s, d, "placed"), "final")
           direct == d.kind = "display" /\ ~HasQueuedReset(s.inbox)
           waits == ~direct /\ d.kind # "continue" /\ (Busy(s) \/ s.inbox # <<>>)
           written == IF IsStale(s, ItemOf(s, d)) THEN Admitted(s, d, "unanswered")
                      ELSE AppendEntry(Admitted(s, d, "done"), Entry(d.kind, NextId(s), d.cut))
<1>1. d.kind \in {"input", "continue"} \cup WriteKinds
  BY DEF Draft
<1>2. r = CASE direct -> AppendEntry(Admitted(s, d, "done"), Entry("display", NextId(s), 0))
            [] d.kind = "continue" -> StartRun(b.conv, Append(b.users, NextId(s)), FALSE)
            [] waits /\ Busy(s) -> Queued(s, d)
            [] waits /\ ~Busy(s) -> StartNext(ApplyBoundary(Queued(s, d), "final"), FALSE)
            [] ~direct /\ ~waits /\ d.kind \in WriteKinds -> written
            [] ~waits /\ d.kind = "input" ->
                 StartRun(AppendEntry(Admitted(s, d, "placed"), Entry("user", NextId(s), 0)),
                          <<NextId(s)>>, FALSE)
  BY DEF Admit, Admitted, NewSub, NextId, ItemOf, ModeOf, Queued
<1> HIDE DEF b, written
<1>3. CASE direct
  BY <1>2, <1>3
<1>4. CASE d.kind = "continue"
  BY <1>2, <1>4 DEF WriteKinds, b
<1>5. CASE waits /\ Busy(s)
  BY <1>2, <1>5
<1>6. CASE waits /\ ~Busy(s)
  BY <1>2, <1>6
<1>7. CASE ~direct /\ ~waits /\ d.kind \in WriteKinds
  <2>1. r = written /\ ~Busy(s) /\ s.inbox = <<>>
    BY <1>2, <1>7 DEF WriteKinds
  <2> QED BY <1>7, <2>1 DEF written
<1>8. CASE ~waits /\ d.kind = "input"
  BY <1>2, <1>8 DEF WriteKinds
<1> QED BY <1>1, <1>3, <1>4, <1>5, <1>6, <1>7, <1>8

LEMMA AdmittedForward ==
  ASSUME NEW s \in Conv, NEW d \in Draft, NEW status \in SubStatus
  PROVE  Steady(s, Admitted(s, d, status))
<1>1. /\ Admitted(s, d, status) \in Conv /\ Admitted(s, d, status).entries = s.entries
      /\ Admitted(s, d, status).inbox = s.inbox
  BY AdmittedIs
<1> QED BY <1>1, ForwardSame DEF Steady

LEMMA QueuedForward ==
  ASSUME NEW s \in Conv, NEW d \in Draft, d.kind # "continue",
         HeadsKnown(s) /\ d.kind = "summary" => d.cut <= Len(s.entries)
  PROVE  Steady(s, Queued(s, d))
<1> DEFINE r == Queued(s, d)
           item == ItemOf(s, d)
<1>1. r \in Conv /\ r.entries = s.entries /\ item \in Item /\ r.inbox = Append(s.inbox, item)
  BY QueuedIs
<1>2. item.mode = "summary" => d.kind = "summary" /\ item.cut = d.cut
  BY DEF ItemOf, ModeOf
<1> HIDE DEF r, item
<1>3. s.entries \in Seq(EntryType) /\ s.inbox \in Seq(Item)
  BY DEF Conv
<1>4. Starts(s.entries, r.entries) /\ ActiveFrom(s.entries) \in Nat
  BY <1>1, <1>3, ActiveFromTyped DEF Starts
<1>5. ASSUME HeadsKnown(s), NEW k \in DOMAIN r.inbox, r.inbox[k].mode = "summary"
      PROVE  r.inbox[k].cut <= Len(r.entries)
  <2>1. CASE k \in DOMAIN s.inbox
    <3>1. r.inbox[k] = s.inbox[k]
      BY <1>1, <1>3, <2>1
    <3> QED BY <1>1, <1>5, <2>1, <3>1 DEF HeadsKnown
  <2>2. CASE k \notin DOMAIN s.inbox
    <3>1. r.inbox[k] = item
      BY <1>1, <1>3, <1>5, <2>2
    <3> QED BY <1>1, <1>2, <1>5, <3>1
  <2> QED BY <2>1, <2>2
<1>6. HeadsKnown(s) => HeadsKnown(r)
  BY <1>1, <1>5 DEF HeadsKnown
<1> QED BY <1>1, <1>4, <1>6 DEF Steady, Forward, r

LEMMA AppendForward ==
  ASSUME NEW s \in Conv, NEW e \in EntryType,
         HeadsKnown(s) /\ e.kind = "summary" => ActiveFrom(s.entries) <= e.m /\ e.m <= Len(s.entries)
  PROVE  Forward(s, AppendEntry(s, e)) /\ AppendEntry(s, e) \in Conv
<1>1. /\ AppendEntry(s, e) \in Conv /\ AppendEntry(s, e).entries = Append(s.entries, e)
      /\ AppendEntry(s, e).inbox = s.inbox
  BY AppendIs
<1> QED BY <1>1, ForwardAppend

LEMMA StartRunForward ==
  ASSUME NEW s \in Conv, NEW inputs \in Seq(Nat)
  PROVE  Forward(s, StartRun(s, inputs, FALSE))
<1>1. FALSE \in BOOLEAN
  OBVIOUS
<1> DEFINE r == StartRun(s, inputs, FALSE)
<1>2. r \in Conv /\ r.entries = s.entries /\ r.inbox = s.inbox
  BY <1>1, StartRunIs, Zenon
<1> HIDE DEF r
<1>3. Forward(s, r)
  BY <1>2, ForwardSame
<1> QED BY <1>3 DEF r

\* A summary that a client or a compaction submits cuts the transcript it knows.
LEMMA AdmitForward ==
  ASSUME NEW s \in Conv, NEW d \in Draft, d.kind = "continue" => ~Busy(s),
         HeadsKnown(s) /\ d.kind = "summary" => d.cut <= Len(s.entries)
  PROVE  Forward(s, Admit(s, d))
<1> DEFINE r == Admit(s, d)
           n(status) == Admitted(s, d, status)
           id == NextId(s)
           queued == Queued(s, d)
<1>1. \A status \in SubStatus :
        Forward(s, n(status)) /\ n(status) \in Conv /\ n(status).entries = s.entries /\ id \in Nat
        /\ n(status).inbox = s.inbox
  BY AdmittedForward, AdmittedIs DEF Steady
<1>2. d.kind # "continue" => Forward(s, queued) /\ queued \in Conv
  BY QueuedForward, QueuedIs DEF Steady
<1>3. \/ r = AppendEntry(n("done"), Entry("display", id, 0))
      \/ LET b == ApplyBoundary(n("placed"), "final") IN r = StartRun(b.conv, Append(b.users, id), FALSE)
      \/ d.kind # "continue" /\ r = queued
      \/ d.kind # "continue" /\ r = StartNext(ApplyBoundary(queued, "final"), FALSE)
      \/ /\ d.kind \in WriteKinds
         /\ r = IF IsStale(s, ItemOf(s, d)) THEN n("unanswered")
                ELSE AppendEntry(n("done"), Entry(d.kind, id, d.cut))
      \/ r = StartRun(AppendEntry(n("placed"), Entry("user", id, 0)), <<id>>, FALSE)
  BY AdmitCases DEF AdmitsAs
<1> HIDE DEF r, n, id, queued
<1>4. id \in Nat
  BY <1>1 DEF SubStatus
<1>5. ASSUME NEW status \in SubStatus, NEW e \in EntryType, e.kind # "summary"
      PROVE  Forward(s, AppendEntry(n(status), e)) /\ AppendEntry(n(status), e) \in Conv
  <2>1. Forward(s, n(status)) /\ n(status) \in Conv
    BY <1>1, <1>5
  <2>2. Forward(n(status), AppendEntry(n(status), e)) /\ AppendEntry(n(status), e) \in Conv
    BY <1>5, <2>1, AppendForward
  <2> QED BY <2>1, <2>2, ForwardTrans
<1>6. CASE r = AppendEntry(n("done"), Entry("display", id, 0))
  <2>1. Entry("display", id, 0) \in EntryType /\ Entry("display", id, 0).kind = "display"
    BY <1>4, EntryTyped DEF WriteKinds
  <2> QED BY <1>5, <1>6, <2>1 DEF SubStatus, r
<1>7. CASE LET b == ApplyBoundary(n("placed"), "final") IN r = StartRun(b.conv, Append(b.users, id), FALSE)
  <2> DEFINE b == ApplyBoundary(n("placed"), "final")
             inputs == Append(b.users, id)
  <2>1. Forward(s, n("placed")) /\ n("placed") \in Conv
    BY <1>1 DEF SubStatus
  <2>2. Forward(n("placed"), b.conv) /\ Framed(n("placed"), b.conv) /\ b.users \in Seq(Nat)
    BY <2>1, BoundaryForward, BoundaryFramed
  <2>3. r = StartRun(b.conv, inputs, FALSE)
    BY <1>7
  <2> HIDE DEF b
  <2>4. b.conv \in Conv /\ inputs \in Seq(Nat)
    BY <1>4, <2>2 DEF Framed
  <2> HIDE DEF inputs
  <2>5. Forward(b.conv, r)
    BY <2>3, <2>4, StartRunForward
  <2> QED BY <2>1, <2>2, <2>5, ForwardTrans DEF r
<1>8. CASE d.kind # "continue" /\ r = queued
  BY <1>2, <1>8 DEF r
<1>9. CASE d.kind # "continue" /\ r = StartNext(ApplyBoundary(queued, "final"), FALSE)
  <2>1. Forward(queued, r)
    BY <1>2, <1>9, BoundaryNextForward
  <2> QED BY <1>2, <1>9, <2>1, ForwardTrans DEF r
<1>10. CASE /\ d.kind \in WriteKinds
            /\ r = IF IsStale(s, ItemOf(s, d)) THEN n("unanswered")
                   ELSE AppendEntry(n("done"), Entry(d.kind, id, d.cut))
  <2>1. CASE IsStale(s, ItemOf(s, d))
    BY <1>1, <1>10, <2>1 DEF SubStatus, r
  <2>2. CASE ~IsStale(s, ItemOf(s, d))
    <3> DEFINE e == Entry(d.kind, id, d.cut)
    <3>1. d.cut \in Nat
      BY DEF Draft
    <3>2. e \in EntryType /\ e.kind = d.kind /\ e.m = d.cut
      BY <1>4, <1>10, <3>1, EntryTyped DEF Entry
    <3> HIDE DEF e
    <3>3. Forward(s, n("done")) /\ n("done") \in Conv /\ n("done").entries = s.entries /\ n("done").inbox = s.inbox
      BY <1>1 DEF SubStatus
    <3>4. s.entries \in Seq(EntryType)
      BY DEF Conv
    <3>5. ActiveFrom(s.entries) \in Nat
      BY <3>4, ActiveFromTyped
    <3>6. d.kind = "summary" => ActiveFrom(s.entries) <= d.cut
      BY <2>2, <3>1, <3>5 DEF IsStale, ItemOf, ModeOf
    <3>7. HeadsKnown(n("done")) /\ e.kind = "summary"
          => ActiveFrom(n("done").entries) <= e.m /\ e.m <= Len(n("done").entries)
      BY <3>2, <3>3, <3>6 DEF HeadsKnown
    <3>8. Forward(n("done"), AppendEntry(n("done"), e))
      BY <3>2, <3>3, <3>7, AppendForward
    <3>9. r = AppendEntry(n("done"), e)
      BY <1>10, <2>2 DEF e
    <3> QED BY <3>3, <3>8, <3>9, ForwardTrans DEF r
  <2> QED BY <2>1, <2>2
<1>11. CASE r = StartRun(AppendEntry(n("placed"), Entry("user", id, 0)), <<id>>, FALSE)
  <2> DEFINE e == Entry("user", id, 0)
             f == AppendEntry(n("placed"), e)
             only == <<id>>
  <2>1. e \in EntryType /\ e.kind = "user"
    BY <1>4, EntryTyped
  <2> HIDE DEF e
  <2>2. Forward(s, f) /\ f \in Conv
    BY <1>5, <2>1 DEF SubStatus
  <2>3. only \in Seq(Nat)
    BY <1>4
  <2>4. r = StartRun(f, only, FALSE)
    BY <1>11 DEF e
  <2> HIDE DEF f, only
  <2>5. Forward(f, r)
    BY <2>2, <2>3, <2>4, StartRunForward
  <2> QED BY <2>2, <2>5, ForwardTrans DEF r
<1> QED BY <1>3, <1>6, <1>7, <1>8, <1>9, <1>10, <1>11

-----------------------------------------------------------------------------
(* What a step keeps                                                        *)

\* The context is the invariant's, and its range has not grown back.
ContextKept == ContextInv' /\ ActiveFrom(conv.entries) <= ActiveFrom(conv'.entries)

\* No generation has a prepared request.
Unread == \A h \in Gens : conv.gens[h].fly # "prepared"

\* No generation waits for a compaction.
Alone == \A k \in Comps : LiveComp(conv, k) => conv.comps[k].owner = 0

LEMMA ContextStep ==
  ASSUME ContextInv, Forward(conv, conv'), ContextCurrent', CompsKnown', RoundOpen'
  PROVE  ContextKept
  BY DEF ContextInv, Forward, ContextKept

LEMMA UnreadCurrent == Unread' => ContextCurrent'
  BY DEF Unread, ContextCurrent

\* The generation that a compaction is for is the live one, and does nothing.
LEMMA OwnerParked ==
  ASSUME ConvInv, ContextInv, NEW k \in Comps, LiveComp(conv, k), conv.comps[k].owner # 0
  PROVE  LET g == conv.comps[k].owner IN
         /\ g \in Gens /\ g = conv.run.task /\ Busy(conv) /\ conv.gens[g].phase = "prepare"
         /\ conv.gens[g].comp = k /\ Parked(conv.gens[g])
<1> DEFINE g == conv.comps[k].owner
<1>1. g \in Gens /\ conv.gens[g].phase = "prepare" /\ conv.gens[g].comp = k /\ Parked(conv.gens[g])
  BY DEF ContextInv, CompsKnown, Awaited
<1>2. g = conv.run.task /\ Busy(conv)
  BY <1>1, InvFacts
<1> QED BY <1>1, <1>2

LEMMA AloneRunning ==
  ASSUME ConvInv, ContextInv, NEW g \in Gens, conv.gens[g].phase # "ended", conv.gens[g].status = "running"
  PROVE  Alone
<1> SUFFICES ASSUME NEW k \in Comps, LiveComp(conv, k), conv.comps[k].owner # 0 PROVE FALSE
  BY DEF Alone
<1>1. g = conv.run.task
  BY InvFacts
<1>2. conv.comps[k].owner = g /\ Parked(conv.gens[g])
  BY <1>1, OwnerParked
<1> QED BY <1>2 DEF Parked

LEMMA AloneElsewhere ==
  ASSUME ConvInv, ContextInv, NEW g \in Gens, conv.gens[g].phase # "ended", conv.gens[g].phase # "prepare"
  PROVE  Alone
<1> SUFFICES ASSUME NEW k \in Comps, LiveComp(conv, k), conv.comps[k].owner # 0 PROVE FALSE
  BY DEF Alone
<1>1. g = conv.run.task
  BY InvFacts
<1> QED BY <1>1, OwnerParked

LEMMA AloneUnowned ==
  ASSUME ConvInv, ContextInv, NEW g \in Gens, conv.gens[g].phase # "ended", ~OwnsLive(conv, g)
  PROVE  Alone
<1> SUFFICES ASSUME NEW k \in Comps, LiveComp(conv, k), conv.comps[k].owner # 0 PROVE FALSE
  BY DEF Alone
<1>1. g = conv.run.task
  BY InvFacts
<1>2. conv.comps[k].owner = g
  BY <1>1, OwnerParked
<1> QED BY <1>2 DEF OwnsLive, Comps

LEMMA AloneIdle ==
  ASSUME ConvInv, ContextInv, ~Busy(conv)
  PROVE  Alone
  BY OwnerParked DEF Alone

\* Compactions that nobody waits for, as they were.
LEMMA CompsStay ==
  ASSUME ConvInv, ContextInv, Forward(conv, conv'), Alone, conv'.comps = conv.comps
  PROVE  CompsKnown'
<1>1. Len(conv.entries) <= Len(conv'.entries) /\ Len(conv.entries) \in Nat /\ Len(conv'.entries) \in Nat
  BY InvFacts DEF Forward, Starts, Conv
<1>2. \A k \in Comps : conv.comps[k].cut \in Nat /\ conv.comps[k].cut <= Len(conv.entries)
  <2> SUFFICES ASSUME NEW k \in Comps
               PROVE  conv.comps[k].cut \in Nat /\ conv.comps[k].cut <= Len(conv.entries)
    OBVIOUS
  <2>1. conv.comps[k] \in Comp
    BY InvFacts DEF Conv, Comps
  <2> QED BY <2>1 DEF Comp, ContextInv, CompsKnown
<1>3. Comps' = Comps
  BY DEF Comps
<1>4. \A k \in Comps : ~(LiveComp(conv', k) /\ conv'.comps[k].owner # 0)
  BY DEF Alone, LiveComp
<1> QED BY <1>1, <1>2, <1>3, <1>4 DEF CompsKnown, LiveComp

\* No request stays prepared, no compaction is waited for, the round is over.
LEMMA TurnStep ==
  ASSUME ConvInv, ContextInv, Forward(conv, conv'), Unread', Alone, conv'.comps = conv.comps,
         conv'.slots = <<>>
  PROVE  ContextKept
<1>1. ContextCurrent' /\ CompsKnown' /\ RoundOpen'
  BY UnreadCurrent, CompsStay DEF RoundOpen
<1> QED BY <1>1, ContextStep

\* A generation that is not the live one has nothing prepared.
LEMMA OthersUnread ==
  ASSUME ConvInv, NEW g \in Gens, conv.gens[g].phase # "ended"
  PROVE  \A h \in Gens \ {g} : conv.gens[h].fly = "none" /\ conv.gens[h].phase = "ended"
<1> SUFFICES ASSUME NEW h \in Gens \ {g} PROVE conv.gens[h].fly = "none" /\ conv.gens[h].phase = "ended"
  OBVIOUS
<1>1. conv.gens[h].phase = "ended" /\ TaskSound(conv.gens[h], settings.retries)
  BY InvFacts
<1> QED BY <1>1 DEF TaskSound

LEMMA EndsUnread ==
  ASSUME ConvInv, NEW g \in Gens, conv.gens[g].phase # "ended", NEW s, s.gens = conv.gens,
         NEW cause \in Causes, Ends(s, conv', g, cause)
  PROVE  Unread'
<1> DEFINE n == Len(conv.gens)
<1>1. conv.gens \in Seq(Gen) /\ Gens = 1..n /\ n \in Nat
  BY InvFacts DEF Conv
<1>2. \A h \in Gens \ {g} : conv.gens[h].fly = "none"
  BY OthersUnread
<1>3. Over(cause).fly = "none" /\ NewGeneration.fly = "none"
  BY DEF Over, NewGeneration
<1> HIDE DEF n
<1>4. CASE conv'.gens = [conv.gens EXCEPT ![g] = Over(cause)]
  BY <1>1, <1>2, <1>3, <1>4 DEF Unread, Gens
<1>5. CASE conv'.gens = [Append(conv.gens, NewGeneration) EXCEPT ![g] = Over(cause)]
  <2> DEFINE gs == Append(conv.gens, NewGeneration)
  <2>1. DOMAIN gs = 1..(n + 1) /\ gs[n + 1] = NewGeneration /\ \A h \in 1..n : gs[h] = conv.gens[h]
    BY <1>1, NewGenerationTyped DEF n
  <2> HIDE DEF gs
  <2>2. \A h \in 1..(n + 1) : h # g => gs[h].fly = "none"
    BY <1>1, <1>2, <1>3, <2>1
  <2>3. conv'.gens = [gs EXCEPT ![g] = Over(cause)]
    BY <1>5 DEF gs
  <2>4. \A h \in DOMAIN conv'.gens : conv'.gens[h].fly = "none"
    BY <1>3, <2>1, <2>2, <2>3
  <2> QED BY <2>4 DEF Unread, Gens
<1> QED BY <1>4, <1>5 DEF Ends

\* The generation ends with its run.
LEMMA EndingContext ==
  ASSUME ConvInv, ContextInv, NEW g \in Gens, conv.gens[g].phase # "ended", Alone,
         NEW s, Ready(s, g), Forward(conv, s), NEW m, RunOver(s, m), Forward(s, m),
         NEW cause \in Causes, conv' = End(m, g, cause)
  PROVE  ContextKept
<1>1. s \in Conv /\ m \in Conv /\ conv \in Conv /\ s.gens = conv.gens /\ g \in DOMAIN s.gens
  BY InvFacts DEF Ready, RunOver, Gens
<1>2. Forward(conv, conv')
  BY <1>1, EndForward, ForwardTrans
<1>3. Ends(s, conv', g, cause)
  BY <1>1, EndEnds
<1>4. Unread'
  BY <1>1, <1>3, EndsUnread
<1>5. conv'.comps = conv.comps
  BY <1>3 DEF Ends, Ready
<1>6. conv'.slots = <<>>
  BY <1>1 DEF RunOver, End, Conv
<1> QED BY <1>2, <1>4, <1>5, <1>6, TurnStep

\* Ready(), and no range has grown back.
Begun(s, g) == Ready(s, g) /\ Forward(conv, s)

LEMMA BegunSelf == ASSUME ConvInv, NEW g \in Gens PROVE Begun(conv, g)
  BY ReadySelf, InvFacts, ForwardSame DEF Begun

LEMMA BegunConvert ==
  ASSUME ConvInv, NEW g \in Gens, conv.gens[g].phase # "ended"
  PROVE  Begun(ConvertPartial(conv, g), g)
<1>1. Ready(ConvertPartial(conv, g), g)
  BY ReadyConvert
<1>2. Forward(conv, ConvertPartial(conv, g))
  BY InvFacts, ConvertForward DEF Steady, Gens
<1> QED BY <1>1, <1>2 DEF Begun

LEMMA BegunSay ==
  ASSUME ConvInv, NEW g \in Gens, NEW kind \in SaidKinds, ~SaidBy(conv.entries, g, conv.gens[g].sent)
  PROVE  Begun(Say(conv, g, kind), g)
<1>1. Ready(Say(conv, g, kind), g)
  BY ReadySay
<1>2. Forward(conv, Say(conv, g, kind))
  BY InvFacts, SayForward DEF Steady, Gens
<1> QED BY <1>1, <1>2 DEF Begun

LEMMA BegunUnstarted ==
  ASSUME ConvInv, NEW g \in Gens, NEW s, Begun(s, g)
  PROVE  Begun(Unstarted(s, g), g)
<1>1. Ready(Unstarted(s, g), g) /\ s \in Conv /\ conv \in Conv
  BY ReadyUnstarted, InvFacts DEF Begun, Ready
<1>2. Unstarted(s, g) \in Conv
  BY <1>1 DEF Ready
<1>3. Forward(s, Unstarted(s, g))
  BY <1>1, <1>2, UnstartedForward DEF Steady
<1> QED BY <1>1, <1>3, ForwardTrans DEF Begun

LEMMA FailedContext ==
  ASSUME ConvInv, ContextInv, NEW g \in Gens, conv.gens[g].phase # "ended", Alone,
         NEW s, Begun(s, g), NEW cause \in Causes, conv' = End(EndFailedRun(s, g), g, cause)
  PROVE  ContextKept
<1> DEFINE m == EndFailedRun(s, g)
<1>1. s \in Conv /\ s.run.task = g /\ settings \in Setting
  BY LiveFacts, InvFacts DEF Begun, Ready
<1>2. RunOver(s, m) /\ Forward(s, m)
  BY <1>1, RunEnds, EndFailedRunForward DEF Begun
<1>3. conv' = End(m, g, cause)
  OBVIOUS
<1> HIDE DEF m
<1> QED BY <1>2, <1>3, EndingContext DEF Begun

LEMMA RunContext ==
  ASSUME ConvInv, ContextInv, NEW g \in Gens, conv.gens[g].phase # "ended", Alone,
         NEW s, Begun(s, g), NEW status \in {"done", "unanswered"}, NEW cause \in Causes,
         conv' = End(EndRun(s, g, status), g, cause)
  PROVE  ContextKept
<1> DEFINE m == EndRun(s, g, status)
<1>1. s \in Conv /\ s.run.task = g
  BY LiveFacts DEF Begun, Ready
<1>2. RunOver(s, m) /\ Forward(s, m)
  BY <1>1, RunEnds, EndRunForward DEF Begun
<1>3. conv' = End(m, g, cause)
  OBVIOUS
<1> HIDE DEF m
<1> QED BY <1>2, <1>3, EndingContext DEF Begun

LEMMA AnsweredContext ==
  ASSUME ConvInv, ContextInv, NEW g \in Gens, conv.gens[g].phase # "ended", Alone,
         NEW s, Begun(s, g), conv' = EndAnswered(s, g)
  PROVE  ContextKept
<1> DEFINE m == StartNext([ApplyBoundary(s, "final") EXCEPT
                             !.conv = EndRun(ApplyBoundary(s, "final").conv, g, "done")], FALSE)
<1>1. s \in Conv /\ s.run.task = g
  BY LiveFacts DEF Begun, Ready
<1>2. RunOver(s, m) /\ Forward(s, m)
  BY <1>1, RunEnds, OverForward DEF Begun
<1>3. conv' = End(m, g, "")
  BY DEF EndAnswered
<1> HIDE DEF m
<1> QED BY <1>2, <1>3, EndingContext DEF Begun, Causes

\* A call without a result gets one.
LEMMA BegunResults ==
  ASSUME ConvInv, NEW g \in Gens, NEW c, Begun(c, g), NEW unstarted,
         unstarted = IF conv.gens[g].phase = "tools" THEN InOrder(Pending(conv), Len(conv.slots)) ELSE <<>>
  PROVE  Begun(Results(c, unstarted), g)
<1>1. unstarted \in Seq(Nat)
  BY InvFacts, SlotNumbers, InOrderType
<1>2. unstarted # <<>> => conv.slots # <<>>
  <2> SUFFICES ASSUME conv.slots = <<>>, conv.gens[g].phase = "tools" PROVE unstarted = <<>>
    OBVIOUS
  <2>1. Len(conv.slots) = 0
    OBVIOUS
  <2>2. unstarted \in Seq(1..0)
    BY <2>1, InOrderType
  <2>3. \A k \in 1..Len(unstarted) : unstarted[k] \in 1..0
    BY <2>2
  <2>4. Len(unstarted) \in Nat /\ ~(1 <= Len(unstarted))
    BY <2>2, <2>3
  <2> QED BY <2>2, <2>4
<1>3. unstarted # <<>> => Assistant(c) \in Nat
  BY <1>2, ReadyAssistant DEF Begun
<1>4. c \in Conv /\ conv \in Conv
  BY InvFacts DEF Begun, Ready
<1>5. Lengthened(c, Results(c, unstarted)) /\ Forward(c, Results(c, unstarted))
  BY <1>1, <1>3, <1>4, ResultsLengthened, ResultsForward DEF Steady
<1> QED BY <1>4, <1>5, ReadyLengthened, ForwardTrans DEF Begun

LEMMA EndsContext ==
  ASSUME ConvInv, ContextInv, NEW g \in Gens,
         \/ PrepareFails(g) \/ NoModel(g) \/ Drain(g) \/ EndAnsweredCutOff(g) \/ EndCutOff(g)
         \/ Aborts(g) \/ Faults(g) \/ SchedulerEnds(g)
  PROVE  ContextKept
<1> DEFINE t == conv.gens[g]
<1>1. CASE PrepareFails(g)
  <2>1. t.phase = "prepare" /\ t.status = "running" /\ conv' = End(EndFailedRun(conv, g), g, "")
    BY <1>1 DEF PrepareFails, InPhase
  <2> QED BY <2>1, BegunSelf, AloneRunning, FailedContext DEF Causes
<1>2. CASE NoModel(g)
  <2> DEFINE s == IF t.phase = "request" THEN ConvertPartial(conv, g) ELSE conv
  <2>1. t.phase # "ended" /\ t.status = "running" /\ conv' = End(EndFailedRun(s, g), g, "nomodel")
    BY <1>2 DEF NoModel, InPhase
  <2>2. Begun(s, g)
    BY <2>1, BegunSelf, BegunConvert
  <2> HIDE DEF s
  <2> QED BY <2>1, <2>2, AloneRunning, FailedContext DEF Causes
<1>3. CASE Drain(g)
  <2>1. t.phase = "drain" /\ t.status = "running" /\ conv' = EndAnswered(conv, g)
    BY <1>3 DEF Drain, InPhase
  <2> QED BY <2>1, BegunSelf, AloneRunning, AnsweredContext
<1>4. CASE EndAnsweredCutOff(g)
  <2>1. t.phase # "ended" /\ t.status = "running" /\ conv' = End(EndRun(conv, g, "done"), g, "")
    BY <1>4 DEF EndAnsweredCutOff, InPhase
  <2> QED BY <2>1, BegunSelf, AloneRunning, RunContext DEF Causes
<1>5. CASE EndCutOff(g)
  <2> DEFINE kept == IF Salvageable(t) THEN ConvertPartial(conv, g) ELSE conv
             cause == IF Salvageable(t) THEN "" ELSE "limit"
             s == Unstarted(kept, g)
  <2>1. t.phase # "ended" /\ t.status = "running" /\ conv' = End(EndFailedRun(s, g), g, cause)
    BY <1>5 DEF EndCutOff, InPhase
  <2>2. Begun(kept, g)
    BY <2>1, BegunSelf, BegunConvert
  <2> HIDE DEF kept
  <2>3. Begun(s, g)
    BY <2>2, BegunUnstarted
  <2>4. cause \in Causes
    BY DEF Causes
  <2> HIDE DEF s, cause
  <2> QED BY <2>1, <2>3, <2>4, AloneRunning, FailedContext
<1>6. CASE Aborts(g)
  <2> DEFINE c == ConvertPartial(conv, g)
             unstarted == IF t.phase = "tools" THEN InOrder(Pending(conv), Len(conv.slots)) ELSE <<>>
             s == Results(c, unstarted)
  <2>1. t.phase # "ended" /\ t.status = "running" /\ conv' = End(EndRun(s, g, "unanswered"), g, "")
    BY <1>6 DEF Aborts
  <2>2. Begun(c, g)
    BY <2>1, BegunConvert
  <2> HIDE DEF c
  <2>3. Begun(s, g)
    BY <2>2, BegunResults
  <2> HIDE DEF s
  <2> QED BY <2>1, <2>3, AloneRunning, RunContext DEF Causes
<1>7. CASE Faults(g)
  <2> DEFINE c == ConvertPartial(conv, g)
             s == Unstarted(c, g)
  <2>1. t.phase # "ended" /\ t.status = "running" /\ conv' = End(EndRun(s, g, "unanswered"), g, "fault")
    BY <1>7 DEF Faults
  <2>2. Begun(c, g)
    BY <2>1, BegunConvert
  <2> HIDE DEF c
  <2>3. Begun(s, g)
    BY <2>2, BegunUnstarted
  <2> HIDE DEF s
  <2> QED BY <2>1, <2>3, AloneRunning, RunContext DEF Causes
<1>8. CASE SchedulerEnds(g)
  <2> DEFINE s == Unstarted(conv, g)
  <2>1. t.phase # "ended" /\ ~OwnsLive(conv, g) /\ conv' = End(EndRun(s, g, "unanswered"), g, "fault")
    BY <1>8 DEF SchedulerEnds
  <2>2. Begun(s, g)
    BY BegunSelf, BegunUnstarted
  <2> HIDE DEF s
  <2> QED BY <2>1, <2>2, AloneUnowned, RunContext DEF Causes
<1> QED BY <1>1, <1>2, <1>3, <1>4, <1>5, <1>6, <1>7, <1>8

-----------------------------------------------------------------------------
(* The actions that change a generation                                     *)

LEMMA RoundMine ==
  ASSUME ConvInv, ContextInv, NEW g \in Gens, conv.gens[g].phase # "ended", conv.slots # <<>>
  PROVE  conv.gens[g].phase = "tools"
<1>1. PICK h \in Gens : conv.gens[h].phase = "tools"
  BY DEF ContextInv, RoundOpen, InRound
<1>2. h = g
  BY <1>1, InvFacts
<1> QED BY <1>1, <1>2

\* The generation goes on, as u.
LEMMA MoveContext ==
  ASSUME ConvInv, ContextInv, Forward(conv, conv'), CompsKnown', NEW g \in Gens,
         conv.gens[g].phase # "ended", NEW u, conv'.gens = Put(conv.gens, g, u),
         u.fly # "prepared" \/ u.seen = Messages(conv'.entries),
         conv'.slots # <<>> => u.phase = "tools"
  PROVE  ContextKept
<1>1. Gens' = Gens /\ conv'.gens[g] = u /\ \A h \in Gens \ {g} : conv'.gens[h] = conv.gens[h]
  BY DEF Gens, Put
<1>2. \A h \in Gens \ {g} : conv.gens[h].fly = "none"
  BY OthersUnread
<1>3. ContextCurrent'
  BY <1>1, <1>2 DEF ContextCurrent
<1>4. RoundOpen'
  BY <1>1 DEF RoundOpen, InRound
<1> QED BY <1>3, <1>4, ContextStep

\* ... when no compaction is for it.
LEMMA MoveAlone ==
  ASSUME ConvInv, ContextInv, Forward(conv, conv'), Alone, conv'.comps = conv.comps, NEW g \in Gens,
         conv.gens[g].phase # "ended", NEW u, conv'.gens = Put(conv.gens, g, u),
         u.fly # "prepared" \/ u.seen = Messages(conv'.entries),
         conv'.slots # <<>> => u.phase = "tools"
  PROVE  ContextKept
  BY CompsStay, MoveContext

LEMMA CompsAre ==
  ASSUME ConvInv
  PROVE  /\ conv.comps \in Seq(Comp) /\ Comps = 1..Len(conv.comps) /\ Len(conv.comps) \in Nat
         /\ \A k \in Comps : conv.comps[k] \in Comp
  BY InvFacts DEF Conv, Comps

\* ... and one more compaction starts, for it or for nobody.
LEMMA MoveCreates ==
  ASSUME ConvInv, ContextInv, Forward(conv, conv'), Alone, NEW owner, NEW background,
         conv'.comps = Append(conv.comps, NewComp(owner, background)), NEW g \in Gens,
         conv.gens[g].phase # "ended", NEW u, conv'.gens = Put(conv.gens, g, u),
         u.fly # "prepared", conv'.slots = <<>>,
         \/ owner = 0
         \/ /\ owner = g /\ u.phase = "prepare" /\ u.status = "waiting"
            /\ u.comp = Len(conv.comps) + 1
  PROVE  ContextKept
<1> DEFINE c == NewComp(owner, background)
<1>0. Len(conv.comps) \in Nat
  BY CompsAre
<1>n. PICK n \in Nat : n = Len(conv.comps)
  BY <1>0
<1>1. conv.comps \in Seq(Comp) /\ Comps = 1..n
  BY <1>n, CompsAre
<1>2. Comps' = 1..(n + 1) /\ conv'.comps[n + 1] = c /\ \A k \in Comps : conv'.comps[k] = conv.comps[k]
  BY <1>1, <1>n DEF Comps
<1>3. c.cut = 0 /\ c.owner = owner /\ c.phase = "select"
  BY DEF NewComp
<1> HIDE DEF c
<1>4. Len(conv.entries) <= Len(conv'.entries) /\ Len(conv.entries) \in Nat /\ Len(conv'.entries) \in Nat
  BY InvFacts DEF Forward, Starts, Conv
<1>5. ASSUME NEW k \in Comps
      PROVE  /\ conv'.comps[k].cut <= Len(conv'.entries)
             /\ ~(LiveComp(conv', k) /\ conv'.comps[k].owner # 0)
  <2>1. conv.comps[k] \in Comp /\ conv'.comps[k] = conv.comps[k]
    BY <1>2, CompsAre
  <2>2. conv.comps[k].cut \in Nat /\ conv.comps[k].cut <= Len(conv.entries)
    BY <2>1 DEF Comp, ContextInv, CompsKnown
  <2> QED BY <1>4, <2>1, <2>2 DEF Alone, LiveComp
<1>6. /\ conv'.comps[n + 1].cut <= Len(conv'.entries)
      /\ LiveComp(conv', n + 1) /\ conv'.comps[n + 1].owner # 0 => Awaited(n + 1)'
  <2>1. conv'.comps[n + 1].cut <= Len(conv'.entries)
    BY <1>2, <1>3, <1>4
  <2>2. ASSUME owner # 0 PROVE Awaited(n + 1)'
    <3>1. owner = g /\ u.phase = "prepare" /\ u.status = "waiting" /\ u.comp = n + 1
      BY <1>n, <2>2
    <3>2. Gens' = Gens /\ conv'.gens[g] = u
      BY DEF Gens, Put
    <3> QED BY <1>2, <1>3, <3>1, <3>2 DEF Awaited, Parked
  <2> QED BY <1>2, <1>3, <2>1, <2>2
<1>7. \A k \in Comps' : k \in Comps \/ k = n + 1
  BY <1>1, <1>2
<1>8. CompsKnown'
  BY <1>5, <1>6, <1>7 DEF CompsKnown
<1> QED BY <1>8, MoveContext

LEMMA AloneUnparked ==
  ASSUME ConvInv, ContextInv, NEW g \in Gens, conv.gens[g].phase # "ended", ~Parked(conv.gens[g])
  PROVE  Alone
<1> SUFFICES ASSUME NEW k \in Comps, LiveComp(conv, k), conv.comps[k].owner # 0 PROVE FALSE
  BY DEF Alone
<1>1. g = conv.run.task
  BY InvFacts
<1> QED BY <1>1, OwnerParked

LEMMA ReserveContext == ASSUME ConvInv, ContextInv, NEW g \in Gens, Reserve(g) PROVE ContextKept
<1> DEFINE t == conv.gens[g]
           u == [t EXCEPT !.status = "running"]
<1>1. /\ t.phase # "ended" /\ t.status # "running" /\ (t.marked \/ t.status = "waiting" => ~OwnsLive(conv, g))
      /\ conv' = WithGen(conv, g, u)
  BY DEF Reserve, WithGen, Put
<1>2. t \in Gen /\ TaskSound(t, settings.retries) /\ conv \in Conv
  BY <1>1, LiveFacts, InvFacts
<1>3. Alone
  BY <1>1, AloneUnowned, AloneUnparked DEF Parked
<1>4. conv.slots # <<>> => t.phase = "tools"
  BY <1>1, RoundMine
<1> HIDE DEF t
<1>5. u \in Gen /\ u.phase = t.phase /\ u.fly = "none"
  BY <1>1, <1>2 DEF Gen, Statuses, TaskSound
<1> HIDE DEF u
<1>6. /\ conv' \in Conv /\ conv'.gens = Put(conv.gens, g, u) /\ conv'.entries = conv.entries
      /\ conv'.slots = conv.slots /\ conv'.comps = conv.comps /\ conv'.inbox = conv.inbox
  BY <1>1, <1>2, <1>5, WithGenTyped
<1>7. Forward(conv, conv')
  BY <1>2, <1>6, ForwardSame
<1> QED BY <1>1, <1>3, <1>4, <1>5, <1>6, <1>7, MoveAlone DEF t

LEMMA PrepareReadsContext == ASSUME ConvInv, ContextInv, NEW g \in Gens, PrepareReads(g) PROVE ContextKept
<1> DEFINE t == conv.gens[g]
           seen == Messages(conv.entries)
           u == [t EXCEPT !.fly = "prepared", !.seen = seen]
<1>1. t.phase = "prepare" /\ t.status = "running" /\ ~t.marked /\ conv' = WithGen(conv, g, u)
  BY DEF PrepareReads, InPhase, WithGen, Put
<1>2. t \in Gen /\ conv \in Conv /\ seen \in Seq(Nat)
  BY <1>1, LiveFacts, InvFacts, MessagesTyped
<1>3. Alone
  BY <1>1, AloneRunning
<1>4. conv.slots = <<>>
  BY <1>1, RoundMine
<1> HIDE DEF t, seen
<1>5. u \in Gen /\ u.seen = seen
  BY <1>2 DEF Gen
<1> HIDE DEF u
<1>6. /\ conv' \in Conv /\ conv'.gens = Put(conv.gens, g, u) /\ conv'.entries = conv.entries
      /\ conv'.slots = conv.slots /\ conv'.comps = conv.comps /\ conv'.inbox = conv.inbox
  BY <1>1, <1>2, <1>5, WithGenTyped
<1>7. Forward(conv, conv')
  BY <1>2, <1>6, ForwardSame
<1>8. u.seen = Messages(conv'.entries)
  BY <1>5, <1>6 DEF seen
<1>9. t.phase # "ended"
  BY <1>1
<1> QED BY <1>3, <1>4, <1>6, <1>7, <1>8, <1>9, MoveAlone DEF t

LEMMA PrepareBlocksContext == ASSUME ConvInv, ContextInv, NEW g \in Gens, PrepareBlocks(g) PROVE ContextKept
<1> DEFINE t == conv.gens[g]
           k == Len(conv.comps) + 1
           m == Moved(conv, g, "prepare", "waiting")
           v == Going(t, "prepare", "waiting")
           n == NewComp(g, FALSE)
           c == WithComp(m, n)
           u == [c.gens[g] EXCEPT !.comp = k, !.cause = "threshold"]
<1>1. t.phase = "prepare" /\ t.status = "running" /\ ~t.marked
  BY DEF PrepareBlocks, InPhase
<1>2. t \in Gen /\ conv \in Conv /\ g \in DOMAIN conv.gens /\ g \in Nat /\ k \in Nat
  BY <1>1, LiveFacts, InvFacts, CompsAre DEF Gens
<1>3. CreateCompaction(m, g, FALSE) = c /\ n \in Comp
  BY <1>2, CreateCompactionIs
<1>4. conv' = WithGen(c, g, u)
  <2>1. conv' = [CreateCompaction(m, g, FALSE) EXCEPT !.gens[g] = [@ EXCEPT !.comp = k, !.cause = "threshold"]]
    BY DEF PrepareBlocks
  <2> HIDE DEF m, n, c
  <2> QED BY <1>3, <2>1 DEF WithGen, Put
<1>5. Alone /\ conv.slots = <<>>
  BY <1>1, AloneRunning, RoundMine
<1>6. /\ m \in Conv /\ m.gens = Put(conv.gens, g, v) /\ m.gens[g] = v /\ v \in Gen
      /\ m.entries = conv.entries /\ m.inbox = conv.inbox /\ m.slots = conv.slots /\ m.comps = conv.comps
  BY <1>2, MovedTyped DEF Phases, Statuses
<1>7. v.phase = "prepare" /\ v.fly = "none" /\ v.status = "waiting"
  BY <1>2, GoingTyped DEF Phases, Statuses
<1> HIDE DEF t, m, v, n
<1>8. /\ c \in Conv /\ c.gens = m.gens /\ c.entries = m.entries /\ c.inbox = m.inbox /\ c.slots = m.slots
      /\ c.comps = Append(m.comps, n)
  <2>1. c.comps = Append(m.comps, n)
    BY <1>6 DEF WithComp, Conv
  <2> QED BY <1>3, <1>6, <2>1, CompactionCreated
<1> HIDE DEF c, k
<1>9. u \in Gen /\ u.phase = "prepare" /\ u.fly = "none" /\ u.status = "waiting" /\ u.comp = k
  BY <1>2, <1>6, <1>7, <1>8 DEF Gen
<1> HIDE DEF u
<1>10. /\ conv' \in Conv /\ conv'.gens = Put(conv.gens, g, u) /\ conv'.entries = conv.entries
       /\ conv'.inbox = conv.inbox /\ conv'.slots = <<>> /\ conv'.comps = Append(conv.comps, n)
  <2>1. c \in Conv /\ c.gens = Put(conv.gens, g, v)
    BY <1>6, <1>8
  <2>2. /\ conv' \in Conv /\ conv'.gens = Put(conv.gens, g, u) /\ conv'.entries = c.entries
        /\ conv'.inbox = c.inbox /\ conv'.slots = c.slots /\ conv'.comps = c.comps
    <3>1. /\ conv' \in Conv /\ conv'.gens = Put(c.gens, g, u) /\ conv'.entries = c.entries
          /\ conv'.inbox = c.inbox /\ conv'.slots = c.slots /\ conv'.comps = c.comps
      BY <1>4, <1>9, <2>1, WithGenTyped
    <3>2. conv.gens \in Seq(Gen)
      BY <1>2 DEF Conv
    <3> QED BY <1>2, <2>1, <3>1, <3>2, PutTwice
  <2> QED BY <1>5, <1>6, <1>8, <2>2
<1>11. Forward(conv, conv')
  BY <1>2, <1>10, ForwardSame
<1>12. conv.gens[g].phase # "ended" /\ u.comp = Len(conv.comps) + 1 /\ u.fly # "prepared"
  BY <1>1, <1>9 DEF t, k
<1> QED BY <1>5, <1>9, <1>10, <1>11, <1>12, MoveCreates DEF n

LEMMA PrepareCommitsContext == ASSUME ConvInv, ContextInv, NEW g \in Gens, PrepareCommits(g) PROVE ContextKept
<1> DEFINE t == conv.gens[g]
           v == Going(t, "request", "running")
           m == Moved(conv, g, "request", "running")
           u == [m.gens[g] EXCEPT !.cause = ""]
           s == WithGen(m, g, u)
           n == NewComp(0, TRUE)
           c == WithComp(s, n)
<1>1. t.phase = "prepare" /\ t.status = "running" /\ (conv' = s \/ conv' = CreateCompaction(s, 0, TRUE))
  <2>1. s = [m EXCEPT !.gens[g] = [@ EXCEPT !.cause = ""]]
    <3> HIDE DEF m
    <3> QED BY DEF WithGen, Put
  <2> QED BY <2>1 DEF PrepareCommits, InPhase
<1>2. (conv' = s \/ conv' = c) /\ n \in Comp
  BY <1>1, CreateCompactionIs
<1>3. t \in Gen /\ conv \in Conv /\ g \in DOMAIN conv.gens
  BY <1>1, LiveFacts, InvFacts DEF Gens
<1>4. Alone /\ conv.slots = <<>>
  BY <1>1, AloneRunning, RoundMine
<1>5. /\ m \in Conv /\ m.gens = Put(conv.gens, g, v) /\ m.gens[g] = v /\ v \in Gen
      /\ m.entries = conv.entries /\ m.inbox = conv.inbox
      /\ m.slots = conv.slots /\ m.comps = conv.comps
  BY <1>3, MovedTyped DEF Phases, Statuses
<1>6. v.phase = "request" /\ v.fly = "none"
  BY <1>3, GoingTyped DEF Phases, Statuses
<1> HIDE DEF t, m, v
<1>7. u \in Gen /\ u.fly = "none"
  BY <1>5, <1>6 DEF Gen
<1> HIDE DEF u, n
<1>8. /\ s \in Conv /\ s.gens = Put(conv.gens, g, u) /\ s.entries = conv.entries
      /\ s.inbox = conv.inbox /\ s.slots = <<>> /\ s.comps = conv.comps
  <2>1. /\ s \in Conv /\ s.gens = Put(conv.gens, g, u) /\ s.entries = m.entries
        /\ s.inbox = m.inbox /\ s.slots = m.slots /\ s.comps = m.comps
    <3>1. /\ s \in Conv /\ s.gens = Put(m.gens, g, u) /\ s.entries = m.entries
          /\ s.inbox = m.inbox /\ s.slots = m.slots /\ s.comps = m.comps
      BY <1>5, <1>7, WithGenTyped
    <3>2. conv.gens \in Seq(Gen)
      BY <1>3 DEF Conv
    <3> QED BY <1>3, <1>5, <3>1, <3>2, PutTwice
  <2> QED BY <1>4, <1>5, <2>1
<1> HIDE DEF s
<1>9. /\ c \in Conv /\ c.gens = Put(conv.gens, g, u) /\ c.entries = conv.entries
      /\ c.inbox = conv.inbox /\ c.slots = <<>> /\ c.comps = Append(conv.comps, n)
  <2>1. c.comps = Append(conv.comps, n)
    BY <1>8 DEF WithComp, Conv
  <2> QED BY <1>2, <1>8, <2>1, CompactionCreated
<1> HIDE DEF c
<1>10. Forward(conv, conv')
  BY <1>2, <1>3, <1>8, <1>9, ForwardSame
<1>11. conv.gens[g].phase # "ended" /\ u.fly # "prepared"
  BY <1>1, <1>7 DEF t
<1>12. CASE conv' = s
  BY <1>4, <1>8, <1>10, <1>11, <1>12, MoveAlone
<1>13. CASE conv' = c
  BY <1>4, <1>9, <1>10, <1>11, <1>13, MoveCreates DEF n
<1> QED BY <1>2, <1>12, <1>13

LEMMA RequestContext == ASSUME ConvInv, ContextInv, NEW g \in Gens, Request(g) PROVE ContextKept
<1> DEFINE t == conv.gens[g]
           k == t.sent + 1
           u == [t EXCEPT !.fly = "streaming", !.sent = k]
           c == ConvertPartial(conv, g)
           s == [c EXCEPT !.partial = "none"]
<1>1. /\ t.phase = "request" /\ t.status = "running"
      /\ conv' = [c EXCEPT !.partial = "none",
                    !.gens[g] = [@ EXCEPT !.fly = "streaming", !.sent = conv.gens[g].sent + 1]]
  BY DEF Request, InPhase
<1>2. t \in Gen /\ conv \in Conv /\ Begun(c, g) /\ c.inbox = conv.inbox
  <2>1. t \in Gen /\ conv \in Conv
    BY InvFacts
  <2>2. Begun(c, g)
    BY <1>1, BegunConvert
  <2>3. c.inbox = conv.inbox
    BY <2>1 DEF ConvertPartial, Say, AppendEntry, Conv
  <2> QED BY <2>1, <2>2, <2>3
<1> HIDE DEF c
<1>3. /\ s \in Conv /\ s.entries = c.entries /\ s.gens = conv.gens /\ s.inbox = conv.inbox
      /\ s.slots = conv.slots /\ s.comps = conv.comps
  BY <1>2 DEF Begun, Ready, Conv
<1>4. conv' = WithGen(s, g, u)
  <2>1. conv' = [s EXCEPT !.gens[g] = [@ EXCEPT !.fly = "streaming", !.sent = conv.gens[g].sent + 1]]
    BY <1>1, <1>2 DEF Begun, Ready, Conv
  <2>2. s.gens[g] = t
    BY <1>3
  <2> HIDE DEF s
  <2>3. conv' = [s EXCEPT !.gens[g] = u]
    BY <1>3, <2>1, <2>2
  <2> HIDE DEF u
  <2> QED BY <2>3 DEF WithGen, Put
<1>5. Alone /\ conv.slots = <<>>
  BY <1>1, AloneRunning, RoundMine
<1>6. k \in Nat
  <2>1. t.sent \in Nat
    BY <1>2 DEF Gen
  <2> QED BY <2>1
<1> HIDE DEF t, k, s
<1>7. u \in Gen /\ u.fly = "streaming"
  BY <1>2, <1>6 DEF Gen
<1> HIDE DEF u
<1>8. /\ conv' \in Conv /\ conv'.gens = Put(conv.gens, g, u) /\ conv'.entries = c.entries
      /\ conv'.inbox = conv.inbox /\ conv'.slots = <<>> /\ conv'.comps = conv.comps
  BY <1>3, <1>4, <1>5, <1>7, WithGenTyped
<1>9. Forward(conv, conv')
  <2>1. c \in Conv /\ Forward(conv, c)
    BY <1>2 DEF Begun, Ready
  <2>2. Forward(c, conv')
    BY <1>2, <1>8, <2>1, ForwardSame
  <2> QED BY <1>2, <2>1, <2>2, ForwardTrans
<1>10. conv.gens[g].phase # "ended" /\ u.fly # "prepared"
  BY <1>1, <1>7 DEF t
<1> QED BY <1>5, <1>8, <1>9, <1>10, MoveAlone

LEMMA DeferredContext == ASSUME ConvInv, ContextInv, NEW g \in Gens, Deferred(g) PROVE ContextKept
<1> DEFINE t == conv.gens[g]
           u == Going(t, "poll", "sleeping")
           m == Moved(conv, g, "poll", "sleeping")
<1>1. /\ t.phase \notin {"ended", "tools"} /\ t.status = "running"
      /\ conv' = WithPartial(m, "none")
  BY DEF Deferred, Answered, InPhase, WithPartial
<1>2. t \in Gen /\ conv \in Conv /\ g \in DOMAIN conv.gens
  BY <1>1, LiveFacts, InvFacts DEF Gens
<1>3. Alone /\ conv.slots = <<>>
  BY <1>1, AloneRunning, RoundMine
<1>4. /\ m \in Conv /\ m.gens = Put(conv.gens, g, u) /\ m.entries = conv.entries /\ m.inbox = conv.inbox
      /\ m.slots = conv.slots /\ m.comps = conv.comps
  BY <1>2, MovedTyped DEF Phases, Statuses
<1> HIDE DEF m, t
<1>5. u.fly = "none"
  BY <1>2, GoingTyped DEF Phases, Statuses
<1> HIDE DEF u
<1>6. /\ conv' \in Conv /\ conv'.gens = Put(conv.gens, g, u) /\ conv'.entries = conv.entries
      /\ conv'.inbox = conv.inbox /\ conv'.slots = <<>> /\ conv'.comps = conv.comps
  BY <1>1, <1>3, <1>4, WithPartialTyped
<1>7. Forward(conv, conv')
  BY <1>2, <1>6, ForwardSame
<1>8. conv.gens[g].phase # "ended" /\ u.fly # "prepared"
  BY <1>1, <1>5 DEF t
<1> QED BY <1>3, <1>6, <1>7, <1>8, MoveAlone

LEMMA RetryContext == ASSUME ConvInv, ContextInv, NEW g \in Gens, Retry(g) PROVE ContextKept
<1> DEFINE t == conv.gens[g]
           phase == IF t.poll THEN "poll" ELSE "prepare"
           m == Moved(conv, g, phase, "running")
           k == t.attempt + 1
           u == [m.gens[g] EXCEPT !.attempt = k, !.poll = FALSE]
           v == Going(t, phase, "running")
<1>1. /\ t.phase = "retry" /\ t.status = "running"
      /\ conv' = [m EXCEPT !.gens[g] = [@ EXCEPT !.attempt = k, !.poll = FALSE]]
  BY DEF Retry, InPhase
<1>2. conv' = WithGen(m, g, u)
  <2>1. conv' = [m EXCEPT !.gens[g] = u]
    BY <1>1
  <2> HIDE DEF m, u
  <2> QED BY <2>1 DEF WithGen, Put
<1>3. t \in Gen /\ conv \in Conv /\ g \in DOMAIN conv.gens
  BY <1>1, LiveFacts, InvFacts DEF Gens
<1>4. Alone /\ conv.slots = <<>>
  BY <1>1, AloneRunning, RoundMine
<1>5. phase \in Phases /\ "running" \in Statuses /\ k \in Nat
  <2>1. t.attempt \in Nat
    BY <1>3 DEF Gen
  <2> QED BY <2>1 DEF Phases, Statuses
<1> HIDE DEF phase
<1>6. /\ m \in Conv /\ m.gens = Put(conv.gens, g, v) /\ m.gens[g] = v /\ v \in Gen
      /\ m.entries = conv.entries /\ m.inbox = conv.inbox
      /\ m.slots = conv.slots /\ m.comps = conv.comps
  BY <1>3, <1>5, MovedTyped
<1> HIDE DEF m, t
<1>7. v.fly = "none"
  BY <1>3, <1>5, GoingTyped
<1> HIDE DEF v, k
<1>8. u \in Gen /\ u.fly = "none"
  BY <1>5, <1>6, <1>7 DEF Gen
<1> HIDE DEF u
<1>9. /\ conv' \in Conv /\ conv'.gens = Put(conv.gens, g, u) /\ conv'.entries = conv.entries
      /\ conv'.inbox = conv.inbox /\ conv'.slots = <<>> /\ conv'.comps = conv.comps
  <2>1. /\ conv' \in Conv /\ conv'.gens = Put(conv.gens, g, u) /\ conv'.entries = m.entries
        /\ conv'.inbox = m.inbox /\ conv'.slots = m.slots /\ conv'.comps = m.comps
    BY <1>2, <1>3, <1>6, <1>8, Amended
  <2> QED BY <1>4, <1>6, <2>1
<1>10. Forward(conv, conv')
  BY <1>3, <1>9, ForwardSame
<1>11. conv.gens[g].phase # "ended" /\ u.fly # "prepared"
  BY <1>1, <1>8 DEF t
<1> QED BY <1>4, <1>9, <1>10, <1>11, MoveAlone

\* An attempt that failed is retried: said as much, or kept a partial.
LEMMA RetryOfContext ==
  ASSUME ConvInv, ContextInv, NEW g \in Gens, conv.gens[g].phase \notin {"ended", "tools"}, Alone,
         NEW s, Begun(s, g), NEW poll \in BOOLEAN, NEW u, u = Retried(conv.gens[g], poll),
         conv' = RetryOf(s, g, u)
  PROVE  ContextKept
<1>1. /\ s \in Conv /\ s.gens = conv.gens /\ s.comps = conv.comps /\ s.slots = conv.slots
      /\ Forward(conv, s) /\ g \in DOMAIN s.gens /\ conv \in Conv
  BY InvFacts DEF Begun, Ready, Gens
<1>2. conv.slots = <<>>
  BY RoundMine
<1>3. u \in Gen /\ u.fly = "none"
  BY LiveFacts, RetriedTyped
<1>4. /\ conv' \in Conv /\ conv'.gens = Put(s.gens, g, u) /\ conv'.entries = s.entries
      /\ conv'.slots = s.slots /\ conv'.comps = s.comps
  BY <1>1, <1>3, RetryOfTyped
<1>5. conv'.inbox = s.inbox
  <2> DEFINE m == Moved(s, g, "retry", "sleeping")
             p == WithPartial(m, "none")
  <2>1. m \in Conv /\ m.inbox = s.inbox
    BY <1>1, MovedTyped DEF Phases, Statuses
  <2> HIDE DEF m
  <2>2. p \in Conv /\ p.inbox = s.inbox
    BY <2>1, WithPartialTyped
  <2>3. conv' = WithGen(p, g, u)
    BY DEF RetryOf, p, m
  <2> HIDE DEF p
  <2> QED BY <1>3, <2>2, <2>3, WithGenTyped
<1>6. Forward(conv, conv')
  <2>1. Forward(s, conv')
    BY <1>1, <1>4, <1>5, ForwardSame
  <2> QED BY <1>1, <2>1, ForwardTrans
<1>7. conv'.gens = Put(conv.gens, g, u) /\ conv'.slots = <<>> /\ conv'.comps = conv.comps
  BY <1>1, <1>2, <1>4
<1> QED BY <1>3, <1>6, <1>7, MoveAlone

LEMMA AnsweredAlone ==
  ASSUME ConvInv, ContextInv, NEW g \in Gens, Answered(g)
  PROVE  /\ Alone /\ conv.slots = <<>> /\ conv.gens[g].phase \notin {"ended", "tools"}
         /\ ~SaidBy(conv.entries, g, conv.gens[g].sent)
<1>1. conv.gens[g].phase \notin {"ended", "tools"} /\ conv.gens[g].status = "running"
  BY DEF Answered, InPhase
<1> QED BY <1>1, AloneRunning, RoundMine, AnsweredFacts

\* An answer at the end of the transcript declares no head.
LEMMA AnswerAppended ==
  ASSUME ConvInv, NEW e \in EntryType, e.kind \in SaidKinds, conv' \in Conv,
         conv'.entries = Append(conv.entries, e), conv'.inbox = conv.inbox
  PROVE  Forward(conv, conv')
<1>1. conv \in Conv /\ e.kind # "summary"
  BY InvFacts DEF SaidKinds
<1> QED BY <1>1, ForwardAppend

LEMMA StartToolRoundContext ==
  ASSUME ConvInv, ContextInv, NEW g \in Gens, NEW n \in 1..MaxCalls, StartToolRound(g, n), ConvInv'
  PROVE  ContextKept
<1> DEFINE t == conv.gens[g]
           m == Moved(conv, g, "tools", "waiting")
           u == Going(t, "tools", "waiting")
           e == [Entry("calls", g, t.sent) EXCEPT !.calls = n]
           a == AppendEntry(m, e)
           slots == [c \in 1..n |-> NewSlot(IF settings.sequential /\ c > 1 THEN "pending" ELSE "call")]
<1>1. conv' = [a EXCEPT !.partial = "none", !.slots = slots,
                        !.run.turns = IF conv.run.task = g THEN @ + 1 ELSE @]
  BY Zenon DEF StartToolRound
<1>2. Answered(g)
  BY Zenon DEF StartToolRound
<1>3. Alone /\ t \in Gen /\ conv \in Conv /\ g \in DOMAIN conv.gens /\ g \in Nat /\ conv' \in Conv
      /\ t.phase # "ended"
  <2> HIDE DEF a, slots
  <2>1. conv' \in Conv
    BY DEF ConvInv, TypeOK
  <2> QED BY <1>2, <2>1, AnsweredFacts, AnsweredAlone
<1>4. t.sent \in Nat /\ n \in Nat
  <2>1. t.sent \in Nat
    BY <1>3 DEF Gen
  <2>2. n \in Nat
    BY BoundsAssumption
  <2> QED BY <2>1, <2>2
<1>5. /\ m \in Conv /\ m.gens = Put(conv.gens, g, u) /\ m.entries = conv.entries
      /\ m.inbox = conv.inbox /\ m.comps = conv.comps
  BY <1>3, MovedTyped DEF Phases, Statuses
<1>6. e \in EntryType /\ e.kind \in SaidKinds
  BY <1>3, <1>4 DEF Entry, EntryType, SaidKinds
<1> HIDE DEF m, e
<1>7. /\ a \in Conv /\ a.gens = m.gens /\ a.entries = Append(m.entries, e) /\ a.inbox = m.inbox
      /\ a.comps = m.comps
  BY <1>5, <1>6, AppendTyped
<1>8. u.phase = "tools" /\ u.fly = "none"
  BY <1>3, GoingTyped DEF Phases, Statuses
<1> HIDE DEF a, slots, u, t
<1>9. /\ conv'.gens = a.gens /\ conv'.entries = a.entries /\ conv'.inbox = a.inbox /\ conv'.comps = a.comps
  BY <1>1, <1>7 DEF Conv
<1>10. Forward(conv, conv')
  BY <1>3, <1>5, <1>6, <1>7, <1>9, AnswerAppended
<1>11. conv'.gens = Put(conv.gens, g, u) /\ conv'.comps = conv.comps
  BY <1>5, <1>7, <1>9
<1> QED BY <1>3, <1>8, <1>10, <1>11, MoveAlone DEF t

LEMMA OverflowContext ==
  ASSUME ConvInv, ContextInv, NEW g \in Gens, Overflow(g), ConvInv'
  PROVE  ContextKept
<1> DEFINE t == conv.gens[g]
           k == Len(conv.comps) + 1
           m == Moved(conv, g, "prepare", "waiting")
           v == Going(t, "prepare", "waiting")
           e == Entry("error", g, t.sent)
           a == AppendEntry(m, e)
           n == NewComp(g, FALSE)
           c == WithComp(a, n)
           u == [c.gens[g] EXCEPT !.comp = k, !.cause = "overflow"]
<1>1. Answered(g) /\ conv' \in Conv
  BY DEF Overflow, ConvInv, TypeOK
<1>2. t \in Gen /\ conv \in Conv /\ g \in DOMAIN conv.gens /\ g \in Nat /\ Alone /\ conv.slots = <<>>
      /\ t.phase # "ended" /\ k \in Nat
  BY <1>1, AnsweredFacts, AnsweredAlone, CompsAre
<1>3. t.sent \in Nat
  BY <1>2 DEF Gen
<1>4. /\ m \in Conv /\ m.gens = Put(conv.gens, g, v) /\ m.gens[g] = v /\ m.entries = conv.entries
      /\ m.inbox = conv.inbox /\ m.slots = conv.slots /\ m.comps = conv.comps /\ v \in Gen
  BY <1>2, MovedTyped DEF Phases, Statuses
<1>5. v.sent = t.sent /\ v.phase = "prepare" /\ v.status = "waiting" /\ v.fly = "none"
  BY <1>2, GoingTyped DEF Phases, Statuses
<1>6. Say(m, g, "error") = a
  <2> HIDE DEF m, v
  <2> QED BY <1>4, <1>5 DEF Say
<1>7. CreateCompaction(a, g, FALSE) = c /\ n \in Comp
  BY <1>2, CreateCompactionIs
<1>8. conv' = [c EXCEPT !.partial = "none", !.gens[g] = [@ EXCEPT !.comp = k, !.cause = "overflow"]]
  <2> HIDE DEF k, a, c
  <2> QED BY <1>6, <1>7 DEF Overflow, k
<1>9. e \in EntryType /\ e.kind = "error"
  BY <1>2, <1>3, EntryTyped DEF SaidKinds
<1> HIDE DEF m, v, e, n, k
<1>10. /\ a \in Conv /\ a.gens = m.gens /\ a.entries = Append(m.entries, e) /\ a.inbox = m.inbox
       /\ a.slots = m.slots /\ a.comps = m.comps
  BY <1>4, <1>9, AppendTyped
<1> HIDE DEF a
<1>11. /\ c \in Conv /\ c.gens = a.gens /\ c.entries = a.entries /\ c.inbox = a.inbox
       /\ c.slots = a.slots /\ c.comps = Append(a.comps, n)
  <2>1. c.comps = Append(a.comps, n)
    BY <1>10 DEF WithComp, Conv
  <2> QED BY <1>7, <1>10, <2>1, CompactionCreated
<1> HIDE DEF c
<1>12. c.gens = Put(conv.gens, g, v) /\ c.gens[g] = v
  BY <1>4, <1>10, <1>11
<1>13. u \in Gen /\ u.phase = "prepare" /\ u.status = "waiting" /\ u.comp = k /\ u.fly = "none"
  BY <1>2, <1>4, <1>5, <1>12 DEF Gen
<1>14. /\ conv'.gens = Put(c.gens, g, u) /\ conv'.entries = c.entries /\ conv'.inbox = c.inbox
       /\ conv'.slots = c.slots /\ conv'.comps = c.comps
  <2>1. conv' = [c EXCEPT !.partial = "none", !.gens[g] = u]
    BY <1>8, <1>11 DEF Conv
  <2> HIDE DEF u
  <2> QED BY <1>11, <2>1 DEF Put, Conv
<1> HIDE DEF u
<1>15. conv'.gens = Put(conv.gens, g, u)
  <2>1. conv.gens \in Seq(Gen)
    BY <1>2 DEF Conv
  <2> QED BY <1>2, <1>12, <1>14, <2>1, PutTwice
<1>16. Forward(conv, conv')
  <2>1. conv'.entries = Append(conv.entries, e) /\ conv'.inbox = conv.inbox /\ e.kind \in SaidKinds
    BY <1>4, <1>9, <1>10, <1>11, <1>14 DEF SaidKinds
  <2> QED BY <1>1, <1>9, <2>1, AnswerAppended
<1>17. conv'.slots = <<>> /\ conv'.comps = Append(conv.comps, n)
  BY <1>2, <1>4, <1>10, <1>11, <1>14
<1>18. conv.gens[g].phase # "ended" /\ u.comp = Len(conv.comps) + 1 /\ u.fly # "prepared"
  BY <1>2, <1>13 DEF t, k
<1> QED BY <1>2, <1>13, <1>15, <1>16, <1>17, <1>18, MoveCreates DEF n

LEMMA NextCallContext ==
  ASSUME ConvInv, ContextInv, NEW g \in Gens, NextCall(g), ConvInv'
  PROVE  ContextKept
<1> DEFINE t == conv.gens[g]
           m == Moved(conv, g, "tools", "waiting")
           u == Going(t, "tools", "waiting")
           c == Min(Pending(conv))
           v == NewSlot("call")
<1>1. t.phase = "tools" /\ t.status = "running" /\ conv' = [m EXCEPT !.slots[c] = v]
  BY DEF NextCall, InPhase
<1>2. t \in Gen /\ conv \in Conv /\ g \in DOMAIN conv.gens /\ conv' \in Conv /\ t.phase # "ended"
  <2> HIDE DEF m, c, v
  <2>1. conv' \in Conv
    BY DEF ConvInv, TypeOK
  <2> QED BY <1>1, <2>1, LiveFacts, InvFacts DEF Gens
<1>3. Alone
  <2> HIDE DEF m, c, v
  <2> QED BY <1>1, <1>2, AloneRunning
<1>4. /\ m \in Conv /\ m.gens = Put(conv.gens, g, u) /\ m.entries = conv.entries
      /\ m.inbox = conv.inbox /\ m.comps = conv.comps
  BY <1>2, MovedTyped DEF Phases, Statuses
<1>5. u.phase = "tools" /\ u.fly = "none"
  BY <1>2, GoingTyped DEF Phases, Statuses
<1> HIDE DEF m, c, v, u, t
<1>6. /\ conv'.gens = Put(conv.gens, g, u) /\ conv'.entries = conv.entries
      /\ conv'.inbox = conv.inbox /\ conv'.comps = conv.comps
  BY <1>1, <1>4 DEF Conv
<1>7. Forward(conv, conv')
  BY <1>2, <1>6, ForwardSame
<1> QED BY <1>2, <1>3, <1>5, <1>6, <1>7, MoveAlone DEF t

LEMMA FinishContext ==
  ASSUME ConvInv, ContextInv, NEW g \in Gens, Finish(g), ConvInv'
  PROVE  ContextKept
<1> DEFINE t == conv.gens[g]
           m == Moved(conv, g, "drain", "waiting")
           w == Going(t, "drain", "waiting")
           u == [m.gens[g] EXCEPT !.tasks = TRUE]
           r == [m EXCEPT !.gens[g] = [@ EXCEPT !.tasks = TRUE]]
<1>1. conv' = r \/ conv' = EndAnswered(conv, g)
  BY Zenon DEF Finish
<1>2. t.phase = "finish" /\ t.status = "running"
  BY DEF Finish, InPhase
<1>3. t \in Gen /\ conv \in Conv /\ g \in DOMAIN conv.gens /\ conv' \in Conv /\ t.phase # "ended"
      /\ Alone /\ conv.slots = <<>>
  <2> HIDE DEF r
  <2>1. conv' \in Conv
    BY DEF ConvInv, TypeOK
  <2> QED BY <1>2, <2>1, LiveFacts, InvFacts, AloneRunning, RoundMine DEF Gens
<1>4. CASE conv' = EndAnswered(conv, g)
  <2> HIDE DEF r
  <2> QED BY <1>3, <1>4, BegunSelf, AnsweredContext
<1>5. CASE conv' = r
  <2>1. /\ m \in Conv /\ m.gens = Put(conv.gens, g, w) /\ m.gens[g] = w /\ m.entries = conv.entries
        /\ m.inbox = conv.inbox /\ m.slots = conv.slots /\ m.comps = conv.comps /\ w \in Gen
    BY <1>3, MovedTyped DEF Phases, Statuses
  <2>2. w.fly = "none"
    BY <1>3, GoingTyped DEF Phases, Statuses
  <2>3. r = WithGen(m, g, u)
    <3> HIDE DEF m
    <3> QED BY DEF WithGen, Put
  <2>4. conv' = WithGen(m, g, u)
    BY <1>5, <2>3
  <2> HIDE DEF r, m, w
  <2>5. u \in Gen /\ u.fly = "none"
    BY <2>1, <2>2 DEF Gen
  <2> HIDE DEF u, t
  <2>6. /\ conv'.gens = Put(m.gens, g, u) /\ conv'.entries = m.entries
        /\ conv'.inbox = m.inbox /\ conv'.slots = m.slots /\ conv'.comps = m.comps
    BY <2>1, <2>4, <2>5, WithGenTyped
  <2>7. conv'.gens = Put(conv.gens, g, u)
    <3>1. conv.gens \in Seq(Gen)
      BY <1>3 DEF Conv
    <3> QED BY <1>3, <2>1, <2>6, <3>1, PutTwice
  <2>8. Forward(conv, conv') /\ conv'.slots = <<>> /\ conv'.comps = conv.comps
    BY <1>3, <2>1, <2>6, ForwardSame
  <2> QED BY <1>3, <2>5, <2>7, <2>8, MoveAlone DEF t
<1> QED
  <2> HIDE DEF r
  <2> QED BY <1>1, <1>4, <1>5

LEMMA HoldRunIs ==
  ASSUME ConvInv, NEW g \in Gens, conv.gens[g].phase # "ended", NEW s, Ready(s, g),
         NEW r, r = HoldRun(s, g), r \in Conv
  PROVE  LET c == Settle(s, ToSet(s.run.inputs), "done") IN
         /\ r.gens = Put(conv.gens, g, Going(conv.gens[g], "finish", "running"))
         /\ r.slots = <<>> /\ r.comps = conv.comps /\ r.entries = s.entries /\ r.inbox = s.inbox
         /\ r.subs = c.subs /\ r.run.inputs = <<>> /\ r.run.task = s.run.task
<1> DEFINE u == Going(conv.gens[g], "finish", "running")
           m == Moved(s, g, "finish", "running")
           c == Settle(m, ToSet(s.run.inputs), "done")
<1>1. s \in Conv /\ s.gens = conv.gens /\ s.comps = conv.comps /\ g \in DOMAIN s.gens
  BY DEF Ready, Gens
<1>2. /\ m \in Conv /\ m.gens = Put(conv.gens, g, u) /\ m.entries = s.entries /\ m.inbox = s.inbox
      /\ m.comps = conv.comps /\ m.subs = s.subs /\ m.run = s.run
  BY <1>1, MovedTyped DEF Phases, Statuses
<1>3. r = [c EXCEPT !.run.inputs = <<>>, !.run.answered = TRUE, !.partial = "none", !.slots = <<>>]
  BY DEF HoldRun
<1>4. c.subs = Settle(s, ToSet(s.run.inputs), "done").subs
  BY <1>1, <1>2 DEF Settle, Conv
<1> HIDE DEF u, m
<1>5. Framed(m, c) /\ c.entries = m.entries /\ c.inbox = m.inbox
  BY <1>2, SettleFramed DEF SubStatus
<1> HIDE DEF c
<1>6. c \in Conv /\ c.gens = m.gens /\ c.comps = m.comps /\ c.run = m.run /\ c.run \in Run
  BY <1>5 DEF Framed, Conv
<1>7. /\ r.gens = c.gens /\ r.comps = c.comps /\ r.entries = c.entries /\ r.inbox = c.inbox
      /\ r.subs = c.subs /\ r.slots = <<>> /\ r.run.inputs = <<>> /\ r.run.task = c.run.task
  <2> DEFINE run == [c.run EXCEPT !.inputs = <<>>, !.answered = TRUE]
  <2>1. r = [c EXCEPT !.run = run, !.partial = "none", !.slots = <<>>]
    BY <1>3, <1>6 DEF Conv
  <2>2. run.inputs = <<>> /\ run.task = c.run.task
    BY <1>6 DEF Run
  <2> HIDE DEF run
  <2> QED BY <1>6, <2>1, <2>2 DEF Conv
<1> QED BY <1>2, <1>4, <1>5, <1>6, <1>7 DEF u

LEMMA HoldRunContext ==
  ASSUME ConvInv, ContextInv, NEW g \in Gens, conv.gens[g].phase # "ended", Alone,
         NEW s, Begun(s, g), conv' = HoldRun(s, g), ConvInv'
  PROVE  ContextKept
<1> DEFINE u == Going(conv.gens[g], "finish", "running")
<1>1. conv' \in Conv /\ s \in Conv /\ Forward(conv, s) /\ conv \in Conv
  BY InvFacts DEF ConvInv, TypeOK, Begun, Ready
<1>2. conv'.gens = Put(conv.gens, g, u) /\ conv'.slots = <<>> /\ conv'.comps = conv.comps
  BY <1>1, HoldRunIs DEF Begun
<1>3. u.fly = "none"
  BY LiveFacts, GoingTyped DEF Phases, Statuses
<1> HIDE DEF u
<1>4. Forward(conv, conv')
  <2>1. Forward(s, conv')
    BY <1>1, HoldRunForward
  <2> QED BY <1>1, <2>1, ForwardTrans
<1> QED BY <1>2, <1>3, <1>4, MoveAlone

LEMMA ContinuedContext ==
  ASSUME ConvInv, ContextInv, NEW g \in Gens, conv.gens[g].phase # "ended", Alone, conv.slots = <<>>,
         NEW s, Begun(s, g), conv' = Continued(s, g)
  PROVE  ContextKept
<1>1. s \in Conv /\ s.run.task = g /\ s.gens = conv.gens /\ s.comps = conv.comps /\ s.slots = conv.slots
      /\ Forward(conv, s) /\ conv \in Conv
  BY LiveFacts, InvFacts DEF Begun, Ready
<1>2. Ends(s, conv', g, "")
  BY ContinuedEnds DEF Begun
<1>3. Unread'
  BY <1>1, <1>2, EndsUnread DEF Causes
<1>4. conv'.comps = conv.comps /\ conv'.slots = <<>> /\ conv' \in Conv
  BY <1>1, <1>2 DEF Ends
<1>5. Forward(conv, conv')
  <2>1. Forward(s, conv')
    BY <1>1, <1>4, ContinuedForward
  <2> QED BY <1>1, <2>1, ForwardTrans
<1> QED BY <1>3, <1>4, <1>5, TurnStep

LEMMA AnswerContext ==
  ASSUME ConvInv, ContextInv, NEW g \in Gens, NEW continuation \in BOOLEAN, Answer(g, continuation),
         ConvInv'
  PROVE  ContextKept
<1> DEFINE s == Say(conv, g, "answer")
<1>1. /\ Alone /\ conv.slots = <<>> /\ conv.gens[g].phase # "ended"
      /\ ~SaidBy(conv.entries, g, conv.gens[g].sent)
  BY AnsweredAlone DEF Answer
<1>2. Begun(s, g)
  BY <1>1, BegunSay DEF SaidKinds
<1>3. \/ conv' = Continued(s, g)
      \/ conv' = HoldRun(s, g)
      \/ conv' = EndAnswered(s, g)
  BY DEF Answer, Continued
<1> HIDE DEF s
<1> QED BY <1>1, <1>2, <1>3, ContinuedContext, HoldRunContext, AnsweredContext

LEMMA ModelErrorContext ==
  ASSUME ConvInv, ContextInv, NEW g \in Gens, NEW permanent \in BOOLEAN, ModelError(g, permanent)
  PROVE  ContextKept
<1> DEFINE s == Say(conv, g, "error")
           m == Moved(s, g, "retry", "sleeping")
           r == [m EXCEPT !.partial = "none", !.gens[g] = [@ EXCEPT !.poll = FALSE]]
           u == Retried(conv.gens[g], FALSE)
<1>1. Answered(g) /\ (conv' = r \/ conv' = End(EndFailedRun(s, g), g, ""))
  <2> HIDE DEF r
  <2>1. r = [m EXCEPT !.partial = "none", !.gens[g] = [@ EXCEPT !.poll = FALSE]]
    BY DEF r
  <2> QED BY <2>1 DEF ModelError
<1>2. /\ Alone /\ conv.gens[g].phase \notin {"ended", "tools"}
      /\ ~SaidBy(conv.entries, g, conv.gens[g].sent)
  <2> HIDE DEF r
  <2> QED BY <1>1, AnsweredAlone
<1>3. Begun(s, g)
  BY <1>2, BegunSay DEF SaidKinds
<1> HIDE DEF s
<1>4. s \in Conv /\ g \in DOMAIN s.gens /\ s.gens = conv.gens
  BY <1>3 DEF Begun, Ready, Gens
<1>5. r = RetryOf(s, g, u)
  BY <1>4, RetryOfIs
<1> HIDE DEF r
<1>6. CASE conv' = End(EndFailedRun(s, g), g, "")
  BY <1>2, <1>3, <1>6, FailedContext DEF Causes
<1>7. CASE conv' = r
  <2>1. PICK poll \in BOOLEAN : poll = FALSE
    OBVIOUS
  <2>2. u = Retried(conv.gens[g], poll)
    BY <2>1
  <2> HIDE DEF u
  <2> QED BY <1>2, <1>3, <1>5, <1>7, <2>2, RetryOfContext
<1> QED BY <1>1, <1>6, <1>7

LEMMA InterruptedContext ==
  ASSUME ConvInv, ContextInv, NEW g \in Gens, Interrupted(g)
  PROVE  ContextKept
<1> DEFINE t == conv.gens[g]
           b == t.phase = "poll"
           s == ConvertPartial(conv, g)
           m == Moved(s, g, "retry", "sleeping")
           r == [m EXCEPT !.partial = "none", !.gens[g] = [@ EXCEPT !.poll = b]]
           u == Retried(t, b)
<1>1. conv' = r \/ conv' = End(EndFailedRun(s, g), g, "")
  BY Zenon DEF Interrupted
<1>2. t.phase \in {"request", "poll"} /\ t.status = "running"
  BY DEF Interrupted, InPhase
<1>3. Alone
  <2> HIDE DEF r, s
  <2> QED BY <1>2, AloneRunning
<1>4. Begun(s, g)
  BY <1>2, BegunConvert
<1> HIDE DEF s
<1>5. s \in Conv /\ g \in DOMAIN s.gens /\ s.gens = conv.gens
  BY <1>4 DEF Begun, Ready, Gens
<1>6. b \in BOOLEAN
  OBVIOUS
<1>7. r = RetryOf(s, g, u)
  <2> HIDE DEF b
  <2> QED BY ZenonT(30), <1>5, <1>6, RetryOfIs
<1> HIDE DEF r
<1>8. CASE conv' = End(EndFailedRun(s, g), g, "")
  BY <1>2, <1>3, <1>4, <1>8, FailedContext DEF Causes
<1>9. CASE conv' = r
  <2>1. u = Retried(conv.gens[g], b) /\ conv.gens[g].phase \notin {"ended", "tools"}
    BY <1>2
  <2> HIDE DEF b, u
  <2> QED BY <1>3, <1>4, <1>6, <1>7, <1>9, <2>1, RetryOfContext
<1> QED BY <1>1, <1>8, <1>9

LEMMA BegunHandedOff ==
  ASSUME ConvInv, NEW g \in Gens, conv.gens[g].phase # "ended",
         NEW s, s \in {conv, AppendEntry(conv, Entry("handoff", 0, 0))}
  PROVE  Begun(s, g) /\ s.partial = conv.partial
<1> DEFINE e == Entry("handoff", 0, 0)
           a == AppendEntry(conv, e)
<1>1. e \in EntryType /\ e.kind = "handoff"
  BY EntryTyped
<1> HIDE DEF e
<1>2. Framed(conv, a) /\ Forward(conv, a)
  BY <1>1, AppendFramed, AppendForward, InvFacts DEF SaidKinds, TaskKinds
<1>3. Ready(a, g)
  BY <1>2, ReadySelf, ReadyFramed
<1> HIDE DEF a
<1>4. Begun(a, g) /\ a.partial = conv.partial
  BY <1>2, <1>3 DEF Begun, Framed
<1>5. s = conv \/ s = a
  BY DEF a, e
<1> QED BY <1>4, <1>5, BegunSelf

LEMMA FinishToolRoundContext ==
  ASSUME ConvInv, ContextInv, NEW g \in Gens, FinishToolRound(g), ConvInv'
  PROVE  ContextKept
<1> DEFINE s == IF \E c \in DOMAIN conv.slots : "handoff" \in conv.slots[c].control
                THEN AppendEntry(conv, Entry("handoff", 0, 0)) ELSE conv
           m == AfterTools(s, g)
<1>1. conv.gens[g].phase = "tools" /\ conv.gens[g].status = "running"
  BY DEF FinishToolRound, InPhase
<1>2. \/ conv' = HoldRun(s, g)
      \/ conv' = EndAnswered(s, g)
      \/ conv' = End(EndFailedRun(s, g), g, "")
      \/ conv' = End(AfterTools(s, g), g, "")
  BY DEF FinishToolRound
<1>3. s \in {conv, AppendEntry(conv, Entry("handoff", 0, 0))}
  OBVIOUS
<1> HIDE DEF s
<1>4. Begun(s, g) /\ Alone /\ conv.gens[g].phase # "ended"
  <2>1. conv.gens[g].phase # "ended"
    BY <1>1
  <2> QED BY <1>1, <1>3, <2>1, BegunHandedOff, AloneRunning
<1>5. CASE conv' = End(m, g, "")
  <2>1. RunOver(s, m)
    <3>1. s.partial = "none"
      BY <1>1, <1>3, <1>4, BegunHandedOff, LiveFacts
    <3> QED BY <1>4, <3>1, AfterToolsOver DEF Begun
  <2>2. Forward(s, m)
    <3>1. s \in Conv /\ s.run.task = g
      BY <1>4, LiveFacts DEF Begun, Ready
    <3> QED BY <3>1, AfterToolsForward
  <2> HIDE DEF m
  <2> QED BY <1>4, <1>5, <2>1, <2>2, EndingContext DEF Begun, Causes
<1> QED BY <1>2, <1>4, <1>5, HoldRunContext, AnsweredContext, FailedContext DEF Causes

-----------------------------------------------------------------------------
(* Steps that leave every generation where it is                            *)

\* Two walks agree as far as their sequences do.
LEMMA WalksAgree ==
  ASSUME NEW p, NEW q, NEW s, NEW t, NEW S, NEW n \in Nat, NEW m \in Nat, n <= m,
         Walk(p, s, S, n), Walk(q, t, S, m), \A k \in 1..n : s[k] = t[k]
  PROVE  p[n] = q[n]
<1> DEFINE T == {k \in Nat : k <= n => p[k] = q[k]}
<1>1. 0 \in T
  <2>1. p[0] = <<>>
    BY WalkAt, 0 \in 0..n
  <2>2. q[0] = <<>>
    BY WalkAt, 0 \in 0..m
  <2> QED BY <2>1, <2>2
<1>2. ASSUME NEW k \in Nat, k \in T PROVE k + 1 \in T
  <2> SUFFICES ASSUME k + 1 <= n PROVE p[k + 1] = q[k + 1]
    OBVIOUS
  <2>1. p[k] = q[k] /\ s[k + 1] = t[k + 1]
    BY <1>2
  <2>2. p[k + 1] = IF k + 1 \in S THEN Append(p[k], s[k + 1]) ELSE p[k]
    BY WalkAt, k + 1 \in 0..n, k + 1 # 0, (k + 1) - 1 = k
  <2>3. q[k + 1] = IF k + 1 \in S THEN Append(q[k], t[k + 1]) ELSE q[k]
    BY WalkAt, k + 1 \in 0..m, k + 1 # 0, (k + 1) - 1 = k
  <2> QED BY <2>1, <2>2, <2>3
<1> HIDE DEF T
<1>3. n \in T
  BY <1>1, <1>2, Induct
<1> QED BY <1>3 DEF T

\* A number that is not in the set adds nothing.
LEMMA InOrderLonger ==
  ASSUME NEW S, NEW n \in Nat, n + 1 \notin S
  PROVE  InOrder(S, n + 1) = InOrder(S, n)
<1> DEFINE s == [k \in 1..n |-> k]
           t == [k \in 1..(n + 1) |-> k]
<1>1. Len(s) = n /\ Len(t) = n + 1 /\ \A k \in 1..n : s[k] = t[k]
  OBVIOUS
<1>2. InOrder(S, n) = At(s, S) /\ InOrder(S, n + 1) = At(t, S)
  BY DEF InOrder
<1> HIDE DEF s, t
<1>3. PICK p : Walk(p, s, S, n) /\ At(s, S) = p[n]
  BY <1>1, AtWalk
<1>4. PICK q : Walk(q, t, S, n + 1) /\ At(t, S) = q[n + 1]
  BY <1>1, AtWalk
<1>5. q[n + 1] = q[n]
  BY <1>4, WalkAt, n + 1 \in 0..(n + 1), n + 1 # 0, (n + 1) - 1 = n
<1>6. p[n] = q[n]
  <2>1. n + 1 \in Nat /\ n <= n + 1 /\ \A k \in 1..n : s[k] = t[k]
    BY <1>1
  <2>2. Walk(p, s, S, n) /\ Walk(q, t, S, n + 1)
    BY <1>3, <1>4
  <2>3. PICK m \in Nat : m = n + 1
    BY <2>1
  <2>4. Walk(q, t, S, m) /\ n <= m
    BY <2>1, <2>2, <2>3
  <2> QED BY ZenonT(30), <2>1, <2>2, <2>4, WalksAgree
<1> QED BY <1>2, <1>3, <1>4, <1>5, <1>6

\* An entry that is no message and no head is not seen.
LEMMA MessagesAppend ==
  ASSUME NEW es \in Seq(EntryType), NEW e \in EntryType, e.kind = "display"
  PROVE  Messages(Append(es, e)) = Messages(es)
<1> DEFINE fs == Append(es, e)
           n == Len(es)
           i == LatestHeadMarker(es)
           rs == Roles \ {"none"}
<1>1. fs \in Seq(EntryType) /\ Starts(es, fs) /\ Len(fs) = n + 1 /\ fs[n + 1] = e /\ n \in Nat
      /\ DOMAIN es = 1..n /\ DOMAIN fs = 1..(n + 1)
  BY RangeAppend
<1> HIDE DEF fs, n
<1>2. Role(fs[n + 1]) = "none" /\ fs[n + 1].kind \notin HeadKinds
  BY <1>1 DEF Role, HeadKinds
<1>3. HeadOf(fs, n + 1) = 0
  BY <1>2, NoHead
<1>4. LatestHeadMarker(fs) = i /\ ActiveFrom(fs) = ActiveFrom(es)
  <2>1. \A j \in (Len(es) + 1)..Len(fs) : HeadOf(fs, j) = 0
    BY <1>1, <1>3 DEF n
  <2> QED BY <1>1, <2>1, RangeStays
<1>5. \A j \in 1..n : fs[j] = es[j] /\ HeadOf(fs, j) = HeadOf(es, j)
  BY <1>1, HeadStays
<1>6. Active(fs, rs) = Active(es, rs)
  <2>1. n + 1 \notin Active(fs, rs)
    BY <1>2 DEF Active
  <2>2. \A j \in 1..n : j \in Active(fs, rs) <=> j \in Active(es, rs)
    BY <1>1, <1>4, <1>5 DEF Active
  <2>3. Active(fs, rs) \subseteq 1..(n + 1) /\ Active(es, rs) \subseteq 1..n
    BY <1>1 DEF Active
  <2> HIDE DEF rs
  <2>4. \A j \in 1..(n + 1) : j = n + 1 \/ j \in 1..n
    BY <1>1
  <2> QED BY <2>1, <2>2, <2>3, <2>4
<1> DEFINE A == Active(es, rs)
<1>7. InOrder(A, n + 1) = InOrder(A, n)
  <2>1. A \subseteq 1..n
    BY <1>1 DEF Active
  <2> HIDE DEF A
  <2>2. n + 1 \notin A
    BY <1>1, <2>1
  <2> QED BY <1>1, <2>2, InOrderLonger
<1>8. i \in 0..n
  BY MarkerIs DEF n
<1>9. i # 0 => fs[i] = es[i]
  BY <1>1, <1>5, <1>8
<1>10. Messages(es) = IF i # 0 /\ Role(es[i]) # "none" THEN <<i>> \o InOrder(A, n) ELSE InOrder(A, n)
  BY DEF Messages, n
<1>11. Messages(fs) = IF i # 0 /\ Role(fs[i]) # "none" THEN <<i>> \o InOrder(A, n + 1) ELSE InOrder(A, n + 1)
  BY <1>1, <1>4, <1>6 DEF Messages
<1> HIDE DEF i, A, rs
<1>12. Messages(fs) = Messages(es)
  BY <1>7, <1>9, <1>10, <1>11
<1> QED BY <1>12 DEF fs

QuietTask(t, u) ==
  /\ u.phase = t.phase /\ u.comp = t.comp /\ (Parked(t) => Parked(u))
  /\ u.fly = "prepared" => t.fly = "prepared" /\ u.seen = t.seen

\* Every compaction that a generation waits for was waited for, and cuts the
\* active range.
QuietComps ==
  \A k \in DOMAIN conv'.comps :
    /\ conv'.comps[k].cut <= Len(conv'.entries)
    /\ LiveComp(conv', k) /\ conv'.comps[k].owner # 0 =>
         /\ k \in Comps /\ LiveComp(conv, k) /\ conv'.comps[k].owner = conv.comps[k].owner
         /\ conv'.comps[k].phase \in {"summarize", "retry"} => ActiveFrom(conv'.entries) <= conv'.comps[k].cut

LEMMA QuietContext ==
  ASSUME ConvInv, ContextInv, Forward(conv, conv'),
         Unread' \/ Messages(conv'.entries) = Messages(conv.entries),
         Gens \subseteq Gens', \A g \in Gens : QuietTask(conv.gens[g], conv'.gens[g]),
         \A g \in Gens' \ Gens : conv'.gens[g].fly = "none",
         QuietComps, conv'.slots # <<>> => conv.slots # <<>>
  PROVE  ContextKept
<1>1. ContextCurrent'
  <2>1. CASE Unread'
    BY <2>1, UnreadCurrent
  <2>2. CASE Messages(conv'.entries) = Messages(conv.entries)
    <3> SUFFICES ASSUME NEW g \in Gens', conv'.gens[g].fly = "prepared"
                 PROVE  conv'.gens[g].seen = Messages(conv'.entries)
      BY DEF ContextCurrent
    <3>1. g \in Gens /\ conv.gens[g].fly = "prepared" /\ conv'.gens[g].seen = conv.gens[g].seen
      BY DEF QuietTask
    <3> QED BY <2>2, <3>1 DEF ContextInv, ContextCurrent
  <2> QED BY <2>1, <2>2
<1>2. CompsKnown'
  <2> SUFFICES ASSUME NEW k \in DOMAIN conv'.comps
               PROVE  /\ conv'.comps[k].cut <= Len(conv'.entries)
                      /\ LiveComp(conv', k) /\ conv'.comps[k].owner # 0 => Awaited(k)'
    BY DEF CompsKnown, Comps
  <2>1. conv'.comps[k].cut <= Len(conv'.entries)
    BY DEF QuietComps
  <2>2. ASSUME LiveComp(conv', k), conv'.comps[k].owner # 0 PROVE Awaited(k)'
    <3> DEFINE g == conv.comps[k].owner
    <3>1. /\ k \in Comps /\ LiveComp(conv, k) /\ conv'.comps[k].owner = g /\ g # 0
          /\ conv'.comps[k].phase \in {"summarize", "retry"} => ActiveFrom(conv'.entries) <= conv'.comps[k].cut
      BY <2>2 DEF QuietComps
    <3>2. g \in Gens /\ conv.gens[g].phase = "prepare" /\ conv.gens[g].comp = k /\ Parked(conv.gens[g])
      BY <3>1, OwnerParked
    <3>3. QuietTask(conv.gens[g], conv'.gens[g]) /\ g \in Gens'
      BY <3>2
    <3>4. conv'.gens[g].phase = "prepare" /\ conv'.gens[g].comp = k /\ Parked(conv'.gens[g])
      BY <3>2, <3>3 DEF QuietTask
    <3> HIDE DEF g
    <3> QED BY <3>1, <3>3, <3>4 DEF Awaited, Gens
  <2> QED BY <2>1, <2>2
<1>3. RoundOpen'
  <2> SUFFICES ASSUME conv'.slots # <<>> PROVE \E g \in Gens' : conv'.gens[g].phase = "tools"
    BY DEF RoundOpen, InRound
  <2>1. PICK g \in Gens : conv.gens[g].phase = "tools"
    BY DEF ContextInv, RoundOpen, InRound
  <2> QED BY <2>1 DEF QuietTask
<1> QED BY <1>1, <1>2, <1>3, ContextStep

LEMMA CompCut ==
  ASSUME ConvInv, ContextInv, NEW k \in Comps
  PROVE  /\ conv.comps[k] \in Comp /\ conv.comps[k].cut \in Nat /\ conv.comps[k].cut <= Len(conv.entries)
         /\ LiveComp(conv, k) /\ conv.comps[k].owner # 0 /\ conv.comps[k].phase \in {"summarize", "retry"} =>
              ActiveFrom(conv.entries) <= conv.comps[k].cut
<1>1. conv.comps[k] \in Comp
  BY CompsAre
<1> QED BY <1>1 DEF Comp, ContextInv, CompsKnown, Awaited

\* From v to w a compaction stays, is over, or goes on with this cut.
Calmer(v, w) ==
  \/ w.phase = "ended" /\ w.cut = 0
  \/ /\ w.owner = v.owner /\ w.cut = v.cut /\ (w.phase # "ended" => v.phase # "ended")
     /\ w.phase \in {"summarize", "retry"} => v.phase \in {"summarize", "retry"}
  \/ /\ w.owner = v.owner /\ v.phase # "ended" /\ w.cut <= Len(conv.entries)
     /\ ActiveFrom(conv.entries) <= w.cut

LEMMA CalmComps ==
  ASSUME ConvInv, ContextInv, Forward(conv, conv'),
         \/ ActiveFrom(conv'.entries) = ActiveFrom(conv.entries)
         \/ \A k \in Comps : LiveComp(conv', k) => conv'.comps[k].owner = 0,
         DOMAIN conv'.comps = Comps, conv'.comps \in Seq(Comp),
         \A k \in Comps : Calmer(conv.comps[k], conv'.comps[k])
  PROVE  QuietComps
<1> SUFFICES ASSUME NEW k \in Comps
             PROVE  /\ conv'.comps[k].cut <= Len(conv'.entries)
                    /\ LiveComp(conv', k) /\ conv'.comps[k].owner # 0 =>
                         /\ LiveComp(conv, k) /\ conv'.comps[k].owner = conv.comps[k].owner
                         /\ conv'.comps[k].phase \in {"summarize", "retry"} =>
                              ActiveFrom(conv'.entries) <= conv'.comps[k].cut
  BY DEF QuietComps
<1> DEFINE v == conv.comps[k]
           w == conv'.comps[k]
           n == Len(conv.entries)
           m == Len(conv'.entries)
<1>1. n \in Nat /\ m \in Nat /\ n <= m
  BY InvFacts DEF Forward, Starts, Conv
<1>2. v \in Comp /\ v.cut \in Nat /\ v.cut <= n
      /\ (v.phase # "ended" /\ v.owner # 0 /\ v.phase \in {"summarize", "retry"} =>
            ActiveFrom(conv.entries) <= v.cut)
  BY CompCut DEF LiveComp
<1>3. w.cut \in Nat
  <2>1. w \in Comp
    OBVIOUS
  <2> QED BY <2>1 DEF Comp
<1>4. Calmer(v, w)
  OBVIOUS
<1>5. \/ ActiveFrom(conv'.entries) = ActiveFrom(conv.entries)
      \/ w.phase = "ended" \/ w.owner = 0
  BY DEF LiveComp
<1> HIDE DEF v, w, n, m
<1>6. w.cut <= m
  BY <1>1, <1>2, <1>3, <1>4 DEF Calmer, n
<1>7. ASSUME w.phase # "ended", w.owner # 0
      PROVE  /\ v.phase # "ended" /\ w.owner = v.owner
             /\ w.phase \in {"summarize", "retry"} => ActiveFrom(conv'.entries) <= w.cut
  BY <1>2, <1>4, <1>5, <1>7 DEF Calmer
<1> QED BY <1>6, <1>7 DEF LiveComp, v, w, m

LEMMA NoneWaits ==
  ASSUME ConvInv, ContextInv, Framed(conv, conv'), Steady(conv, conv')
  PROVE  QuietComps
<1>1. conv'.comps = conv.comps /\ conv.comps \in Seq(Comp) /\ DOMAIN conv.comps = Comps
  BY CompsAre DEF Framed, Comps
<1>2. \A k \in Comps : Calmer(conv.comps[k], conv'.comps[k])
  BY <1>1 DEF Calmer
<1>3. DOMAIN conv'.comps = Comps /\ conv'.comps \in Seq(Comp)
  BY <1>1
<1> QED BY <1>2, <1>3, CalmComps DEF Steady

\* Tasks, run and active range stay.
LEMMA FramedContext ==
  ASSUME ConvInv, ContextInv, Framed(conv, conv'), Steady(conv, conv'),
         Unread \/ Messages(conv'.entries) = Messages(conv.entries)
  PROVE  ContextKept
<1>1. conv'.gens = conv.gens /\ conv'.slots = conv.slots
  BY DEF Framed
<1>2. Gens' = Gens /\ \A g \in Gens : QuietTask(conv.gens[g], conv'.gens[g])
  BY <1>1 DEF QuietTask, Gens
<1>3. Unread => Unread'
  BY <1>1 DEF Unread, Gens
<1> QED BY <1>1, <1>2, <1>3, NoneWaits, QuietContext DEF Steady

LEMMA PartialContext ==
  ASSUME ConvInv, ContextInv, (\E g \in Gens : ShowPartial(g)) \/ StorePartial
  PROVE  ContextKept
<1>1. conv \in Conv
  BY InvFacts
<1>2. conv' = WithPartial(conv, "stored") \/ conv' = WithPartial(conv, "memory")
  BY DEF ShowPartial, StorePartial, WithPartial
<1>3. /\ conv' \in Conv /\ conv'.gens = conv.gens /\ conv'.inbox = conv.inbox
      /\ conv'.entries = conv.entries /\ conv'.slots = conv.slots /\ conv'.comps = conv.comps
  BY <1>1, <1>2, WithPartialTyped
<1>4. Steady(conv, conv')
  BY <1>1, <1>3, ForwardSame DEF Steady
<1>5. Gens' = Gens /\ \A g \in Gens : QuietTask(conv.gens[g], conv'.gens[g])
  BY <1>3 DEF QuietTask, Gens
<1>6. QuietComps
  <2>1. conv.comps \in Seq(Comp) /\ DOMAIN conv.comps = Comps
    BY CompsAre DEF Comps
  <2>2. \A k \in Comps : Calmer(conv.comps[k], conv'.comps[k])
    BY <1>3 DEF Calmer
  <2> QED BY <1>3, <1>4, <2>1, <2>2, CalmComps DEF Steady
<1> QED BY <1>3, <1>4, <1>5, <1>6, QuietContext DEF Steady

LEMMA AbortSubmissionContext ==
  ASSUME ConvInv, ContextInv, NEW i \in DOMAIN conv.subs, AbortSubmission(i)
  PROVE  ContextKept
<1>1. conv' = Withdraw(conv, {i}) /\ conv \in Conv
  BY InvFacts DEF AbortSubmission
<1>2. Framed(conv, conv') /\ Forward(conv, conv') /\ conv'.entries = conv.entries
  BY <1>1, WithdrawFramed, WithdrawForward
<1> QED BY <1>2, FramedContext DEF Steady

LEMMA CompactContext == ASSUME ConvInv, ContextInv, Compact PROVE ContextKept
<1> DEFINE n == NewComp(0, FALSE)
           m == Len(conv.comps)
<1>1. conv' = WithComp(conv, n) /\ n \in Comp /\ conv \in Conv
  BY InvFacts, CreateCompactionIs DEF Compact
<1>2. n.owner = 0 /\ n.cut = 0
  BY DEF NewComp
<1> HIDE DEF n
<1>3. /\ conv' \in Conv /\ conv'.gens = conv.gens /\ conv'.inbox = conv.inbox
      /\ conv'.entries = conv.entries /\ conv'.slots = conv.slots
  BY <1>1, CompactionCreated
<1>4. conv'.comps = Append(conv.comps, n)
  BY <1>1 DEF WithComp, Conv
<1>5. conv.comps \in Seq(Comp) /\ Comps = 1..m /\ m \in Nat
  BY CompsAre
<1>6. DOMAIN conv'.comps = 1..(m + 1) /\ conv'.comps[m + 1] = n /\ \A k \in 1..m : conv'.comps[k] = conv.comps[k]
  BY <1>1, <1>4, <1>5
<1>7. Steady(conv, conv')
  BY <1>1, <1>3, ForwardSame DEF Steady
<1>8. Gens' = Gens /\ \A g \in Gens : QuietTask(conv.gens[g], conv'.gens[g])
  BY <1>3 DEF QuietTask, Gens
<1> HIDE DEF m
<1>9. QuietComps
  <2> SUFFICES ASSUME NEW k \in 1..(m + 1)
               PROVE  /\ conv'.comps[k].cut <= Len(conv'.entries)
                      /\ LiveComp(conv', k) /\ conv'.comps[k].owner # 0 =>
                           /\ k \in Comps /\ LiveComp(conv, k) /\ conv'.comps[k].owner = conv.comps[k].owner
                           /\ conv'.comps[k].phase \in {"summarize", "retry"} =>
                                ActiveFrom(conv'.entries) <= conv'.comps[k].cut
    BY <1>6 DEF QuietComps
  <2>1. CASE k = m + 1
    <3>1. Len(conv.entries) \in Nat
      BY InvFacts
    <3> QED BY <1>2, <1>3, <1>6, <2>1, <3>1
  <2>2. CASE k # m + 1
    <3>1. k \in Comps /\ conv'.comps[k] = conv.comps[k]
      BY <1>5, <1>6, <2>2
    <3> QED BY <1>3, <3>1, CompCut DEF LiveComp
  <2> QED BY <2>1, <2>2
<1> QED BY <1>3, <1>7, <1>8, <1>9, QuietContext DEF Steady

LEMMA AfterRunTaskEndsContext ==
  ASSUME ConvInv, ContextInv, NEW g \in Gens, AfterRunTaskEnds(g)
  PROVE  ContextKept
<1> DEFINE t == conv.gens[g]
           u == [t EXCEPT !.tasks = FALSE]
<1>1. conv' = WithGen(conv, g, u)
  BY DEF AfterRunTaskEnds, WithGen, Put
<1>2. t \in Gen /\ conv \in Conv /\ g \in DOMAIN conv.gens
  BY InvFacts DEF Gens
<1> HIDE DEF t
<1>3. u \in Gen /\ QuietTask(t, u)
  BY <1>2 DEF Gen, QuietTask, Parked
<1> HIDE DEF u
<1>4. /\ conv' \in Conv /\ conv'.gens = Put(conv.gens, g, u) /\ DOMAIN conv'.gens = DOMAIN conv.gens
      /\ conv'.entries = conv.entries /\ conv'.slots = conv.slots /\ conv'.inbox = conv.inbox
      /\ conv'.comps = conv.comps
  BY <1>1, <1>2, <1>3, WithGenTyped
<1>5. Gens' = Gens /\ \A h \in Gens : QuietTask(conv.gens[h], conv'.gens[h])
  <2>1. \A h \in Gens \ {g} : conv'.gens[h] = conv.gens[h]
    BY <1>4 DEF Put, Gens
  <2>2. \A h \in Gens \ {g} : QuietTask(conv.gens[h], conv'.gens[h])
    BY <2>1 DEF QuietTask
  <2>3. conv'.gens[g] = u
    BY <1>2, <1>4 DEF Put
  <2> QED BY <1>3, <1>4, <2>2, <2>3 DEF Gens, t
<1>6. Steady(conv, conv')
  BY <1>2, <1>4, ForwardSame DEF Steady
<1>7. QuietComps
  <2>1. conv.comps \in Seq(Comp) /\ DOMAIN conv.comps = Comps
    BY CompsAre DEF Comps
  <2>2. \A k \in Comps : Calmer(conv.comps[k], conv'.comps[k])
    BY <1>4 DEF Calmer
  <2> QED BY <1>4, <1>6, <2>1, <2>2, CalmComps DEF Steady
<1> QED BY <1>4, <1>5, <1>6, <1>7, QuietContext DEF Steady

-----------------------------------------------------------------------------
(* Tool calls, in the round of the only live generation                     *)

\* While a round is open nothing is prepared.
LEMMA RoundUnread ==
  ASSUME ConvInv, ContextInv, conv.slots # <<>>
  PROVE  Unread
<1>1. PICK g \in Gens : conv.gens[g].phase = "tools"
  BY DEF ContextInv, RoundOpen, InRound
<1>2. \A h \in Gens \ {g} : conv.gens[h].fly = "none"
  BY <1>1, OthersUnread
<1>3. conv.gens[g].fly # "prepared"
  BY <1>1 DEF ConvInv, Flying
<1> QED BY <1>2, <1>3 DEF Unread

LEMMA ToolIs ==
  ASSUME ConvInv, NEW c \in DOMAIN conv.slots, Tool(c) \/ ToolFaults(c)
  PROVE  /\ LiveSlot(conv, c)
         /\ \/ \E v : conv' = WithSlot(conv, c, v) /\ v.st \in {"call", "execute"}
            \/ \E control : SettleCall(c, control)
            \/ CallLost(c)
<1> DEFINE t == conv.slots[c]
<1>1. t \in Slot
  BY SlotFacts
<1>2. CASE ToolReserve(c)
  <2> DEFINE v == [t EXCEPT !.status = "running"]
  <2>1. conv' = WithSlot(conv, c, v) /\ LiveSlot(conv, c)
    BY <1>2 DEF ToolReserve, WithSlot, Put
  <2>2. v.st = t.st
    BY <1>1 DEF Slot
  <2> HIDE DEF v
  <2> QED BY <2>1, <2>2 DEF LiveSlot
<1>3. CASE ToolIntent(c)
  <2>1. PICK safe \in BOOLEAN :
          conv' = [conv EXCEPT !.slots[c] = [@ EXCEPT !.st = "execute", !.restarts = 0,
                                                      !.safe = safe, !.fly = "intent"]]
    BY <1>3, Zenon DEF ToolIntent
  <2> DEFINE v == [t EXCEPT !.st = "execute", !.restarts = 0, !.safe = safe, !.fly = "intent"]
  <2>2. conv' = WithSlot(conv, c, v)
    BY <2>1 DEF WithSlot, Put
  <2>3. v.st = "execute"
    BY <1>1 DEF Slot
  <2> HIDE DEF v
  <2>4. LiveSlot(conv, c)
    BY <1>3 DEF ToolIntent, CallAt, LiveSlot
  <2> QED BY <2>2, <2>3, <2>4
<1>4. CASE ToolRuns(c) \/ ToolReplays(c)
  <2> DEFINE n == t.ran + 1
             v == [t EXCEPT !.fly = "running", !.ran = n]
  <2>1. conv' = Execute(c) /\ t.st = "execute"
    BY <1>4 DEF ToolRuns, ToolReplays, CallAt
  <2>2. conv' = WithSlot(conv, c, v)
    BY <2>1 DEF Execute, WithSlot, Put
  <2> HIDE DEF n
  <2>3. v.st = t.st
    BY <1>1 DEF Slot
  <2> HIDE DEF v
  <2> QED BY <2>1, <2>2, <2>3 DEF LiveSlot
<1>5. CASE ToolFaults(c) \/ ToolEnded(c)
  BY <1>5 DEF ToolFaults, ToolEnded
<1>6. CASE ToolInterrupted(c) \/ ToolAborts(c)
  BY <1>6 DEF ToolInterrupted, ToolAborts, CallAt, LiveSlot
<1>7. CASE ToolReject(c) \/ ToolEnds(c)
  <2>1. PICK control \in Controls \cup {{}} : SettleCall(c, control)
    BY <1>7 DEF ToolReject, ToolEnds
  <2>2. LiveSlot(conv, c)
    BY <1>7 DEF ToolReject, ToolEnds, CallAt, LiveSlot
  <2> QED BY <2>1, <2>2
<1> QED BY <1>2, <1>3, <1>4, <1>5, <1>6, <1>7 DEF Tool

\* Generations, compactions, submissions and run stay; the transcript may get
\* the result.
LEMMA ToolStays ==
  ASSUME ConvInv, NEW c \in DOMAIN conv.slots, Tool(c) \/ ToolFaults(c)
  PROVE  /\ conv'.gens = conv.gens /\ conv'.comps = conv.comps /\ conv'.subs = conv.subs
         /\ conv'.inbox = conv.inbox /\ conv'.run = conv.run
         /\ conv'.entries \in {conv.entries, Results(conv, <<c>>).entries}
<1>1. conv \in Conv /\ c \in Nat /\ Assistant(conv) \in Nat
  BY SlotFacts
<1>2. CASE \E v : conv' = WithSlot(conv, c, v)
  BY <1>1, <1>2 DEF WithSlot, Conv
<1>3. CASE CallLost(c)
  <2> DEFINE v == NewSlot("lost")
             lost == conv.lost \cup {<<Assistant(conv), c>>}
  <2>1. conv' = [conv EXCEPT !.slots[c] = v, !.lost = @ \cup {<<Assistant(conv), c>>}]
    BY <1>3 DEF CallLost
  <2>2. conv' = [conv EXCEPT !.slots[c] = v, !.lost = lost]
    BY <1>1, <2>1 DEF Conv
  <2> HIDE DEF v, lost
  <2> QED BY <1>1, <2>2 DEF Conv
<1>4. CASE \E control : SettleCall(c, control)
  <2> DEFINE r == Results(conv, <<c>>)
  <2>1. PICK v : conv' = [r EXCEPT !.slots[c] = v]
    BY <1>4 DEF SettleCall
  <2>2. /\ r \in Conv /\ r.inbox = conv.inbox /\ r.run = conv.run /\ r.subs = conv.subs
        /\ r.gens = conv.gens /\ r.comps = conv.comps
    <3>1. <<c>> \in Seq(Nat)
      BY <1>1
    <3>2. r = [conv EXCEPT !.entries = @ \o [k \in DOMAIN <<c>> |-> Entry("result", <<c>>[k], Assistant(conv))]]
      BY DEF Results
    <3>3. r.gens = conv.gens /\ r.comps = conv.comps
      BY <1>1, <3>2 DEF Conv
    <3> HIDE DEF r
    <3>4. r = Results(conv, <<c>>)
      BY DEF r
    <3> QED BY <1>1, <3>1, <3>3, <3>4, ResultsAre
  <2> HIDE DEF r
  <2>3. /\ conv'.inbox = conv.inbox /\ conv'.run = conv.run /\ conv'.subs = conv.subs
        /\ conv'.gens = conv.gens /\ conv'.comps = conv.comps /\ conv'.entries = r.entries
    BY <2>1, <2>2 DEF Conv
  <2> QED BY <2>3 DEF r
<1> QED BY <1>2, <1>3, <1>4, ToolIs

LEMMA ToolContext ==
  ASSUME ConvInv, ContextInv, NEW c \in DOMAIN conv.slots, Tool(c) \/ ToolFaults(c), ConvInv'
  PROVE  ContextKept
<1> DEFINE r == Results(conv, <<c>>)
<1>1. conv \in Conv /\ conv' \in Conv /\ c \in Nat /\ Assistant(conv) \in Nat /\ conv.slots # <<>>
  BY SlotFacts DEF ConvInv, TypeOK
<1>2. conv'.gens = conv.gens /\ conv'.comps = conv.comps /\ conv'.inbox = conv.inbox
      /\ conv'.entries \in {conv.entries, r.entries}
  BY ToolStays
<1>3. Steady(conv, r) /\ r.inbox = conv.inbox
  <2>1. <<c>> \in Seq(Nat)
    BY <1>1
  <2> QED BY <1>1, <2>1, ResultsForward, ResultsAre
<1> HIDE DEF r
<1>4. Steady(conv, conv')
  <2>1. CASE conv'.entries = conv.entries
    BY <1>1, <1>2, <2>1, ForwardSame DEF Steady
  <2>2. CASE conv'.entries = r.entries
    BY <1>1, <1>2, <1>3, <2>2 DEF Steady, Forward, HeadsKnown
  <2> QED BY <1>2, <2>1, <2>2
<1>5. Unread'
  <2>1. Unread
    BY <1>1, RoundUnread
  <2> QED BY <1>2, <2>1 DEF Unread, Gens
<1>6. Gens' = Gens /\ \A g \in Gens : QuietTask(conv.gens[g], conv'.gens[g])
  BY <1>2 DEF QuietTask, Gens
<1>7. QuietComps
  <2>1. conv.comps \in Seq(Comp) /\ DOMAIN conv.comps = Comps
    BY CompsAre DEF Comps
  <2>2. \A k \in Comps : Calmer(conv.comps[k], conv'.comps[k])
    BY <1>2 DEF Calmer
  <2> QED BY <1>2, <1>4, <2>1, <2>2, CalmComps DEF Steady
<1> QED BY <1>1, <1>4, <1>5, <1>6, <1>7, QuietContext DEF Steady

-----------------------------------------------------------------------------
(* Aborts and crashes: tasks stop where they are                            *)

Lulled(s, r) ==
  /\ Eased(s, r) /\ Forward(s, r) /\ r.entries = s.entries /\ r.lost = s.lost
  /\ \A g \in DOMAIN s.gens : QuietTask(s.gens[g], r.gens[g])
  /\ \A k \in DOMAIN s.comps : /\ r.comps[k].phase = s.comps[k].phase
                               /\ r.comps[k].owner = s.comps[k].owner /\ r.comps[k].cut = s.comps[k].cut

LEMMA LulledTrans ==
  ASSUME NEW s \in Conv, NEW r, NEW q, Lulled(s, r), Lulled(r, q)
  PROVE  Lulled(s, q)
<1>1. Eased(s, q)
  BY EasedTrans DEF Lulled
<1>2. Forward(s, q)
  BY ForwardTrans DEF Lulled
<1>3. DOMAIN r.gens = DOMAIN s.gens /\ DOMAIN r.comps = DOMAIN s.comps
  BY DEF Lulled, Eased
<1>4. \A g \in DOMAIN s.gens : QuietTask(s.gens[g], q.gens[g])
  <2> TAKE g \in DOMAIN s.gens
  <2>1. QuietTask(s.gens[g], r.gens[g]) /\ QuietTask(r.gens[g], q.gens[g])
    BY <1>3 DEF Lulled
  <2> QED BY <2>1 DEF QuietTask
<1>5. \A k \in DOMAIN s.comps : /\ q.comps[k].phase = s.comps[k].phase
                                /\ q.comps[k].owner = s.comps[k].owner /\ q.comps[k].cut = s.comps[k].cut
  BY <1>3 DEF Lulled
<1> QED BY <1>1, <1>2, <1>4, <1>5 DEF Lulled

LEMMA LulledContext ==
  ASSUME ConvInv, ContextInv, Lulled(conv, conv')
  PROVE  ContextKept
<1>1. Steady(conv, conv') /\ Messages(conv'.entries) = Messages(conv.entries) /\ conv' \in Conv
  BY DEF Lulled, Steady, Forward
<1>2. Gens' = Gens /\ \A g \in Gens : QuietTask(conv.gens[g], conv'.gens[g])
  BY DEF Lulled, Eased, Gens
<1>3. QuietComps
  <2>1. DOMAIN conv'.comps = Comps
    BY DEF Lulled, Eased, Comps
  <2>2. conv'.comps \in Seq(Comp)
    BY <1>1 DEF Conv
  <2>3. \A k \in Comps : Calmer(conv.comps[k], conv'.comps[k])
    BY DEF Lulled, Calmer, Comps
  <2> QED BY <1>1, <2>1, <2>2, <2>3, CalmComps DEF Steady
<1>4. conv'.slots # <<>> => conv.slots # <<>>
  <2>1. DOMAIN conv'.slots = DOMAIN conv.slots
    BY DEF Lulled, Eased
  <2>2. conv.slots \in Seq(Slot) /\ conv'.slots \in Seq(Slot)
    BY <1>1, InvFacts DEF Conv
  <2> QED BY <2>1, <2>2
<1> QED BY <1>1, <1>2, <1>3, <1>4, QuietContext DEF Steady

\* The parts that a step over all tasks leaves alone.
LEMMA LulledBy ==
  ASSUME NEW s \in Conv, NEW r, Eased(s, r), r.entries = s.entries, r.inbox = s.inbox, r.lost = s.lost,
         \A g \in DOMAIN s.gens : QuietTask(s.gens[g], r.gens[g]),
         \A k \in DOMAIN s.comps : /\ r.comps[k].phase = s.comps[k].phase
                                   /\ r.comps[k].owner = s.comps[k].owner /\ r.comps[k].cut = s.comps[k].cut
  PROVE  Lulled(s, r) /\ r.run = s.run
<1>1. Forward(s, r)
  BY ForwardSame DEF Eased
<1> QED BY <1>1 DEF Lulled, Eased

LEMMA QuietSelf == ASSUME NEW t PROVE QuietTask(t, t)
  BY DEF QuietTask

LEMMA MarkGensLulled ==
  ASSUME NEW s \in Conv, NEW G, NEW r, r = MarkGens(s, G)
  PROVE  Lulled(s, r) /\ r.subs = s.subs /\ r.inbox = s.inbox
<1> DEFINE gs == [g \in DOMAIN s.gens |->
                    IF g \in G /\ s.gens[g].phase # "ended" /\ ~s.gens[g].marked
                    THEN [s.gens[g] EXCEPT !.marked = TRUE, !.status = "ready", !.fly = "none",
                                           !.seen = <<>>, !.restarts = 0]
                    ELSE s.gens[g]]
<1>1. r = [s EXCEPT !.gens = gs]
  BY DEF MarkGens
<1>2. \A g \in DOMAIN s.gens : QuietTask(s.gens[g], gs[g])
  <2> TAKE g \in DOMAIN s.gens
  <2> DEFINE t == s.gens[g]
             u == [t EXCEPT !.marked = TRUE, !.status = "ready", !.fly = "none", !.seen = <<>>, !.restarts = 0]
  <2>1. gs[g] = u \/ gs[g] = t
    OBVIOUS
  <2>2. t \in Gen
    BY TasksOf
  <2> HIDE DEF t, gs
  <2>3. QuietTask(t, u)
    BY <2>2 DEF Gen, QuietTask, Parked
  <2> HIDE DEF u
  <2>4. QuietTask(t, gs[g])
    BY <2>1, <2>3, QuietSelf
  <2> QED BY <2>4 DEF t
<1> HIDE DEF gs
<1>3. /\ r.entries = s.entries /\ r.inbox = s.inbox /\ r.lost = s.lost /\ r.gens = gs /\ r.comps = s.comps
      /\ r.subs = s.subs
  BY <1>1 DEF Conv
<1>4. Eased(s, r)
  BY MarkGensEased
<1> QED BY <1>2, <1>3, <1>4, LulledBy

LEMMA MarkSlotsLulled ==
  ASSUME NEW s \in Conv, NEW C, NEW r, r = MarkSlots(s, C)
  PROVE  Lulled(s, r) /\ r.subs = s.subs /\ r.inbox = s.inbox
<1> DEFINE cs == [c \in DOMAIN s.slots |->
                    IF c \in C /\ LiveSlot(s, c) /\ ~s.slots[c].marked
                    THEN [s.slots[c] EXCEPT !.marked = TRUE, !.status = "ready", !.fly = "none", !.restarts = 0]
                    ELSE s.slots[c]]
<1>1. r = [s EXCEPT !.slots = cs]
  BY DEF MarkSlots
<1> HIDE DEF cs
<1>2. /\ r.entries = s.entries /\ r.inbox = s.inbox /\ r.lost = s.lost /\ r.gens = s.gens /\ r.comps = s.comps
      /\ r.subs = s.subs
  BY <1>1 DEF Conv
<1>3. Eased(s, r)
  BY MarkSlotsEased
<1> QED BY <1>2, <1>3, QuietSelf, LulledBy

LEMMA MarkCompsLulled ==
  ASSUME NEW s \in Conv, NEW K, NEW r, r = MarkComps(s, K)
  PROVE  Lulled(s, r) /\ r.subs = s.subs /\ r.inbox = s.inbox
<1> DEFINE ks == [k \in DOMAIN s.comps |->
                    IF k \in K /\ LiveComp(s, k) /\ ~s.comps[k].marked
                    THEN [s.comps[k] EXCEPT !.marked = TRUE, !.status = "ready", !.restarts = 0]
                    ELSE s.comps[k]]
<1>1. r = [s EXCEPT !.comps = ks]
  BY DEF MarkComps
<1>2. \A k \in DOMAIN s.comps : /\ ks[k].phase = s.comps[k].phase
                                /\ ks[k].owner = s.comps[k].owner /\ ks[k].cut = s.comps[k].cut
  <2> TAKE k \in DOMAIN s.comps
  <2> DEFINE t == s.comps[k]
             u == [t EXCEPT !.marked = TRUE, !.status = "ready", !.restarts = 0]
  <2>1. ks[k] = u \/ ks[k] = t
    OBVIOUS
  <2>2. t \in Comp
    BY TasksOf
  <2> HIDE DEF t, ks
  <2>3. u.phase = t.phase /\ u.owner = t.owner /\ u.cut = t.cut
    BY <2>2 DEF Comp
  <2> HIDE DEF u
  <2>4. ks[k].phase = t.phase /\ ks[k].owner = t.owner /\ ks[k].cut = t.cut
    BY <2>1, <2>3
  <2> QED BY <2>4 DEF t
<1> HIDE DEF ks
<1>3. /\ r.entries = s.entries /\ r.inbox = s.inbox /\ r.lost = s.lost /\ r.gens = s.gens /\ r.comps = ks
      /\ r.subs = s.subs
  BY <1>1 DEF Conv
<1>4. Eased(s, r)
  BY MarkCompsEased
<1> QED BY <1>2, <1>3, <1>4, QuietSelf, LulledBy

LEMMA WithdrawLulled ==
  ASSUME NEW s \in Conv, NEW ids
  PROVE  Lulled(s, Withdraw(s, ids))
<1> DEFINE r == Withdraw(s, ids)
<1>1. Framed(s, r) /\ Forward(s, r) /\ r.entries = s.entries
  BY WithdrawFramed, WithdrawForward
<1>2. Eased(s, r)
  BY <1>1, FramedEased
<1> HIDE DEF r
<1>3. Lulled(s, r)
  BY <1>1, <1>2, QuietSelf DEF Lulled, Framed
<1> QED BY <1>3 DEF r

LEMMA AbortTaskLulls == ASSUME ConvInv, NEW g \in Gens, AbortTask(g) PROVE Lulled(conv, conv')
<1>1. conv' = MarkGens(conv, {g}) /\ conv \in Conv
  BY InvFacts DEF AbortTask
<1> QED BY <1>1, MarkGensLulled

\* A mark on calls and compactions at once.
LEMMA MarkWorkLulled ==
  ASSUME NEW s \in Conv, NEW C, NEW K, NEW r, r = MarkComps(MarkSlots(s, C), K)
  PROVE  Lulled(s, r) /\ r.subs = s.subs /\ r.inbox = s.inbox
<1>1. PICK q : q = MarkSlots(s, C)
  OBVIOUS
<1>2. Lulled(s, q) /\ q.subs = s.subs /\ q.inbox = s.inbox
  BY <1>1, MarkSlotsLulled
<1>3. q \in Conv /\ r = MarkComps(q, K)
  BY <1>1, <1>2 DEF Lulled, Forward
<1>4. Lulled(q, r) /\ r.subs = q.subs /\ r.inbox = q.inbox
  BY <1>3, MarkCompsLulled
<1> QED BY <1>2, <1>4, LulledTrans

LEMMA CascadeLulls ==
  ASSUME ConvInv, NEW g \in Gens, Cascade(g)
  PROVE  Lulled(conv, conv') /\ conv'.subs = conv.subs /\ conv'.inbox = conv.inbox
<1>1. conv \in Conv /\ \E C, K : conv' = MarkComps(MarkSlots(conv, C), K)
  BY InvFacts DEF Cascade
<1> QED BY <1>1, MarkWorkLulled

LEMMA AbortWorkLulls ==
  ASSUME ConvInv, NEW C, NEW K, AbortWork(C, K)
  PROVE  Lulled(conv, conv') /\ conv'.subs = conv.subs /\ conv'.inbox = conv.inbox
<1>1. conv \in Conv /\ conv' = MarkComps(MarkSlots(conv, C), K)
  BY InvFacts DEF AbortWork
<1> QED BY <1>1, MarkWorkLulled

\* What an abort of the conversation marks, before it withdraws the inputs.
LEMMA MarksLull ==
  ASSUME NEW s \in Conv, NEW G, NEW K, NEW C, NEW r, r = MarkSlots(MarkComps(MarkGens(s, G), K), C)
  PROVE  Lulled(s, r) /\ r \in Conv /\ r.subs = s.subs /\ r.inbox = s.inbox
<1> DEFINE a == MarkGens(s, G)
           b == MarkComps(a, K)
<1>1. Lulled(s, a) /\ a \in Conv /\ a.subs = s.subs /\ a.inbox = s.inbox
  BY MarkGensLulled DEF Lulled, Forward
<1> HIDE DEF a
<1>2. Lulled(a, b) /\ b \in Conv /\ b.subs = a.subs /\ b.inbox = a.inbox
  BY <1>1, MarkCompsLulled DEF Lulled, Forward
<1>3. r = MarkSlots(b, C)
  BY DEF a, b
<1> HIDE DEF b
<1>4. Lulled(b, r) /\ r \in Conv /\ r.subs = b.subs /\ r.inbox = b.inbox
  BY <1>2, <1>3, MarkSlotsLulled DEF Lulled, Forward
<1> QED BY <1>1, <1>2, <1>4, LulledTrans

LEMMA AbortConversationLulls == ASSUME ConvInv, AbortConversation PROVE Lulled(conv, conv')
<1> DEFINE foreground == {k \in Comps : ~conv.comps[k].background}
           calls == DOMAIN conv.slots
           c == MarkSlots(MarkComps(MarkGens(conv, Gens), foreground), calls)
<1>1. conv' = WithdrawQueuedInputs(c) /\ conv \in Conv
  BY InvFacts DEF AbortConversation
<1>2. Lulled(conv, c) /\ c \in Conv
  BY <1>1, MarksLull
<1> HIDE DEF c, foreground, calls
<1>3. Lulled(c, conv')
  BY <1>1, <1>2, WithdrawLulled DEF WithdrawQueuedInputs
<1> QED BY <1>1, <1>2, <1>3, LulledTrans

LEMMA ReopensLulls ==
  ASSUME ConvInv, NEW n \in {0, 1}, NEW p \in {"none", "memory", "stored"},
         p # "none" => conv.partial # "none", Reopens(n, p)
  PROVE  Lulled(conv, conv') /\ conv'.subs = conv.subs /\ conv'.inbox = conv.inbox
<1> DEFINE unpaid(g) == IF n = 0 /\ conv.gens[g].fly = "streaming" THEN 1 ELSE 0
           gs == [g \in Gens |-> [Stopped(conv.gens[g], n) EXCEPT
                    !.fly = "none", !.seen = <<>>, !.resent = conv.gens[g].resent + unpaid(g)]]
           cs == [c \in DOMAIN conv.slots |-> [Stopped(conv.slots[c], n) EXCEPT !.fly = "none"]]
           ks == [k \in Comps |-> Stopped(conv.comps[k], n)]
<1>1. conv' = [conv EXCEPT !.gens = gs, !.slots = cs, !.comps = ks, !.partial = p]
  BY Zenon DEF Reopens
<1>2. conv \in Conv
  BY InvFacts
<1>3. \A g \in Gens : QuietTask(conv.gens[g], gs[g])
  <2> TAKE g \in Gens
  <2> DEFINE t == conv.gens[g]
             m == t.restarts + n
             k == t.resent + unpaid(g)
             u == [t EXCEPT !.fly = "none", !.seen = <<>>, !.resent = k]
             v == [t EXCEPT !.status = "ready", !.restarts = m, !.fly = "none", !.seen = <<>>, !.resent = k]
  <2>1. t \in Gen
    BY InvFacts
  <2>2. gs[g] = [Stopped(t, n) EXCEPT !.fly = "none", !.seen = <<>>, !.resent = k]
    OBVIOUS
  <2> HIDE DEF gs, t, m, k, unpaid
  <2>3. QuietTask(t, u)
    BY <2>1 DEF Gen, QuietTask, Parked
  <2>4. t.status = "running" => QuietTask(t, v)
    BY <2>1 DEF Gen, QuietTask, Parked
  <2>5. gs[g] = u \/ (t.status = "running" /\ gs[g] = v)
    BY <2>2 DEF Stopped, m
  <2> HIDE DEF u, v
  <2>6. QuietTask(t, gs[g])
    BY <2>3, <2>4, <2>5
  <2> QED BY <2>6 DEF t
<1>4. \A k \in Comps : /\ ks[k].phase = conv.comps[k].phase
                       /\ ks[k].owner = conv.comps[k].owner /\ ks[k].cut = conv.comps[k].cut
  <2> TAKE k \in Comps
  <2> DEFINE t == conv.comps[k]
             m == t.restarts + n
             v == [t EXCEPT !.status = "ready", !.restarts = m]
  <2>1. t \in Comp
    BY CompsAre
  <2>2. ks[k] = Stopped(t, n)
    OBVIOUS
  <2> HIDE DEF ks, t, m
  <2>3. v.phase = t.phase /\ v.owner = t.owner /\ v.cut = t.cut
    BY <2>1 DEF Comp
  <2>4. ks[k] = t \/ ks[k] = v
    BY <2>2 DEF Stopped, m
  <2> HIDE DEF v
  <2>5. ks[k].phase = t.phase /\ ks[k].owner = t.owner /\ ks[k].cut = t.cut
    BY <2>3, <2>4
  <2> QED BY <2>5 DEF t
<1> HIDE DEF gs, cs, ks
<1>5. /\ conv'.gens = gs /\ conv'.comps = ks
      /\ conv'.entries = conv.entries /\ conv'.inbox = conv.inbox /\ conv'.lost = conv.lost
      /\ conv'.subs = conv.subs
  BY <1>1, <1>2 DEF Conv
<1>6. Eased(conv, conv')
  BY ReopensEased
<1>7. \A g \in DOMAIN conv.gens : QuietTask(conv.gens[g], conv'.gens[g])
  BY <1>3, <1>5 DEF Gens
<1>8. \A k \in DOMAIN conv.comps : /\ conv'.comps[k].phase = conv.comps[k].phase
                                   /\ conv'.comps[k].owner = conv.comps[k].owner
                                   /\ conv'.comps[k].cut = conv.comps[k].cut
  BY <1>4, <1>5 DEF Comps
<1> QED BY <1>2, <1>5, <1>6, <1>7, <1>8, LulledBy

LEMMA ReopenedLulls ==
  ASSUME ConvInv, Crash \/ Close
  PROVE  Lulled(conv, conv') /\ conv'.subs = conv.subs /\ conv'.inbox = conv.inbox
  BY ReopenedAs, ReopensLulls

-----------------------------------------------------------------------------
(* Admission, and compactions                                               *)

\* An idle conversation has nothing prepared.
LEMMA IdleUnread == ASSUME ConvInv, ~Busy(conv) PROVE Unread
<1>1. \A g \in Gens : conv.gens[g].phase = "ended"
  BY InvFacts
<1> QED BY <1>1 DEF Unread, ConvInv, Flying

\* Nothing is prepared while the generation waits for a compaction.
LEMMA OwnedUnread ==
  ASSUME ConvInv, ContextInv, NEW k \in Comps, LiveComp(conv, k), conv.comps[k].owner # 0
  PROVE  Unread /\ \A j \in Comps \ {k} : LiveComp(conv, j) => conv.comps[j].owner = 0
<1> DEFINE g == conv.comps[k].owner
<1>1. g \in Gens /\ g = conv.run.task /\ conv.gens[g].phase = "prepare" /\ conv.gens[g].comp = k
      /\ Parked(conv.gens[g])
  BY OwnerParked
<1> HIDE DEF g
<1>2. \A h \in Gens \ {g} : conv.gens[h].fly = "none"
  BY <1>1, OthersUnread
<1>3. conv.gens[g].fly # "prepared"
  BY <1>1 DEF ConvInv, Flying, Parked
<1>4. ASSUME NEW j \in Comps \ {k}, LiveComp(conv, j), conv.comps[j].owner # 0 PROVE FALSE
  <2>1. conv.comps[j].owner = conv.run.task /\ conv.gens[conv.comps[j].owner].comp = j
    BY <1>4, OwnerParked
  <2> QED BY <1>1, <2>1
<1> QED BY <1>2, <1>3, <1>4 DEF Unread

LEMMA AdmitContext ==
  ASSUME ConvInv, ContextInv, NEW d \in Draft, d.kind = "continue" => ~Busy(conv),
         d.kind = "summary" => d.cut <= Len(conv.entries),
         NEW s, s = Admit(conv, d), conv' \in Conv, conv'.gens = s.gens, conv'.entries = s.entries,
         conv'.slots = s.slots, conv'.inbox = s.inbox, DOMAIN conv'.comps = Comps,
         \A k \in Comps : Calmer(conv.comps[k], conv'.comps[k])
  PROVE  ContextKept
<1>1. conv \in Conv /\ conv'.comps \in Seq(Comp)
  BY InvFacts DEF Conv
<1>2. Forward(conv, conv')
  <2>1. Forward(conv, s)
    BY <1>1, AdmitForward
  <2> QED BY <2>1 DEF Forward, HeadsKnown
<1>3. Opens(conv, s)
  BY <1>1, AdmitOpens
<1>4. CASE Busy(conv)
  <2>1. s.gens = conv.gens /\ s.slots = conv.slots
    BY <1>3, <1>4 DEF Opens, Framed
  <2>2. Gens' = Gens /\ \A g \in Gens : QuietTask(conv.gens[g], conv'.gens[g])
    BY <2>1 DEF Gens, QuietTask
  <2>3. /\ ActiveFrom(s.entries) = ActiveFrom(conv.entries)
        /\ Messages(s.entries) = Messages(conv.entries)
    <3> DEFINE e == Entry("display", NextId(conv), 0)
               a == Admitted(conv, d, "done")
    <3>1. \/ d.kind = "display" /\ s = AppendEntry(a, e)
          \/ d.kind # "continue" /\ s = Queued(conv, d)
      BY <1>1, <1>4, AdmitCases DEF AdmitsAs
    <3>2. CASE d.kind # "continue" /\ s = Queued(conv, d)
      BY <1>1, <3>2, QueuedIs
    <3>3. CASE s = AppendEntry(a, e)
      <4>1. a \in Conv /\ a.entries = conv.entries /\ NextId(conv) \in Nat
        BY <1>1, AdmittedIs DEF SubStatus
      <4>2. e \in EntryType /\ e.kind = "display"
        BY <4>1, EntryTyped DEF WriteKinds
      <4> HIDE DEF a, e
      <4>3. s.entries = Append(conv.entries, e)
        BY <3>3, <4>1, <4>2, AppendIs
      <4>4. conv.entries \in Seq(EntryType)
        BY <1>1 DEF Conv
      <4>5. Messages(s.entries) = Messages(conv.entries)
        BY <4>2, <4>3, <4>4, MessagesAppend
      <4>6. HeadOf(s.entries, Len(conv.entries) + 1) = 0
        <5>1. s.entries[Len(conv.entries) + 1] = e
          BY <4>2, <4>3, <4>4, RangeAppend
        <5> QED BY <4>2, <5>1, NoHead DEF HeadKinds
      <4>7. ActiveFrom(s.entries) = ActiveFrom(conv.entries)
        BY <4>2, <4>3, <4>4, <4>6, RangeAppend
      <4> QED BY <4>5, <4>7
    <3> QED BY <3>1, <3>2, <3>3
  <2>4. QuietComps
    BY <1>1, <1>2, <2>3, CalmComps
  <2> QED BY <1>2, <2>1, <2>2, <2>3, <2>4, QuietContext
<1>5. CASE ~Busy(conv)
  <2> DEFINE n == Len(conv.gens)
  <2>1. Unread /\ Alone
    BY <1>5, IdleUnread, AloneIdle
  <2>2. conv.gens \in Seq(Gen) /\ Gens = 1..n /\ n \in Nat
    BY <1>1, InvFacts DEF Conv
  <2> HIDE DEF n
  <2>3. /\ Gens \subseteq Gens' /\ \A g \in Gens : conv'.gens[g] = conv.gens[g]
        /\ \A g \in Gens' \ Gens : conv'.gens[g] = NewGeneration
    <3>1. CASE conv'.gens = conv.gens
      BY <3>1 DEF Gens
    <3>2. CASE conv'.gens = Append(conv.gens, NewGeneration)
      <4>1. DOMAIN conv'.gens = 1..(n + 1) /\ conv'.gens[n + 1] = NewGeneration
            /\ \A h \in 1..n : conv'.gens[h] = conv.gens[h]
        BY <2>2, <3>2, NewGenerationTyped DEF n
      <4> QED BY <2>2, <4>1 DEF Gens
    <3>3. conv'.gens = conv.gens \/ conv'.gens = Append(conv.gens, NewGeneration)
      BY <1>3 DEF Opens, Framed, Created
    <3> QED BY <3>1, <3>2, <3>3
  <2>4. NewGeneration.fly = "none"
    BY DEF NewGeneration
  <2>5. \A g \in Gens : QuietTask(conv.gens[g], conv'.gens[g])
    BY <2>3, QuietSelf
  <2>6. Unread'
    BY <2>1, <2>3, <2>4 DEF Unread
  <2>7. \A k \in Comps : LiveComp(conv', k) => conv'.comps[k].owner = 0
    BY <2>1 DEF Alone, LiveComp, Calmer
  <2>8. QuietComps
    BY <1>1, <1>2, <2>7, CalmComps
  <2>9. conv'.slots # <<>> => conv.slots # <<>>
    BY <1>3 DEF Opens, Framed, Created
  <2> QED BY <1>2, <2>3, <2>4, <2>5, <2>6, <2>8, <2>9, QuietContext
<1> QED BY <1>4, <1>5

LEMMA SubmitContext == ASSUME ConvInv, ContextInv, NEW d \in Drafts, Submit(d) PROVE ContextKept
<1>1. /\ conv' = Admit(conv, d) /\ ~Rejected(conv, d)
      /\ d.kind = "summary" => d.cut \in DOMAIN conv.entries
  BY DEF Submit
<1>2. d \in Draft /\ (d.kind = "continue" => ~Busy(conv)) /\ conv \in Conv
  BY <1>1, DraftsAssumption, InvFacts DEF Rejected
<1>3. conv' \in Conv /\ conv'.comps = conv.comps
  <2>1. Opens(conv, conv')
    BY <1>1, <1>2, AdmitOpens
  <2> QED BY <2>1 DEF Opens, Framed, Created
<1>4. \A k \in Comps : Calmer(conv.comps[k], conv'.comps[k])
  BY <1>3 DEF Calmer
<1>5. d.kind = "summary" => d.cut <= Len(conv.entries)
  BY <1>1, InvFacts
<1> QED BY <1>1, <1>2, <1>3, <1>4, <1>5, AdmitContext DEF Comps

LEMMA WithCompAtIs ==
  ASSUME NEW s \in Conv, NEW k \in DOMAIN s.comps, NEW v \in Comp, NEW r, r = WithCompAt(s, k, v)
  PROVE  /\ r \in Conv /\ DOMAIN r.comps = DOMAIN s.comps /\ r.comps[k] = v
         /\ \A j \in DOMAIN s.comps \ {k} : r.comps[j] = s.comps[j]
         /\ r.gens = s.gens /\ r.entries = s.entries /\ r.run = s.run /\ r.slots = s.slots
         /\ r.inbox = s.inbox /\ r.subs = s.subs /\ r.lost = s.lost
<1>1. r \in Conv /\ r.comps = Put(s.comps, k, v) /\ DOMAIN r.comps = DOMAIN s.comps
      /\ r.gens = s.gens /\ r.entries = s.entries /\ r.run = s.run /\ r.slots = s.slots
  BY WithCompAtTyped
<1>2. r.inbox = s.inbox /\ r.subs = s.subs /\ r.lost = s.lost
  BY DEF WithCompAt, Conv
<1>3. r.comps[k] = v /\ \A j \in DOMAIN s.comps \ {k} : r.comps[j] = s.comps[j]
  BY <1>1 DEF Put
<1> QED BY <1>1, <1>2, <1>3

LEMMA EndCompIs ==
  ASSUME NEW s \in Conv, NEW k \in DOMAIN s.comps, NEW out \in Outs, NEW r, r = EndComp(s, k, out)
  PROVE  /\ r \in Conv /\ DOMAIN r.comps = DOMAIN s.comps
         /\ r.comps[k].phase = "ended" /\ r.comps[k].cut = 0
         /\ \A j \in DOMAIN s.comps \ {k} : r.comps[j] = s.comps[j]
         /\ r.gens = s.gens /\ r.entries = s.entries /\ r.run = s.run /\ r.slots = s.slots
         /\ r.inbox = s.inbox /\ r.subs = s.subs /\ r.lost = s.lost
<1> DEFINE t == s.comps[k]
           v == [t EXCEPT !.phase = "ended", !.status = "ready", !.restarts = 0,
                          !.marked = FALSE, !.attempt = 0, !.cut = 0, !.out = out]
<1>1. s.comps \in Seq(Comp)
  BY DEF Conv
<1>2. t \in Comp
  BY <1>1
<1>3. r = WithCompAt(s, k, v)
  BY DEF EndComp, WithCompAt, Put
<1> HIDE DEF t
<1>4. v \in Comp /\ v.phase = "ended" /\ v.cut = 0
  BY <1>2 DEF Comp, Statuses, Outs
<1> HIDE DEF v
<1> QED BY <1>3, <1>4, WithCompAtIs

LEMMA CompMoveContext ==
  ASSUME ConvInv, ContextInv, NEW k \in Comps, conv' \in Conv, DOMAIN conv'.comps = Comps,
         Calmer(conv.comps[k], conv'.comps[k]), \A j \in Comps \ {k} : conv'.comps[j] = conv.comps[j],
         conv'.gens = conv.gens, conv'.entries = conv.entries, conv'.slots = conv.slots,
         conv'.inbox = conv.inbox
  PROVE  ContextKept
<1>1. conv \in Conv /\ conv'.comps \in Seq(Comp)
  BY InvFacts DEF Conv
<1>2. \A j \in Comps : Calmer(conv.comps[j], conv'.comps[j])
  <2>1. \A j \in Comps \ {k} : Calmer(conv.comps[j], conv'.comps[j])
    BY DEF Calmer
  <2> QED BY <2>1
<1>3. Steady(conv, conv')
  BY <1>1, ForwardSame DEF Steady
<1>4. QuietComps
  BY <1>1, <1>2, <1>3, CalmComps DEF Steady
<1>5. Gens' = Gens /\ \A g \in Gens : QuietTask(conv.gens[g], conv'.gens[g])
  BY QuietSelf DEF Gens
<1> QED BY <1>3, <1>4, <1>5, QuietContext DEF Steady

LEMMA CompPlaceContext ==
  ASSUME ConvInv, ContextInv, NEW k \in Comps, CompPlace(k)
  PROVE  ContextKept
<1> DEFINE t == conv.comps[k]
           d == [kind |-> "summary", busy |-> "followUp", idle |-> "run", cut |-> t.cut, req |-> 0]
           e == Entry("summary", 0, t.cut)
           a == AppendEntry(conv, e)
           b == Admit(conv, d)
<1>1. t.phase = "summarize"
      /\ conv' = IF t.owner # 0 THEN EndComp(a, k, "summary") ELSE EndComp(b, k, "summary")
  BY DEF CompPlace, CompAt
<1>2. conv \in Conv /\ t.cut \in Nat /\ t.cut <= Len(conv.entries) /\ LiveComp(conv, k)
      /\ k \in DOMAIN conv.comps /\ (t.owner # 0 => ActiveFrom(conv.entries) <= t.cut)
  <2> HIDE DEF a, b
  <2> QED BY <1>1, CompCut, InvFacts DEF LiveComp, Comps
<1>3. CASE t.owner # 0
  <2>1. e \in EntryType /\ e.kind = "summary" /\ e.m = t.cut
    BY <1>2, EntryTyped DEF WriteKinds, Entry
  <2> HIDE DEF b, d, e
  <2>2. Forward(conv, a)
    BY <1>2, <1>3, <2>1, AppendForward
  <2>3. a \in Conv /\ a.gens = conv.gens /\ a.slots = conv.slots /\ a.comps = conv.comps
    BY <1>2, <2>1, AppendIs
  <2>4. conv' = EndComp(a, k, "summary")
    BY <1>1, <1>3
  <2> HIDE DEF a
  <2>5. /\ conv' \in Conv /\ DOMAIN conv'.comps = DOMAIN a.comps
        /\ conv'.comps[k].phase = "ended" /\ conv'.comps[k].cut = 0
        /\ \A j \in DOMAIN a.comps \ {k} : conv'.comps[j] = a.comps[j]
        /\ conv'.gens = a.gens /\ conv'.entries = a.entries /\ conv'.slots = a.slots
        /\ conv'.inbox = a.inbox
    <3>1. a \in Conv /\ k \in DOMAIN a.comps /\ "summary" \in Outs
      BY <1>2, <2>3 DEF Outs
    <3> HIDE DEF t
    <3> QED BY ONLY <3>1, <2>4, EndCompIs
  <2>6. Unread /\ \A j \in Comps \ {k} : LiveComp(conv, j) => conv.comps[j].owner = 0
    BY <1>2, <1>3, OwnedUnread
  <2>7. Forward(conv, conv')
    BY <2>2, <2>5 DEF Forward, HeadsKnown
  <2>8. QuietComps
    <3>1. \A j \in Comps : LiveComp(conv', j) => conv'.comps[j].owner = 0
      BY <2>3, <2>5, <2>6 DEF LiveComp, Comps
    <3>2. \A j \in Comps : Calmer(conv.comps[j], conv'.comps[j])
      BY <2>3, <2>5 DEF Calmer, Comps
    <3>3. conv'.comps \in Seq(Comp) /\ DOMAIN conv'.comps = Comps
      BY <2>3, <2>5 DEF Conv, Comps
    <3> QED BY <2>7, <3>1, <3>2, <3>3, CalmComps
  <2>9. Gens' = Gens /\ Unread' /\ \A g \in Gens : QuietTask(conv.gens[g], conv'.gens[g])
    BY <2>3, <2>5, <2>6, QuietSelf DEF Gens, Unread
  <2> QED BY <2>3, <2>5, <2>7, <2>8, <2>9, QuietContext
<1>4. CASE t.owner = 0
  <2>1. d \in Draft /\ d.kind = "summary" /\ d.cut = t.cut
    BY <1>2 DEF Draft, WriteKinds
  <2> HIDE DEF a, d, e
  <2>2. b \in Conv /\ b.comps = conv.comps
    <3>1. Opens(conv, b)
      BY <1>2, <2>1, AdmitOpens
    <3> QED BY <3>1 DEF Opens, Framed, Created
  <2>3. conv' = EndComp(b, k, "summary") /\ b = Admit(conv, d)
    BY <1>1, <1>4
  <2> HIDE DEF b
  <2>4. /\ conv' \in Conv /\ DOMAIN conv'.comps = DOMAIN b.comps
        /\ conv'.comps[k].phase = "ended" /\ conv'.comps[k].cut = 0
        /\ \A j \in DOMAIN b.comps \ {k} : conv'.comps[j] = b.comps[j]
        /\ conv'.gens = b.gens /\ conv'.entries = b.entries /\ conv'.slots = b.slots
        /\ conv'.inbox = b.inbox
    <3>1. b \in Conv /\ k \in DOMAIN b.comps /\ "summary" \in Outs
      BY <1>2, <2>2 DEF Outs
    <3> HIDE DEF t
    <3> QED BY ONLY <3>1, <2>3, EndCompIs
  <2>5. \A j \in Comps : Calmer(conv.comps[j], conv'.comps[j])
    BY <2>2, <2>4 DEF Calmer, Comps
  <2>6. DOMAIN conv'.comps = Comps
    BY <2>2, <2>4 DEF Comps
  <2> QED BY <1>2, <2>1, <2>3, <2>4, <2>5, <2>6, AdmitContext
<1> QED BY <1>3, <1>4

LEMMA CutKept ==
  ASSUME NEW v \in Comp, NEW w, w.owner = v.owner, w.cut = v.cut, v.phase # "ended",
         w.phase \in {"summarize", "retry"} => v.phase \in {"summarize", "retry"}
  PROVE  Calmer(v, w)
  BY DEF Calmer

LEMMA CompactionContext ==
  ASSUME ConvInv, ContextInv, NEW k \in Comps, Compaction(k) \/ CompFaults(k)
  PROVE  ContextKept
<1> DEFINE t == conv.comps[k]
<1>1. t \in Comp /\ conv \in Conv /\ k \in DOMAIN conv.comps
  BY CompFacts DEF Comps
<1>2. ASSUME NEW v \in Comp, conv' = WithCompAt(conv, k, v), Calmer(t, v)
      PROVE  ContextKept
  <2>1. /\ conv' \in Conv /\ DOMAIN conv'.comps = Comps /\ conv'.comps[k] = v
        /\ \A j \in Comps \ {k} : conv'.comps[j] = conv.comps[j]
        /\ conv'.gens = conv.gens /\ conv'.entries = conv.entries /\ conv'.slots = conv.slots
        /\ conv'.inbox = conv.inbox
    BY <1>1, <1>2, WithCompAtIs DEF Comps
  <2> QED BY <1>2, <2>1, CompMoveContext
<1>3. CASE \E out \in Outs : conv' = EndComp(conv, k, out)
  <2>1. /\ conv' \in Conv /\ DOMAIN conv'.comps = Comps
        /\ conv'.comps[k].phase = "ended" /\ conv'.comps[k].cut = 0
        /\ \A j \in Comps \ {k} : conv'.comps[j] = conv.comps[j]
        /\ conv'.gens = conv.gens /\ conv'.entries = conv.entries /\ conv'.slots = conv.slots
        /\ conv'.inbox = conv.inbox
    BY <1>1, <1>3, EndCompIs DEF Comps
  <2>2. Calmer(t, conv'.comps[k])
    BY <2>1 DEF Calmer
  <2> QED BY <2>1, <2>2, CompMoveContext
<1>4. CASE CompReserve(k)
  <2> DEFINE v == [t EXCEPT !.status = "running"]
  <2>1. conv' = WithCompAt(conv, k, v) /\ t.phase # "ended"
    BY <1>4 DEF CompReserve, WithCompAt, Put, LiveComp
  <2> HIDE DEF t
  <2>2. v \in Comp /\ v.owner = t.owner /\ v.cut = t.cut /\ v.phase = t.phase
    BY <1>1 DEF Comp, Statuses
  <2> HIDE DEF v
  <2> QED BY <1>1, <1>2, <2>1, <2>2, CutKept
<1>5. CASE CompNothing(k) \/ CompNoModel(k) \/ CompCutOff(k) \/ CompAborts(k) \/ CompFaults(k)
  BY <1>3, <1>5 DEF CompNothing, CompNoModel, CompCutOff, CompAborts, CompFaults, Outs
<1>6. CASE \E permanent \in BOOLEAN : CompError(k, permanent)
  <2>1. /\ t.phase = "summarize"
        /\ conv' = CompMoved(k, "retry", "sleeping") \/ conv' = EndComp(conv, k, "failed")
    BY <1>6 DEF CompError, CompAt
  <2>2. CASE conv' = EndComp(conv, k, "failed")
    BY <1>3, <2>2 DEF Outs
  <2>3. CASE conv' = CompMoved(k, "retry", "sleeping")
    <3> DEFINE v == CompGoing(t, "retry", "sleeping")
    <3>1. conv' = WithCompAt(conv, k, v) /\ v \in Comp
      BY <2>3, CompMovedIs DEF Statuses
    <3> HIDE DEF t
    <3>2. v.owner = t.owner /\ v.cut = t.cut
      BY <1>1 DEF CompGoing, Comp
    <3> HIDE DEF v
    <3> QED BY <1>1, <1>2, <2>1, <3>1, <3>2, CutKept
  <2> QED BY <2>1, <2>2, <2>3
<1>7. CASE CompRetry(k)
  <2> DEFINE v == CompGoing(t, "summarize", "running")
             m == CompMoved(k, "summarize", "running")
             n == t.attempt + 1
             w == [v EXCEPT !.attempt = n]
  <2>1. conv' = [m EXCEPT !.comps[k].attempt = n]
    BY <1>7, Zenon DEF CompRetry
  <2>2. t.phase = "retry" /\ n \in Nat
    BY <1>7, CompFacts DEF CompRetry, CompAt
  <2>3. m = WithCompAt(conv, k, v) /\ v \in Comp
    BY CompMovedIs DEF Statuses
  <2> HIDE DEF n, t
  <2>4. v.owner = t.owner /\ v.cut = t.cut
    BY <1>1 DEF CompGoing, Comp
  <2> HIDE DEF v
  <2>5. w \in Comp /\ w.owner = t.owner /\ w.cut = t.cut
    BY <2>2, <2>3, <2>4 DEF Comp
  <2>6. m.comps[k] = v /\ m \in Conv /\ WithCompAt(m, k, w) = WithCompAt(conv, k, w)
    <3> HIDE DEF m, w
    <3> QED BY <1>1, <2>3, <2>5, CompAmended
  <2> HIDE DEF m
  <2>7. conv' = WithCompAt(m, k, w)
    BY <2>1, <2>6 DEF WithCompAt, Put
  <2> HIDE DEF w
  <2>8. conv' = WithCompAt(conv, k, w)
    BY <2>6, <2>7
  <2> QED BY <1>1, <1>2, <2>2, <2>5, <2>8, CutKept
<1>8. CASE CompSelect(k)
  <2> DEFINE v == CompGoing(t, "summarize", "running")
             m == CompMoved(k, "summarize", "running")
  <2>1. PICK cut \in Cuts(conv.entries) : conv' = [m EXCEPT !.comps[k].cut = cut]
    BY <1>8, Zenon DEF CompSelect
  <2>2. t.phase = "select"
    BY <1>8 DEF CompSelect, CompAt
  <2>3. m = WithCompAt(conv, k, v) /\ v \in Comp
    BY CompMovedIs DEF Statuses
  <2>4. cut \in Nat /\ cut <= Len(conv.entries) /\ ActiveFrom(conv.entries) <= cut
    <3>1. cut \in DOMAIN conv.entries /\ cut >= ActiveFrom(conv.entries)
      BY DEF Cuts, Active
    <3>2. conv.entries \in Seq(EntryType)
      BY InvFacts
    <3>3. ActiveFrom(conv.entries) \in Nat
      BY <3>2, ActiveFromTyped
    <3> QED BY <3>1, <3>2, <3>3
  <2> HIDE DEF t
  <2>5. v.owner = t.owner
    BY <1>1 DEF CompGoing, Comp
  <2> HIDE DEF v
  <2> DEFINE w == [v EXCEPT !.cut = cut]
  <2>6. w \in Comp /\ w.owner = t.owner /\ w.cut = cut
    BY <2>3, <2>4, <2>5 DEF Comp
  <2>7. m.comps[k] = v /\ m \in Conv /\ WithCompAt(m, k, w) = WithCompAt(conv, k, w)
    <3> HIDE DEF m, w
    <3> QED BY <1>1, <2>3, <2>6, CompAmended
  <2> HIDE DEF m
  <2>8. conv' = WithCompAt(m, k, w)
    BY <2>1, <2>7 DEF WithCompAt, Put
  <2> HIDE DEF w
  <2>9. conv' = WithCompAt(conv, k, w)
    BY <2>7, <2>8
  <2>10. Calmer(t, w)
    BY <2>2, <2>4, <2>6 DEF Calmer
  <2> QED BY <1>2, <2>6, <2>9, <2>10
<1> QED BY <1>4, <1>5, <1>6, <1>7, <1>8, CompPlaceContext DEF Compaction

-----------------------------------------------------------------------------
(* The theorems                                                             *)

LEMMA InitContext == Init => ContextInv
<1> SUFFICES ASSUME Init PROVE ContextInv
  OBVIOUS
<1>1. conv.entries = <<>> /\ conv.inbox = <<>> /\ conv.gens = <<>> /\ conv.slots = <<>> /\ conv.comps = <<>>
  BY DEF Init
<1>2. ActiveFrom(conv.entries) = 0
  <2>1. <<>> \in Seq(EntryType) /\ Len(<<>>) = 0
    OBVIOUS
  <2>2. PICK es \in Seq(EntryType) : es = <<>> /\ Len(es) = 0
    BY <2>1
  <2>3. LatestHeadMarker(es) \in 0..Len(es)
    BY MarkerIs
  <2>4. LatestHeadMarker(es) = 0
    BY <2>2, <2>3
  <2> QED BY <1>1, <2>2, <2>4 DEF ActiveFrom
<1> QED BY <1>1, <1>2 DEF ContextInv, HeadsKnown, ContextCurrent, CompsKnown, RoundOpen, Gens, Comps

LEMMA GenerationContext ==
  ASSUME ConvInv, ContextInv, ConvInv', NEW g \in Gens,
         \/ Generation(g) \/ Reply(g) \/ Deferred(g) \/ ShowPartial(g) \/ NoModel(g)
         \/ AbortTask(g) \/ Faults(g)
  PROVE  ContextKept
<1>1. CASE \/ PrepareFails(g) \/ NoModel(g) \/ Drain(g) \/ EndAnsweredCutOff(g) \/ EndCutOff(g)
           \/ Aborts(g) \/ Faults(g) \/ SchedulerEnds(g)
  BY <1>1, EndsContext
<1>2. CASE Reserve(g) \/ PrepareReads(g) \/ PrepareBlocks(g) \/ PrepareCommits(g) \/ Request(g)
  BY <1>2, ReserveContext, PrepareReadsContext, PrepareBlocksContext, PrepareCommitsContext,
     RequestContext
<1>3. CASE \/ Interrupted(g) \/ Retry(g) \/ NextCall(g) \/ FinishToolRound(g) \/ Finish(g)
           \/ AfterRunTaskEnds(g)
  BY <1>3, InterruptedContext, RetryContext, NextCallContext, FinishToolRoundContext, FinishContext,
     AfterRunTaskEndsContext
<1>4. CASE Cascade(g) \/ AbortTask(g)
  BY <1>4, CascadeLulls, AbortTaskLulls, LulledContext
<1>5. CASE Reply(g)
  BY <1>5, StartToolRoundContext, AnswerContext, ModelErrorContext, OverflowContext DEF Reply
<1>6. CASE Deferred(g) \/ ShowPartial(g)
  BY <1>6, DeferredContext, PartialContext
<1> QED BY <1>1, <1>2, <1>3, <1>4, <1>5, <1>6 DEF Generation

LEMMA NextContext == ConvInv /\ ContextInv /\ [Next]_vars => ContextKept
<1> SUFFICES ASSUME ConvInv, ContextInv, [Next]_vars PROVE ContextKept
  OBVIOUS
<1>1. ConvInv'
  BY NextInv
<1>2. CASE UNCHANGED vars
  <2>1. conv \in Conv
    BY InvFacts
  <2>2. conv' = conv
    BY <1>2 DEF vars
  <2>3. Lulled(conv, conv)
    <3>1. /\ \A g \in DOMAIN conv.gens : QuietTask(conv.gens[g], conv.gens[g])
          /\ \A k \in DOMAIN conv.comps : /\ conv.comps[k].phase = conv.comps[k].phase
                                   /\ conv.comps[k].owner = conv.comps[k].owner /\ conv.comps[k].cut = conv.comps[k].cut
      BY QuietSelf
    <3>2. Eased(conv, conv)
      BY <2>1, FramedSelf, FramedEased
    <3> QED BY <2>1, <3>1, <3>2, LulledBy
  <2> QED BY <2>2, <2>3, LulledContext
<1>3. CASE Client
  BY <1>3, SubmitContext, AbortSubmissionContext, CompactContext DEF Client
<1>4. CASE \E g \in Gens : \/ Generation(g) \/ Reply(g) \/ Deferred(g) \/ ShowPartial(g) \/ NoModel(g)
                           \/ AbortTask(g) \/ Faults(g)
  BY <1>1, <1>4, GenerationContext
<1>5. CASE \E c \in DOMAIN conv.slots : Tool(c) \/ ToolFaults(c)
  BY <1>1, <1>5, ToolContext
<1>6. CASE \E k \in Comps : Compaction(k) \/ CompFaults(k)
  BY <1>6, CompactionContext
<1>7. CASE StorePartial
  BY <1>7, PartialContext
<1>8. CASE \/ AbortConversation \/ Crash \/ Close
           \/ \E c \in DOMAIN conv.slots : AbortWork({c}, {})
           \/ \E k \in Comps : AbortWork({}, {k})
  BY <1>8, AbortConversationLulls, ReopenedLulls, AbortWorkLulls, LulledContext
<1> QED BY <1>2, <1>3, <1>4, <1>5, <1>6, <1>7, <1>8 DEF Next

\* What keeps a context current holds in every reachable state: heads lie in the
\* transcript, a compaction that a generation waits for cuts the range that is
\* active, and slots are those of a round.
THEOREM ContextInvariant == Spec => []ContextInv
<1>1. Init => ConvInv /\ ContextInv
  BY InitInv, InitContext
<1>2. ConvInv /\ ContextInv /\ [Next]_vars => (ConvInv /\ ContextInv)'
  BY NextInv, NextContext DEF ContextKept
<1> QED BY <1>1, <1>2, PTL DEF Spec

\* The context a request was prepared from, off the session's line, is still the
\* context of the conversation when it is committed, whatever is submitted,
\* placed, compacted, aborted or crashes meanwhile (prepare, placeSummary).
THEOREM PreparedIsCurrent == Spec => []ContextCurrent
<1>1. ContextInv => ContextCurrent
  BY DEF ContextInv
<1> QED BY <1>1, ContextInvariant, PTL

\* The active range of the transcript never grows back: no summary, however late
\* it lands, brings back what a reset or another summary cut off (isStale,
\* placeSummary).
THEOREM RangeMovesForward == Spec => HeadsMoveForward
<1>1. ConvInv /\ ContextInv /\ [Next]_vars => [ActiveFrom(conv.entries') >= ActiveFrom(conv.entries)]_conv
  <2> SUFFICES ASSUME ConvInv, ContextInv, [Next]_vars
               PROVE  ActiveFrom(conv.entries') >= ActiveFrom(conv.entries)
    OBVIOUS
  <2>1. ConvInv' /\ ContextKept
    BY NextInv, NextContext
  <2>2. conv.entries \in Seq(EntryType) /\ conv.entries' \in Seq(EntryType)
    BY <2>1, InvFacts DEF ConvInv, TypeOK, Conv
  <2>3. ActiveFrom(conv.entries) \in Nat /\ ActiveFrom(conv.entries') \in Nat
    BY <2>2, ActiveFromTyped
  <2>4. ActiveFrom(conv.entries) <= ActiveFrom(conv.entries')
    BY <2>1 DEF ContextKept
  <2> QED BY <2>3, <2>4
<1> QED BY <1>1, ConversationInvariant, ContextInvariant, PTL DEF Spec, HeadsMoveForward

=============================================================================
