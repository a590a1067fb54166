---------------------- MODULE ConversationRoundsProofs ----------------------
(***************************************************************************)
(* Theorems about the tool rounds of ConversationRuns: that each call of   *)
(* an answer gets one result before the next answer, or is known to have   *)
(* none, however its round ends.                                           *)
(***************************************************************************)
EXTENDS ConversationInputsProofs

-----------------------------------------------------------------------------
(* Transcripts whose calls have their results                               *)

\* The transcript only gets longer, by entries that are neither answers with
\* calls nor results.
Plain(es, fs) ==
  /\ Len(es) <= Len(fs)
  /\ \A i \in 1..Len(es) : fs[i] = es[i]
  /\ \A i \in (Len(es) + 1)..Len(fs) : fs[i].kind \notin {"calls", "result"}

LEMMA PlainSelf == ASSUME NEW es \in Seq(EntryType) PROVE Plain(es, es)
  BY DEF Plain

LEMMA PlainTrans ==
  ASSUME NEW es \in Seq(EntryType), NEW fs \in Seq(EntryType), NEW gs \in Seq(EntryType),
         Plain(es, fs), Plain(fs, gs)
  PROVE  Plain(es, gs)
<1>1. Len(es) \in Nat /\ Len(fs) \in Nat /\ Len(gs) \in Nat
  OBVIOUS
<1>2. ASSUME NEW i \in (Len(es) + 1)..Len(gs) PROVE gs[i].kind \notin {"calls", "result"}
  <2>1. CASE i <= Len(fs)
    BY <1>1, <2>1 DEF Plain
  <2>2. CASE i > Len(fs)
    BY <1>1, <2>2 DEF Plain
  <2> QED BY <1>1, <2>1, <2>2
<1>3. \A i \in 1..Len(es) : gs[i] = es[i]
  BY <1>1 DEF Plain
<1> QED BY <1>1, <1>2, <1>3 DEF Plain

LEMMA GrowsPlain ==
  ASSUME NEW es, NEW fs, Grows(es, fs)
  PROVE  Plain(es, fs)
  BY DEF Grows, Plain, TaskKinds, SaidKinds

\* Entries that do not matter to the calls keep them settled.
LEMMA PlainPaired ==
  ASSUME NEW es \in Seq(EntryType), NEW fs \in Seq(EntryType), Plain(es, fs), NEW bare, Paired(es, bare)
  PROVE  Paired(fs, bare)
<1>1. /\ DOMAIN es = 1..Len(es) /\ DOMAIN fs = 1..Len(fs) /\ Len(es) \in Nat /\ Len(fs) \in Nat
      /\ DOMAIN es \subseteq DOMAIN fs
  BY DEF Plain
<1>2. \A p, c : ResultsOf(fs, p, c) = ResultsOf(es, p, c)
  BY <1>1 DEF ResultsOf, Plain
<1> SUFFICES ASSUME NEW p \in DOMAIN fs, fs[p].kind = "calls", NEW c \in 1..fs[p].calls
             PROVE  Settled(fs, p, c, bare)
  BY DEF Paired
<1>3. p \in DOMAIN es /\ es[p] = fs[p]
  BY <1>1 DEF Plain
<1>4. Settled(es, p, c, bare)
  BY <1>3 DEF Paired
<1>5. IF <<p, c>> \in bare THEN ResultsOf(fs, p, c) = {} ELSE \E r \in DOMAIN fs : ResultsOf(fs, p, c) = {r}
  BY <1>1, <1>2, <1>4 DEF Settled
<1>6. ASSUME NEW r \in ResultsOf(fs, p, c)
      PROVE  p < r /\ \A a \in (p + 1)..r : Role(fs[a]) # "assistant"
  <2>0. r \in ResultsOf(es, p, c)
    BY <1>2
  <2>1. r \in ResultsOf(es, p, c) /\ r \in DOMAIN es
    BY <2>0 DEF ResultsOf
  <2>2. p < r /\ \A a \in (p + 1)..r : Role(es[a]) # "assistant"
    BY <1>4, <2>1 DEF Settled
  <2>3. \A a \in (p + 1)..r : fs[a] = es[a]
    BY <1>1, <1>3, <2>1 DEF Plain
  <2> QED BY <2>2, <2>3
<1> QED BY <1>5, <1>6 DEF Settled

\* The results of calls of the answer at p, which is the last.
Answers(es, fs, p, calls) ==
  /\ Len(fs) = Len(es) + Len(calls)
  /\ \A i \in 1..Len(es) : fs[i] = es[i]
  /\ \A k \in 1..Len(calls) : fs[Len(es) + k] = Entry("result", calls[k], p)

\* The answer at p is the last one.
LastAnswer(es, p) ==
  /\ p \in DOMAIN es /\ es[p].kind = "calls"
  /\ \A a \in DOMAIN es : a > p => Role(es[a]) # "assistant"

Distinct(calls) == \A j, k \in DOMAIN calls : calls[j] = calls[k] => j = k

\* Of what was bare, these calls of the answer at p are not any more.
Answering(p, calls, bare, left) ==
  /\ \A k \in DOMAIN calls : <<p, calls[k]>> \in bare
  /\ \A q, c : <<q, c>> \in left <=> <<q, c>> \in bare /\ ~(q = p /\ \E k \in DOMAIN calls : calls[k] = c)

LEMMA AnswersPaired ==
  ASSUME NEW es \in Seq(EntryType), NEW fs \in Seq(EntryType), NEW p, LastAnswer(es, p),
         NEW calls \in Seq(Nat), Distinct(calls), Answers(es, fs, p, calls),
         NEW bare, Paired(es, bare), NEW left, Answering(p, calls, bare, left)
  PROVE  Paired(fs, left) /\ LastAnswer(fs, p)
<1>0. /\ p \in DOMAIN es /\ es[p].kind = "calls" /\ \A a \in DOMAIN es : a > p => Role(es[a]) # "assistant"
      /\ \A j, k \in DOMAIN calls : calls[j] = calls[k] => j = k
      /\ \A k \in DOMAIN calls : <<p, calls[k]>> \in bare
      /\ \A q, c : <<q, c>> \in left <=>
                      <<q, c>> \in bare /\ ~(q = p /\ \E k \in DOMAIN calls : calls[k] = c)
  BY DEF LastAnswer, Distinct, Answering
<1>1. /\ DOMAIN es = 1..Len(es) /\ DOMAIN fs = 1..Len(fs) /\ Len(es) \in Nat /\ Len(fs) \in Nat
      /\ DOMAIN calls = 1..Len(calls) /\ Len(calls) \in Nat /\ Len(fs) = Len(es) + Len(calls)
  BY DEF Answers
<1>2. \A i \in DOMAIN es : i \in DOMAIN fs /\ fs[i] = es[i]
  BY <1>1 DEF Answers
<1>3. ASSUME NEW i \in DOMAIN fs, i \notin DOMAIN es
      PROVE  \E k \in DOMAIN calls : i = Len(es) + k /\ fs[i] = Entry("result", calls[k], p)
  <2>1. i - Len(es) \in DOMAIN calls /\ i = Len(es) + (i - Len(es))
    BY <1>1, <1>3
  <2> QED BY <1>1, <2>1 DEF Answers
<1>4. \A k \in DOMAIN calls : /\ Len(es) + k \in DOMAIN fs /\ Len(es) + k \notin DOMAIN es
                              /\ fs[Len(es) + k] = Entry("result", calls[k], p)
  BY <1>1 DEF Answers
<1>5. \A n, m : /\ Entry("result", n, m).kind = "result" /\ Entry("result", n, m).n = n
                /\ Entry("result", n, m).m = m /\ Role(Entry("result", n, m)) = "result"
  BY DEF Entry, Role
<1>6. ASSUME NEW a \in DOMAIN fs, a > p PROVE Role(fs[a]) # "assistant"
  <2>1. CASE a \in DOMAIN es
    BY <1>0, <1>2, <1>6, <2>1
  <2>2. CASE a \notin DOMAIN es
    BY <1>3, <1>5, <2>2
  <2> QED BY <2>1, <2>2
<1>7. \A q, c : ~(q = p /\ \E k \in DOMAIN calls : calls[k] = c) => ResultsOf(fs, q, c) = ResultsOf(es, q, c)
  <2> SUFFICES ASSUME NEW q, NEW c, ~(q = p /\ \E k \in DOMAIN calls : calls[k] = c)
               PROVE  ResultsOf(fs, q, c) = ResultsOf(es, q, c)
    OBVIOUS
  <2>1. ASSUME NEW r, r \in ResultsOf(es, q, c) PROVE r \in ResultsOf(fs, q, c)
    BY <1>2, <2>1 DEF ResultsOf
  <2>2. ASSUME NEW r, r \in ResultsOf(fs, q, c) PROVE r \in ResultsOf(es, q, c)
    <3>1. r \in DOMAIN fs /\ fs[r].kind = "result" /\ fs[r].m = q /\ fs[r].n = c
      BY <2>2 DEF ResultsOf
    <3>2. r \in DOMAIN es
      <4> SUFFICES ASSUME r \notin DOMAIN es PROVE FALSE
        OBVIOUS
      <4>1. PICK k \in DOMAIN calls : fs[r] = Entry("result", calls[k], p)
        BY <1>3, <3>1
      <4> QED BY <1>5, <3>1, <4>1
    <3> QED BY <1>2, <3>1, <3>2 DEF ResultsOf
  <2> QED BY <2>1, <2>2
<1>8. ASSUME NEW k \in DOMAIN calls, ResultsOf(es, p, calls[k]) = {} PROVE ResultsOf(fs, p, calls[k]) = {Len(es) + k}
  <2>1. Len(es) + k \in ResultsOf(fs, p, calls[k])
    BY <1>4, <1>5 DEF ResultsOf
  <2>2. ASSUME NEW r \in ResultsOf(fs, p, calls[k]) PROVE r = Len(es) + k
    <3>1. r \in DOMAIN fs /\ fs[r].kind = "result" /\ fs[r].m = p /\ fs[r].n = calls[k]
      BY DEF ResultsOf
    <3>2. r \notin DOMAIN es
      BY <1>2, <1>8, <3>1 DEF ResultsOf
    <3>3. PICK j \in DOMAIN calls : r = Len(es) + j /\ fs[r] = Entry("result", calls[j], p)
      BY <1>3, <3>1, <3>2
    <3>4. calls[j] = calls[k]
      BY <1>5, <3>1, <3>3
    <3> QED BY <1>0, <3>3, <3>4
  <2> QED BY <2>1, <2>2
<1>l. LastAnswer(fs, p)
  BY <1>0, <1>2, <1>6 DEF LastAnswer
<1> SUFFICES ASSUME NEW q \in DOMAIN fs, fs[q].kind = "calls", NEW c \in 1..fs[q].calls
             PROVE  Settled(fs, q, c, left)
  BY <1>l DEF Paired
<1>9. q \in DOMAIN es /\ es[q] = fs[q]
  BY <1>2, <1>3, <1>5
<1>10. Settled(es, q, c, bare)
  BY <1>9 DEF Paired
<1>11. CASE q = p /\ \E k \in DOMAIN calls : calls[k] = c
  <2>1. PICK k \in DOMAIN calls : calls[k] = c
    BY <1>11
  <2>2. ResultsOf(es, p, c) = {}
    BY <1>0, <1>10, <1>11, <2>1 DEF Settled
  <2>3. ResultsOf(fs, p, c) = {Len(es) + k}
    BY <1>8, <2>1, <2>2
  <2>4. <<q, c>> \notin left
    BY <1>0, <1>11
  <2>5. p < Len(es) + k /\ \A a \in (p + 1)..(Len(es) + k) : a \in DOMAIN fs /\ a > p
    BY <1>0, <1>1
  <2>6. Len(es) + k \in DOMAIN fs
    BY <1>4
  <2> QED BY <1>6, <1>11, <2>3, <2>4, <2>5, <2>6 DEF Settled
<1>12. CASE ~(q = p /\ \E k \in DOMAIN calls : calls[k] = c)
  <2>1. ResultsOf(fs, q, c) = ResultsOf(es, q, c)
    BY <1>7, <1>12
  <2>2. <<q, c>> \in left <=> <<q, c>> \in bare
    BY <1>0, <1>12
  <2>3. ASSUME NEW r \in ResultsOf(fs, q, c)
        PROVE  q < r /\ \A a \in (q + 1)..r : Role(fs[a]) # "assistant"
    <3>1. r \in ResultsOf(es, q, c)
      BY <2>1
    <3>2. r \in DOMAIN es
      BY <3>1 DEF ResultsOf
    <3>3. q < r /\ \A a \in (q + 1)..r : Role(es[a]) # "assistant"
      BY <1>10, <3>1 DEF Settled
    <3>4. \A a \in (q + 1)..r : fs[a] = es[a]
      BY <1>1, <1>2, <1>9, <3>2
    <3> QED BY <3>3, <3>4
  <2>4. IF <<q, c>> \in left THEN ResultsOf(fs, q, c) = {} ELSE \E r \in DOMAIN fs : ResultsOf(fs, q, c) = {r}
    BY <1>2, <1>10, <2>1, <2>2 DEF Settled
  <2> QED BY <2>3, <2>4 DEF Settled
<1> QED BY <1>11, <1>12

\* An answer with calls that are still to be settled.
LEMMA CallsPaired ==
  ASSUME NEW es \in Seq(EntryType), NEW e \in EntryType, e.kind = "calls", NEW fs, fs = Append(es, e),
         \A r \in DOMAIN es : es[r].kind = "result" => es[r].m < r,
         NEW bare, \A q, c : <<q, c>> \in bare => q <= Len(es), Paired(es, bare),
         NEW more, \A q, c : <<q, c>> \in more <=> <<q, c>> \in bare \/ (q = Len(es) + 1 /\ c \in 1..e.calls)
  PROVE  Paired(fs, more)
<1>1. /\ DOMAIN es = 1..Len(es) /\ Len(es) \in Nat /\ fs \in Seq(EntryType) /\ Len(fs) = Len(es) + 1
      /\ DOMAIN fs = 1..(Len(es) + 1) /\ fs[Len(es) + 1] = e
      /\ \A i \in DOMAIN es : i \in DOMAIN fs /\ fs[i] = es[i]
  OBVIOUS
<1>2. \A p, c : ResultsOf(fs, p, c) = ResultsOf(es, p, c)
  BY <1>1 DEF ResultsOf
<1> SUFFICES ASSUME NEW p \in DOMAIN fs, fs[p].kind = "calls", NEW c \in 1..fs[p].calls
             PROVE  Settled(fs, p, c, more)
  BY DEF Paired
<1>3. CASE p \in DOMAIN es
  <2>1. Settled(es, p, c, bare) /\ p # Len(es) + 1
    BY <1>1, <1>3 DEF Paired
  <2>2. <<p, c>> \in more <=> <<p, c>> \in bare
    BY <2>1
  <2>3. IF <<p, c>> \in more THEN ResultsOf(fs, p, c) = {} ELSE \E r \in DOMAIN fs : ResultsOf(fs, p, c) = {r}
    BY <1>1, <1>2, <2>1, <2>2 DEF Settled
  <2>4. ASSUME NEW r \in ResultsOf(fs, p, c)
        PROVE  p < r /\ \A a \in (p + 1)..r : Role(fs[a]) # "assistant"
    <3>1. r \in ResultsOf(es, p, c)
      BY <1>2
    <3>2. r \in DOMAIN es
      BY <3>1 DEF ResultsOf
    <3>3. p < r /\ \A a \in (p + 1)..r : Role(es[a]) # "assistant"
      BY <2>1, <3>1 DEF Settled
    <3>4. \A a \in (p + 1)..r : fs[a] = es[a]
      BY <1>1, <1>3, <3>2
    <3> QED BY <3>3, <3>4
  <2> QED BY <2>3, <2>4 DEF Settled
<1>4. CASE p \notin DOMAIN es
  <2>1. p = Len(es) + 1 /\ fs[p] = e
    BY <1>1, <1>4
  <2>2. ASSUME NEW r \in ResultsOf(es, p, c) PROVE FALSE
    <3>1. r \in DOMAIN es /\ es[r].kind = "result" /\ es[r].m = p
      BY DEF ResultsOf
    <3> QED BY <1>1, <2>1, <3>1
  <2>3. ResultsOf(fs, p, c) = {} /\ <<p, c>> \in more
    BY <1>2, <2>1, <2>2
  <2> QED BY <2>3 DEF Settled
<1> QED BY <1>3, <1>4

\* What is bare matters pair by pair.
LEMMA PairedSame ==
  ASSUME NEW es, NEW bare, Paired(es, bare), NEW left, \A q, c : <<q, c>> \in left <=> <<q, c>> \in bare
  PROVE  Paired(es, left)
  BY DEF Paired, Settled

-----------------------------------------------------------------------------
(* The round                                                                *)

\* The answer of the round is the one that its results name.
LEMMA RoundAssistant ==
  ASSUME NEW s \in Conv, NEW p, RoundAt(s, p)
  PROVE  Assistant(s) = p
<1> DEFINE S == {i \in DOMAIN s.entries : s.entries[i].kind = "calls"}
<1>1. DOMAIN s.entries = 1..Len(s.entries) /\ Len(s.entries) \in Nat
  BY DEF Conv
<1>2. S \subseteq Nat /\ p \in S /\ \A x \in S : x <= Len(s.entries)
  BY <1>1 DEF RoundAt
<1>3. Assistant(s) = Max(S)
  BY DEF Assistant
<1>4. \A x \in S : x <= p
  <2> SUFFICES ASSUME NEW x \in S, x > p PROVE FALSE
    BY <1>1, <1>2
  <2>1. s.entries[x].kind = "calls" /\ x \in DOMAIN s.entries
    OBVIOUS
  <2>2. Role(s.entries[x]) = "assistant"
    BY <2>1 DEF Role
  <2> QED BY <2>1, <2>2 DEF RoundAt
<1> HIDE DEF S
<1>5. Max(S) \in S /\ \A x \in S : x <= Max(S)
  BY <1>1, <1>2, MaxIn
<1>6. PICK m : m = Max(S)
  OBVIOUS
<1>7. m \in Nat /\ p \in Nat /\ m <= p /\ p <= m
  BY <1>2, <1>4, <1>5, <1>6
<1> QED BY <1>3, <1>6, <1>7

\* The task that owns the round is the live one.
LEMMA InRoundIs ==
  ASSUME ConvInv, NEW g \in Gens, conv.gens[g].phase # "ended"
  PROVE  InRound <=> conv.gens[g].phase = "tools"
<1>1. \A h \in Gens : h # g => conv.gens[h].phase = "ended"
  BY OthersUnread
<1> QED BY <1>1 DEF InRound

LEMMA UnsettledIs ==
  ASSUME NEW s, NEW c
  PROVE  c \in Unsettled(s) <=> c \in DOMAIN s.slots /\ s.slots[c].st \in {"pending", "call", "execute"}
  BY DEF Unsettled

\* The pairs of a round that have no result.
Bare(s, p) == s.lost \cup {<<p, c>> : c \in Unsettled(s)}

LEMMA BareIs ==
  ASSUME NEW s, NEW p, NEW q, NEW c
  PROVE  <<q, c>> \in Bare(s, p) <=> <<q, c>> \in s.lost \/ (q = p /\ c \in Unsettled(s))
  BY DEF Bare

LEMMA RoundAtIs ==
  ASSUME NEW s, NEW p
  PROVE  RoundAt(s, p) <=>
           /\ p \in DOMAIN s.entries /\ s.entries[p].kind = "calls" /\ s.entries[p].calls = Len(s.slots)
           /\ \A a \in DOMAIN s.entries : a > p => Role(s.entries[a]) # "assistant"
           /\ \A c \in DOMAIN s.slots : <<p, c>> \in s.lost => s.slots[c].st = "lost"
           /\ Paired(s.entries, Bare(s, p))
  BY DEF RoundAt, Bare

LEMMA GrowsRole ==
  ASSUME NEW es \in Seq(EntryType), NEW fs \in Seq(EntryType), Grows(es, fs), NEW p \in DOMAIN es,
         \A a \in DOMAIN es : a > p => Role(es[a]) # "assistant"
  PROVE  \A a \in DOMAIN fs : a > p => Role(fs[a]) # "assistant"
<1>1. DOMAIN es = 1..Len(es) /\ DOMAIN fs = 1..Len(fs) /\ Len(es) \in Nat /\ Len(fs) \in Nat
  OBVIOUS
<1> SUFFICES ASSUME NEW a \in DOMAIN fs, a > p PROVE Role(fs[a]) # "assistant"
  OBVIOUS
<1>2. CASE a \in DOMAIN es
  BY <1>1, <1>2 DEF Grows
<1>3. CASE a \notin DOMAIN es
  <2>1. fs[a].kind \notin TaskKinds
    BY <1>1, <1>3 DEF Grows
  <2>2. fs[a].kind \notin {"answer", "calls"}
    BY <2>1 DEF TaskKinds, SaidKinds
  <2> QED BY <2>2 DEF Role
<1> QED BY <1>2, <1>3

\* The round of s goes on in r.
LEMMA RoundGoesOn ==
  ASSUME NEW s \in Conv, NEW p, RoundAt(s, p), NEW r \in Conv, Grows(s.entries, r.entries),
         r.lost = s.lost, Len(r.slots) = Len(s.slots),
         \A c \in DOMAIN s.slots : /\ s.slots[c].st \in {"pending", "call", "execute"}
                                      <=> r.slots[c].st \in {"pending", "call", "execute"}
                                   /\ s.slots[c].st = "lost" => r.slots[c].st = "lost"
  PROVE  RoundAt(r, p)
<1>1. /\ s.entries \in Seq(EntryType) /\ r.entries \in Seq(EntryType)
      /\ s.slots \in Seq(Slot) /\ r.slots \in Seq(Slot)
  BY DEF Conv
<1>2. /\ p \in DOMAIN s.entries /\ s.entries[p].kind = "calls" /\ s.entries[p].calls = Len(s.slots)
      /\ \A a \in DOMAIN s.entries : a > p => Role(s.entries[a]) # "assistant"
      /\ \A c \in DOMAIN s.slots : <<p, c>> \in s.lost => s.slots[c].st = "lost"
      /\ Paired(s.entries, Bare(s, p))
  BY RoundAtIs
<1>3. DOMAIN r.slots = DOMAIN s.slots
  BY <1>1
<1>4. p \in DOMAIN r.entries /\ r.entries[p] = s.entries[p]
  BY <1>1, <1>2 DEF Grows
<1>5. \A a \in DOMAIN r.entries : a > p => Role(r.entries[a]) # "assistant"
  BY <1>1, <1>2, GrowsRole
<1>6. Paired(r.entries, Bare(s, p))
  BY <1>1, <1>2, GrowsPlain, PlainPaired
<1>7. \A c : c \in Unsettled(r) <=> c \in Unsettled(s)
  BY <1>3, UnsettledIs
<1>8. \A q, c : <<q, c>> \in Bare(r, p) <=> <<q, c>> \in Bare(s, p)
  BY <1>7, BareIs
<1>9. Paired(r.entries, Bare(r, p))
  BY <1>6, <1>8, PairedSame
<1>10. \A c \in DOMAIN r.slots : <<p, c>> \in r.lost => r.slots[c].st = "lost"
  BY <1>2, <1>3
<1> QED BY <1>2, <1>4, <1>5, <1>9, <1>10, RoundAtIs

LEMMA PlainKnown ==
  ASSUME NEW s \in Conv, NEW r \in Conv, Plain(s.entries, r.entries), ResultsKnown(s), r.lost = s.lost
  PROVE  ResultsKnown(r)
<1>1. /\ s.entries \in Seq(EntryType) /\ r.entries \in Seq(EntryType) /\ s.lost \in SUBSET (Nat \X Nat)
  BY DEF Conv
<1>2. /\ DOMAIN s.entries = 1..Len(s.entries) /\ DOMAIN r.entries = 1..Len(r.entries)
      /\ Len(s.entries) \in Nat /\ Len(r.entries) \in Nat /\ Len(s.entries) <= Len(r.entries)
  BY <1>1 DEF Plain
<1>3. ASSUME NEW i \in DOMAIN r.entries, r.entries[i].kind = "result" PROVE r.entries[i].m < i
  <2>1. i \in DOMAIN s.entries /\ r.entries[i] = s.entries[i]
    BY <1>2, <1>3 DEF Plain
  <2> QED BY <1>3, <2>1 DEF ResultsKnown
<1>4. ASSUME NEW x \in r.lost PROVE x[1] <= Len(r.entries)
  <2>1. x \in Nat \X Nat /\ x[1] <= Len(s.entries)
    BY <1>1 DEF ResultsKnown
  <2>2. x[1] \in Nat
    BY <2>1
  <2> QED BY <1>2, <2>1, <2>2
<1> QED BY <1>3, <1>4 DEF ResultsKnown

\* A step beside the round: it adds nothing of a request or a call, and leaves
\* the slots where they are.
LEMMA StillRounds ==
  ASSUME ConvInv, RoundsInv, conv' \in Conv, Grows(conv.entries, conv'.entries), conv'.lost = conv.lost,
         Gens \subseteq Gens',
         \A g \in Gens : /\ conv'.gens[g].phase = conv.gens[g].phase
                         /\ Parked(conv.gens[g]) => Parked(conv'.gens[g]),
         \A g \in Gens' \ Gens : conv'.gens[g].phase # "tools",
         InRound => /\ Len(conv'.slots) = Len(conv.slots)
                    /\ \A c \in DOMAIN conv.slots : conv'.slots[c].st = conv.slots[c].st
  PROVE  RoundsInv'
<1>1. conv \in Conv /\ ResultsKnown(conv) /\ RoundIdle
  BY InvFacts DEF RoundsInv
<1>2. Plain(conv.entries, conv'.entries)
  BY GrowsPlain
<1>3. ResultsKnown(conv)'
  BY <1>1, <1>2, PlainKnown
<1>4. InRound' <=> InRound
  BY DEF InRound
<1>5. RoundIdle'
  <2> SUFFICES ASSUME NEW g \in Gens', conv'.gens[g].phase = "tools", ~Parked(conv'.gens[g]),
                      NEW c \in DOMAIN conv'.slots
               PROVE  ~LiveSlot(conv', c)
    BY DEF RoundIdle
  <2>1. g \in Gens /\ conv.gens[g].phase = "tools" /\ ~Parked(conv.gens[g]) /\ InRound
    BY DEF InRound
  <2>2. conv.slots \in Seq(Slot) /\ conv'.slots \in Seq(Slot) /\ Len(conv'.slots) = Len(conv.slots)
    BY <1>1, <2>1 DEF Conv
  <2>3. c \in DOMAIN conv.slots /\ conv'.slots[c].st = conv.slots[c].st
    BY <2>1, <2>2
  <2> QED BY <1>1, <2>1, <2>3 DEF RoundIdle, LiveSlot
<1>6. CASE InRound
  <2>1. PICK p \in DOMAIN conv.entries : RoundAt(conv, p)
    BY <1>6 DEF RoundsInv
  <2>2. PICK r : r = conv'
    OBVIOUS
  <2>3. /\ r \in Conv /\ Grows(conv.entries, r.entries) /\ r.lost = conv.lost /\ Len(r.slots) = Len(conv.slots)
        /\ \A c \in DOMAIN conv.slots : r.slots[c].st = conv.slots[c].st
    BY <1>6, <2>2
  <2>4. RoundAt(r, p)
    BY ONLY <1>1, <2>1, <2>3, RoundGoesOn
  <2>5. p \in DOMAIN r.entries
    BY <2>4 DEF RoundAt
  <2>6. \E q \in DOMAIN conv'.entries : RoundAt(conv', q)
    BY <2>2, <2>4, <2>5
  <2> QED BY <1>3, <1>4, <1>5, <1>6, <2>6 DEF RoundsInv
<1>7. CASE ~InRound
  <2>1. Paired(conv.entries, conv.lost)
    BY <1>7 DEF RoundsInv
  <2>2. conv.entries \in Seq(EntryType) /\ conv'.entries \in Seq(EntryType)
    BY <1>1 DEF Conv
  <2>3. Paired(conv'.entries, conv'.lost)
    BY <1>2, <2>1, <2>2, PlainPaired
  <2> QED BY <1>3, <1>4, <1>5, <1>7, <2>3 DEF RoundsInv
<1> QED BY <1>6, <1>7

LEMMA LulledRounds ==
  ASSUME ConvInv, RoundsInv, Lulled(conv, conv')
  PROVE  RoundsInv'
<1>1. Eased(conv, conv') /\ conv'.entries = conv.entries /\ conv'.lost = conv.lost
  BY DEF Lulled
<1>2. /\ conv' \in Conv /\ Grows(conv.entries, conv'.entries) /\ DOMAIN conv'.gens = DOMAIN conv.gens
      /\ DOMAIN conv'.slots = DOMAIN conv.slots
      /\ \A c \in DOMAIN conv.slots : conv'.slots[c].st = conv.slots[c].st
  BY <1>1 DEF Eased, SlotEased
<1>3. \A g \in Gens : /\ conv'.gens[g].phase = conv.gens[g].phase
                      /\ Parked(conv.gens[g]) => Parked(conv'.gens[g])
  BY DEF Lulled, QuietTask, Gens
<1>4. Len(conv'.slots) = Len(conv.slots)
  <2>1. conv.slots \in Seq(Slot) /\ conv'.slots \in Seq(Slot)
    BY <1>2, InvFacts DEF Conv
  <2> QED BY <1>2, <2>1
<1>5. Gens' = Gens
  BY <1>2 DEF Gens
<1> QED BY <1>1, <1>2, <1>3, <1>4, <1>5, StillRounds

-----------------------------------------------------------------------------
(* The ends of a round                                                      *)

\* Ready(), and every call has its result or is lost.
Closing(s, g) == Ready(s, g) /\ Paired(s.entries, s.lost) /\ ResultsKnown(s)

LEMMA ClosingSelf ==
  ASSUME ConvInv, RoundsInv, NEW g \in Gens, conv.gens[g].phase \notin {"ended", "tools"}
  PROVE  Closing(conv, g)
<1>1. ~InRound
  BY InRoundIs
<1> QED BY <1>1, ReadySelf DEF Closing, RoundsInv

LEMMA ClosingPlain ==
  ASSUME ConvInv, NEW g \in Gens, NEW s, Closing(s, g), NEW r, Ready(r, g),
         Plain(s.entries, r.entries), r.lost = s.lost
  PROVE  Closing(r, g)
<1>1. s \in Conv /\ r \in Conv
  BY DEF Closing, Ready
<1>2. s.entries \in Seq(EntryType) /\ r.entries \in Seq(EntryType)
  BY <1>1 DEF Conv
<1>3. Paired(r.entries, r.lost)
  BY <1>2, PlainPaired DEF Closing
<1>4. ResultsKnown(r)
  BY <1>1, PlainKnown DEF Closing
<1> QED BY <1>3, <1>4 DEF Closing

LEMMA PlainAppend ==
  ASSUME NEW es \in Seq(EntryType), NEW e \in EntryType, e.kind \notin {"calls", "result"}
  PROVE  Plain(es, Append(es, e))
<1>1. /\ Len(es) \in Nat /\ Len(Append(es, e)) = Len(es) + 1 /\ Append(es, e)[Len(es) + 1] = e
      /\ \A i \in 1..Len(es) : Append(es, e)[i] = es[i]
  OBVIOUS
<1> QED BY <1>1 DEF Plain

\* What a request leaves that ends, without calls.
LEMMA SayPlain ==
  ASSUME ConvInv, NEW g \in Gens, NEW kind \in SaidKinds \ {"calls"}, NEW r, r = Say(conv, g, kind)
  PROVE  Plain(conv.entries, r.entries) /\ r.lost = conv.lost
<1> DEFINE e == Entry(kind, g, conv.gens[g].sent)
<1>1. conv \in Conv /\ conv.entries \in Seq(EntryType) /\ g \in Nat /\ conv.gens[g] \in Gen
  BY InvFacts
<1>2. conv.gens[g].sent \in Nat
  BY <1>1 DEF Gen
<1>3. e \in EntryType /\ e.kind = kind
  BY <1>1, <1>2, EntryTyped
<1>4. r = AppendEntry(conv, e)
  BY DEF Say
<1> HIDE DEF e
<1>5. kind \notin {"calls", "result"}
  BY DEF SaidKinds
<1>6. r.entries = Append(conv.entries, e) /\ r.lost = conv.lost
  BY <1>1, <1>4 DEF AppendEntry, Conv
<1> QED BY <1>1, <1>3, <1>5, <1>6, PlainAppend

LEMMA ConvertPlain ==
  ASSUME ConvInv, NEW g \in Gens, NEW r, r = ConvertPartial(conv, g)
  PROVE  Plain(conv.entries, r.entries) /\ r.lost = conv.lost
<1>1. CASE conv.partial = "none"
  BY <1>1, InvFacts, PlainSelf DEF ConvertPartial
<1>2. CASE conv.partial # "none"
  <2>1. "partial" \in SaidKinds \ {"calls"} /\ r = Say(conv, g, "partial")
    BY <1>2 DEF SaidKinds, ConvertPartial
  <2> QED BY <2>1, SayPlain
<1> QED BY <1>1, <1>2

LEMMA ClosingSay ==
  ASSUME ConvInv, RoundsInv, NEW g \in Gens, conv.gens[g].phase \notin {"ended", "tools"},
         NEW kind \in SaidKinds \ {"calls"}, ~SaidBy(conv.entries, g, conv.gens[g].sent)
  PROVE  Closing(Say(conv, g, kind), g)
<1>1. PICK r : r = Say(conv, g, kind)
  OBVIOUS
<1>2. Plain(conv.entries, r.entries) /\ r.lost = conv.lost /\ Ready(r, g)
  BY <1>1, SayPlain, ReadySay
<1>3. Closing(r, g)
  BY <1>2, ClosingSelf, ClosingPlain
<1> QED BY <1>1, <1>3

LEMMA ClosingConvert ==
  ASSUME ConvInv, RoundsInv, NEW g \in Gens, conv.gens[g].phase \notin {"ended", "tools"}
  PROVE  Closing(ConvertPartial(conv, g), g)
<1>1. PICK r : r = ConvertPartial(conv, g)
  OBVIOUS
<1>2. Plain(conv.entries, r.entries) /\ r.lost = conv.lost /\ Ready(r, g)
  BY <1>1, ConvertPlain, ReadyConvert
<1>3. Closing(r, g)
  BY <1>2, ClosingSelf, ClosingPlain
<1> QED BY <1>1, <1>3

\* No partial is shown in a round.
LEMMA RoundConvert ==
  ASSUME ConvInv, NEW g \in Gens, conv.gens[g].phase = "tools"
  PROVE  ConvertPartial(conv, g) = conv
<1>1. conv.partial = "none"
  BY LiveFacts
<1> QED BY <1>1 DEF ConvertPartial

\* The generation of a round, when no call is under way.
Lone(g) == conv.gens[g].phase = "tools" /\ \A c \in DOMAIN conv.slots : ~LiveSlot(conv, c)

LEMMA LoneBare ==
  ASSUME ConvInv, RoundsInv, NEW g \in Gens, Lone(g), NEW p, RoundAt(conv, p)
  PROVE  \A q, c : <<q, c>> \in Bare(conv, p) <=> <<q, c>> \in conv.lost \/ (q = p /\ c \in Pending(conv))
<1>1. \A c : c \in Unsettled(conv) <=> c \in Pending(conv)
  BY DEF Unsettled, Pending, Lone, LiveSlot
<1> QED BY <1>1, BareIs

LEMMA LoneRound ==
  ASSUME ConvInv, RoundsInv, NEW g \in Gens, conv.gens[g].phase = "tools"
  PROVE  \E p \in DOMAIN conv.entries : RoundAt(conv, p) /\ p \in Nat /\ p <= Len(conv.entries)
<1>1. InRound
  BY DEF InRound
<1>2. PICK p \in DOMAIN conv.entries : RoundAt(conv, p)
  BY <1>1 DEF RoundsInv
<1>3. p \in Nat /\ p <= Len(conv.entries)
  BY InvFacts
<1> QED BY <1>2, <1>3

\* A generation that ends without its unstarted calls.
LEMMA LoneUnstarted ==
  ASSUME ConvInv, RoundsInv, NEW g \in Gens, Lone(g)
  PROVE  Closing(Unstarted(conv, g), g)
<1>1. PICK p \in DOMAIN conv.entries : RoundAt(conv, p) /\ p \in Nat /\ p <= Len(conv.entries)
  BY LoneRound DEF Lone
<1>2. PICK r : r = Unstarted(conv, g)
  OBVIOUS
<1>3. conv \in Conv /\ Assistant(conv) = p
  BY <1>1, InvFacts, RoundAssistant
<1> DEFINE more == {<<p, c>> : c \in Pending(conv)}
<1>4. r = [conv EXCEPT !.lost = conv.lost \cup more]
  BY <1>2, <1>3 DEF Unstarted, Lone
<1>5. \A q, c : <<q, c>> \in more <=> q = p /\ c \in Pending(conv)
  OBVIOUS
<1>6. \A x \in more : x[1] = p
  OBVIOUS
<1> HIDE DEF more
<1>7. r.entries = conv.entries /\ r.lost = conv.lost \cup more
  BY <1>3, <1>4 DEF Conv
<1>8. \A q, c : <<q, c>> \in r.lost <=> <<q, c>> \in Bare(conv, p)
  <2>1. \A q, c : <<q, c>> \in Bare(conv, p) <=> <<q, c>> \in conv.lost \/ (q = p /\ c \in Pending(conv))
    BY <1>1, LoneBare
  <2> QED BY <1>5, <1>7, <2>1
<1>9. Paired(conv.entries, Bare(conv, p))
  BY <1>1, RoundAtIs
<1>10. Paired(r.entries, r.lost)
  BY <1>7, <1>8, <1>9, PairedSame
<1>11. ResultsKnown(r)
  BY <1>1, <1>6, <1>7 DEF RoundsInv, ResultsKnown
<1>12. Ready(r, g)
  BY <1>2, ReadySelf, ReadyUnstarted
<1> QED BY <1>2, <1>10, <1>11, <1>12 DEF Closing

\* An aborted one gives them results.
LEMMA LoneResults ==
  ASSUME ConvInv, RoundsInv, NEW g \in Gens, Lone(g), NEW calls,
         calls = InOrder(Pending(conv), Len(conv.slots)), NEW r, r = Results(conv, calls), Ready(r, g)
  PROVE  Closing(r, g)
<1>1. PICK p \in DOMAIN conv.entries : RoundAt(conv, p) /\ p \in Nat /\ p <= Len(conv.entries)
  BY LoneRound DEF Lone
<1>2. conv \in Conv /\ Assistant(conv) = p /\ conv.entries \in Seq(EntryType) /\ r \in Conv
  BY <1>1, InvFacts, RoundAssistant DEF Ready
<1>3. DOMAIN conv.slots = 1..Len(conv.slots) /\ Len(conv.slots) \in Nat
  BY <1>2, SlotNumbers
<1> DEFINE n == Len(conv.slots)
           seq == [k \in 1..n |-> k]
<1>4. seq \in Seq(Nat) /\ DOMAIN seq = 1..n /\ \A k \in 1..n : seq[k] = k
  BY <1>3, IsSeq
<1>5. calls = At(seq, Pending(conv))
  BY DEF InOrder
<1> HIDE DEF seq
<1>6. calls \in Seq(Nat) /\ Takes(calls, seq, Pending(conv))
  BY <1>4, <1>5, AtIs
<1>7. DOMAIN calls = 1..Len(calls) /\ Len(calls) \in Nat
  BY <1>6
<1>8. ASSUME NEW j \in DOMAIN calls, NEW k \in DOMAIN calls, calls[j] = calls[k] PROVE j = k
  <2>1. ASSUME NEW x \in DOMAIN calls, NEW y \in DOMAIN calls, x < y PROVE calls[x] < calls[y]
    <3>1. PICK i \in DOMAIN seq, h \in DOMAIN seq : i < h /\ calls[x] = seq[i] /\ calls[y] = seq[h]
      BY <1>6, <2>1 DEF Takes
    <3> QED BY <1>4, <3>1
  <2>2. ~(j < k) /\ ~(k < j)
    <3>1. calls[j] \in Nat /\ calls[k] \in Nat
      BY <1>6
    <3> QED BY <1>8, <2>1, <3>1
  <2> QED BY <1>7, <2>2
<1>9. \A c : (\E k \in DOMAIN calls : calls[k] = c) <=> c \in Pending(conv)
  <2>1. ASSUME NEW k \in DOMAIN calls PROVE calls[k] \in Pending(conv)
    BY <1>4, <1>6 DEF Takes
  <2>2. ASSUME NEW c \in Pending(conv) PROVE \E k \in DOMAIN calls : calls[k] = c
    <3>1. c \in DOMAIN seq /\ seq[c] = c
      BY <1>3, <1>4 DEF Pending
    <3> QED BY <1>6, <3>1 DEF Takes
  <2> QED BY <2>1, <2>2
<1>10. /\ Starts(conv.entries, r.entries) /\ Len(r.entries) = Len(conv.entries) + Len(calls)
       /\ \A k \in 1..Len(calls) : r.entries[Len(conv.entries) + k] = Entry("result", calls[k], p)
  <2>1. Assistant(conv) \in Nat
    BY <1>1, <1>2
  <2>2. /\ Starts(conv.entries, r.entries) /\ Len(r.entries) = Len(conv.entries) + Len(calls)
        /\ \A k \in 1..Len(calls) :
             r.entries[Len(conv.entries) + k] = Entry("result", calls[k], Assistant(conv))
    <3>1. r = Results(conv, calls)
      OBVIOUS
    <3> QED BY ONLY <1>2, <1>6, <2>1, <3>1, ResultsAre
  <2> QED BY <1>2, <2>2
<1>11. Answers(conv.entries, r.entries, p, calls) /\ r.entries \in Seq(EntryType)
  BY <1>2, <1>10 DEF Answers, Starts, Conv
<1>12. /\ conv.entries[p].kind = "calls" /\ Paired(conv.entries, Bare(conv, p))
       /\ \A a \in DOMAIN conv.entries : a > p => Role(conv.entries[a]) # "assistant"
       /\ \A c \in DOMAIN conv.slots : <<p, c>> \in conv.lost => conv.slots[c].st = "lost"
  BY <1>1, RoundAtIs
<1>13. \A q, c : <<q, c>> \in Bare(conv, p) <=> <<q, c>> \in conv.lost \/ (q = p /\ c \in Pending(conv))
  BY <1>1, LoneBare
<1>14. \A c \in Pending(conv) : <<p, c>> \notin conv.lost
  BY <1>12 DEF Pending
<1>15. \A q, c : <<q, c>> \in conv.lost <=>
                   <<q, c>> \in Bare(conv, p) /\ ~(q = p /\ \E k \in DOMAIN calls : calls[k] = c)
  BY <1>9, <1>13, <1>14
<1>16. \A k \in DOMAIN calls : <<p, calls[k]>> \in Bare(conv, p)
  BY <1>9, <1>13
<1>17. Paired(r.entries, conv.lost)
  <2>1. Answering(p, calls, Bare(conv, p), conv.lost)
    BY <1>15, <1>16 DEF Answering
  <2>2. Distinct(calls)
    BY <1>8 DEF Distinct
  <2>3. LastAnswer(conv.entries, p)
    BY <1>1, <1>12 DEF LastAnswer
  <2>4. PICK es, fs, bare, left : es = conv.entries /\ fs = r.entries /\ bare = Bare(conv, p) /\ left = conv.lost
    OBVIOUS
  <2>5. /\ es \in Seq(EntryType) /\ fs \in Seq(EntryType) /\ LastAnswer(es, p)
        /\ Answers(es, fs, p, calls) /\ Paired(es, bare) /\ Answering(p, calls, bare, left)
    BY <1>2, <1>11, <1>12, <2>1, <2>3, <2>4
  <2>6. Paired(fs, left)
    BY ONLY <1>6, <2>2, <2>5, AnswersPaired
  <2> QED BY <2>4, <2>6
<1>18. r.lost = conv.lost
  <2>1. Lengthened(conv, r)
    BY <1>1, <1>2, <1>6, ResultsLengthened
  <2> QED BY <2>1 DEF Lengthened
<1>19. ResultsKnown(r)
  <2>0. PICK l : l = Len(conv.entries)
    OBVIOUS
  <2>1. /\ l \in Nat /\ DOMAIN conv.entries = 1..l /\ Len(r.entries) = l + Len(calls)
        /\ DOMAIN r.entries = 1..(l + Len(calls))
    <3>1. r.entries \in Seq(EntryType) /\ Len(r.entries) = l + Len(calls)
      BY <1>10, <1>11, <2>0
    <3>2. DOMAIN r.entries = 1..Len(r.entries)
      BY ONLY <3>1
    <3> QED BY <1>2, <2>0, <3>1, <3>2
  <2>2. ASSUME NEW i \in DOMAIN r.entries, r.entries[i].kind = "result" PROVE r.entries[i].m < i
    <3>1. CASE i <= l
      <4>1. i \in DOMAIN conv.entries /\ r.entries[i] = conv.entries[i]
        BY <1>10, <2>0, <2>1, <3>1 DEF Starts
      <4> QED BY <2>2, <4>1 DEF RoundsInv, ResultsKnown
    <3>2. CASE i > l
      <4>1. i - l \in 1..Len(calls) /\ l + (i - l) = i
        BY <1>7, <2>1, <3>2
      <4>2. r.entries[i] = Entry("result", calls[i - l], p)
        BY <1>10, <2>0, <4>1
      <4>3. r.entries[i].m = p
        BY <4>2 DEF Entry
      <4> QED BY <1>1, <2>1, <3>2, <4>3
    <3> QED BY <2>1, <3>1, <3>2
  <2>3. l <= Len(r.entries)
    BY <1>7, <2>1
  <2>4. ASSUME NEW x \in r.lost PROVE x[1] <= Len(r.entries)
    <3>1. x \in Nat \X Nat /\ x[1] <= l
      BY <1>2, <1>18, <2>0 DEF Conv, RoundsInv, ResultsKnown
    <3>2. x[1] \in Nat
      BY <3>1
    <3> QED BY <1>7, <2>1, <2>3, <3>1, <3>2
  <2> QED BY <2>2, <2>4 DEF ResultsKnown
<1> QED BY <1>17, <1>18, <1>19 DEF Closing

\* A round whose calls all ended.
LEMMA LoneOver ==
  ASSUME ConvInv, RoundsInv, NEW g \in Gens, Lone(g), Pending(conv) = {}
  PROVE  Closing(conv, g)
<1>1. PICK p \in DOMAIN conv.entries : RoundAt(conv, p)
  BY LoneRound DEF Lone
<1>2. \A q, c : <<q, c>> \in conv.lost <=> <<q, c>> \in Bare(conv, p)
  BY <1>1, LoneBare
<1>3. Paired(conv.entries, Bare(conv, p))
  BY <1>1, RoundAtIs
<1>4. Paired(conv.entries, conv.lost)
  BY <1>2, <1>3, PairedSame
<1> QED BY <1>4, ReadySelf DEF Closing, RoundsInv

LEMMA ClosingHandedOff ==
  ASSUME ConvInv, NEW g \in Gens, Closing(conv, g), conv.gens[g].phase # "ended",
         NEW s, s \in {conv, AppendEntry(conv, Entry("handoff", 0, 0))}
  PROVE  Closing(s, g)
<1> DEFINE e == Entry("handoff", 0, 0)
<1>1. e \in EntryType /\ e.kind = "handoff" /\ conv \in Conv /\ conv.entries \in Seq(EntryType)
  BY EntryTyped, InvFacts
<1>2. Ready(s, g)
  BY BegunHandedOff DEF Begun
<1>3. s = conv \/ s = AppendEntry(conv, e)
  OBVIOUS
<1> HIDE DEF e
<1>4. CASE s = conv
  BY <1>4
<1>5. CASE s = AppendEntry(conv, e)
  <2>1. s.entries = Append(conv.entries, e) /\ s.lost = conv.lost
    BY <1>1, <1>5 DEF AppendEntry, Conv
  <2>2. Plain(conv.entries, s.entries)
    BY <1>1, <2>1, PlainAppend
  <2> QED BY <1>2, <2>1, <2>2, ClosingPlain
<1> QED BY <1>3, <1>4, <1>5

\* No round is open afterwards.
LEMMA NoRoundStep ==
  ASSUME NEW s \in Conv, Paired(s.entries, s.lost), ResultsKnown(s), conv' \in Conv,
         Plain(s.entries, conv'.entries), conv'.lost = s.lost,
         \A h \in Gens' : conv'.gens[h].phase # "tools"
  PROVE  RoundsInv'
<1>1. s.entries \in Seq(EntryType) /\ conv'.entries \in Seq(EntryType)
  BY DEF Conv
<1>2. Paired(conv'.entries, conv'.lost)
  BY <1>1, PlainPaired
<1>3. ResultsKnown(conv)'
  BY PlainKnown
<1>4. ~InRound'
  BY DEF InRound
<1>5. RoundIdle'
  BY DEF RoundIdle
<1> QED BY <1>2, <1>3, <1>4, <1>5 DEF RoundsInv

LEMMA EndedRounds ==
  ASSUME ConvInv, NEW g \in Gens, conv.gens[g].phase # "ended", NEW s, Closing(s, g),
         NEW cause \in Causes, Ends(s, conv', g, cause)
  PROVE  RoundsInv'
<1> DEFINE n == Len(conv.gens)
<1>1. conv.gens \in Seq(Gen) /\ Gens = 1..n /\ n \in Nat /\ s.gens = conv.gens /\ s \in Conv
  BY InvFacts DEF Conv, Closing, Ready
<1>2. \A h \in Gens \ {g} : conv.gens[h].phase = "ended"
  BY OthersUnread
<1>3. Over(cause).phase = "ended" /\ NewGeneration.phase = "prepare"
  BY DEF Over, NewGeneration
<1> HIDE DEF n
<1>4. \A h \in Gens' : conv'.gens[h].phase # "tools"
  <2>1. CASE conv'.gens = [conv.gens EXCEPT ![g] = Over(cause)]
    BY <1>1, <1>2, <1>3, <2>1 DEF Gens
  <2>2. CASE conv'.gens = [Append(conv.gens, NewGeneration) EXCEPT ![g] = Over(cause)]
    <3> DEFINE gs == Append(conv.gens, NewGeneration)
    <3>1. DOMAIN gs = 1..(n + 1) /\ gs[n + 1] = NewGeneration /\ \A h \in 1..n : gs[h] = conv.gens[h]
      BY <1>1, NewGenerationTyped DEF n
    <3>2. conv'.gens = [gs EXCEPT ![g] = Over(cause)]
      BY <2>2
    <3> HIDE DEF gs
    <3>3. \A h \in 1..(n + 1) : h # g => gs[h].phase # "tools"
      BY <1>1, <1>2, <1>3, <3>1
    <3>4. \A h \in DOMAIN conv'.gens : conv'.gens[h].phase # "tools"
      BY <1>3, <3>1, <3>2, <3>3
    <3> QED BY <3>4 DEF Gens
  <2> QED BY <1>1, <2>1, <2>2 DEF Ends
<1>5. Plain(s.entries, conv'.entries) /\ conv'.lost = s.lost /\ conv' \in Conv
  BY GrowsPlain DEF Ends
<1> QED BY <1>1, <1>4, <1>5, NoRoundStep DEF Closing

LEMMA EndingRounds ==
  ASSUME ConvInv, NEW g \in Gens, conv.gens[g].phase # "ended", NEW s, Closing(s, g), NEW m, RunOver(s, m),
         NEW cause \in Causes, conv' = End(m, g, cause)
  PROVE  RoundsInv'
<1>1. s \in Conv /\ g \in DOMAIN s.gens
  BY DEF Closing, Ready, Gens
<1>2. Ends(s, conv', g, cause)
  BY <1>1, EndEnds
<1> QED BY <1>2, EndedRounds

LEMMA FailedRounds ==
  ASSUME ConvInv, NEW g \in Gens, conv.gens[g].phase # "ended", NEW s, Closing(s, g),
         NEW cause \in Causes, conv' = End(EndFailedRun(s, g), g, cause)
  PROVE  RoundsInv'
<1>1. RunOver(s, EndFailedRun(s, g))
  BY RunEnds DEF Closing
<1> QED BY <1>1, EndingRounds

LEMMA RunRounds ==
  ASSUME ConvInv, NEW g \in Gens, conv.gens[g].phase # "ended", NEW s, Closing(s, g),
         NEW status \in {"done", "unanswered"}, NEW cause \in Causes, conv' = End(EndRun(s, g, status), g, cause)
  PROVE  RoundsInv'
<1>1. RunOver(s, EndRun(s, g, status))
  BY RunEnds DEF Closing
<1> QED BY <1>1, EndingRounds

LEMMA AnsweredRounds ==
  ASSUME ConvInv, NEW g \in Gens, conv.gens[g].phase # "ended", NEW s, Closing(s, g), conv' = EndAnswered(s, g)
  PROVE  RoundsInv'
<1> DEFINE m == StartNext([ApplyBoundary(s, "final") EXCEPT
                             !.conv = EndRun(ApplyBoundary(s, "final").conv, g, "done")], FALSE)
<1>1. RunOver(s, m)
  BY RunEnds DEF Closing
<1>2. conv' = End(m, g, "")
  BY DEF EndAnswered
<1> HIDE DEF m
<1> QED BY <1>1, <1>2, EndingRounds DEF Causes

LEMMA ContinuedRounds ==
  ASSUME ConvInv, NEW g \in Gens, conv.gens[g].phase # "ended", NEW s, Closing(s, g), conv' = Continued(s, g)
  PROVE  RoundsInv'
<1>1. Ends(s, conv', g, "")
  BY ContinuedEnds DEF Closing
<1> QED BY <1>1, EndedRounds DEF Causes

LEMMA HoldRunRounds ==
  ASSUME ConvInv, NEW g \in Gens, conv.gens[g].phase # "ended", NEW s, Closing(s, g), conv' = HoldRun(s, g),
         ConvInv'
  PROVE  RoundsInv'
<1> DEFINE u == Going(conv.gens[g], "finish", "running")
<1>1. conv' \in Conv /\ s \in Conv
  BY InvFacts DEF ConvInv, TypeOK, Closing, Ready
<1>2. conv'.gens = Put(conv.gens, g, u) /\ conv'.entries = s.entries
  BY <1>1, HoldRunIs DEF Closing
<1>3. u.phase = "finish"
  <2>1. PICK t : t = conv.gens[g] /\ t \in Gen
    BY LiveFacts
  <2>2. Going(t, "finish", "running").phase = "finish"
    BY ONLY <2>1 DEF Going, Gen
  <2> QED BY <2>1, <2>2
<1> HIDE DEF u
<1>4. conv'.lost = s.lost
  BY <1>1 DEF HoldRun, Settle, Moved, Conv
<1>5. \A h \in Gens' : conv'.gens[h].phase # "tools"
  <2>1. \A h \in Gens \ {g} : conv.gens[h].phase = "ended"
    BY OthersUnread
  <2> QED BY <1>2, <1>3, <2>1 DEF Gens, Put
<1>6. Plain(s.entries, conv'.entries)
  BY <1>1, <1>2, PlainSelf DEF Conv
<1> QED BY <1>1, <1>4, <1>5, <1>6, NoRoundStep DEF Closing

LEMMA RunningLone ==
  ASSUME ConvInv, RoundsInv, NEW g \in Gens, conv.gens[g].phase = "tools",
         conv.gens[g].status = "running" \/ ~OwnsLive(conv, g)
  PROVE  Lone(g)
  BY DEF RoundsInv, RoundIdle, Parked, OwnsLive, Lone

\* What the actions that end a generation early leave of its round.
LEMMA ClosingUnstarted ==
  ASSUME ConvInv, RoundsInv, NEW g \in Gens, conv.gens[g].phase # "ended",
         conv.gens[g].status = "running" \/ ~OwnsLive(conv, g),
         NEW s \in {conv, ConvertPartial(conv, g)}
  PROVE  Closing(Unstarted(s, g), g)
<1>1. CASE conv.gens[g].phase = "tools"
  <2>1. s = conv
    BY <1>1, RoundConvert
  <2>2. Lone(g)
    BY <1>1, RunningLone
  <2> QED BY <2>1, <2>2, LoneUnstarted
<1>2. CASE conv.gens[g].phase # "tools"
  <2>1. Closing(s, g)
    BY <1>2, ClosingSelf, ClosingConvert
  <2>2. s.gens = conv.gens
    BY <2>1 DEF Closing, Ready
  <2>3. Unstarted(s, g) = s
    BY <1>2, <2>2 DEF Unstarted
  <2> QED BY <2>1, <2>3
<1> QED BY <1>1, <1>2

LEMMA EndsRounds ==
  ASSUME ConvInv, RoundsInv, NEW g \in Gens,
         \/ PrepareFails(g) \/ NoModel(g) \/ Drain(g) \/ EndAnsweredCutOff(g) \/ EndCutOff(g)
         \/ Aborts(g) \/ Faults(g) \/ SchedulerEnds(g)
  PROVE  RoundsInv'
<1> DEFINE t == conv.gens[g]
<1>1. CASE PrepareFails(g)
  <2>1. t.phase = "prepare" /\ conv' = End(EndFailedRun(conv, g), g, "")
    BY <1>1 DEF PrepareFails, InPhase
  <2> QED BY <2>1, ClosingSelf, FailedRounds DEF Causes
<1>2. CASE NoModel(g)
  <2> DEFINE s == IF t.phase = "request" THEN ConvertPartial(conv, g) ELSE conv
  <2>1. t.phase \notin {"ended", "tools"} /\ conv' = End(EndFailedRun(s, g), g, "nomodel")
    BY <1>2 DEF NoModel, InPhase
  <2>2. Closing(s, g)
    BY <2>1, ClosingSelf, ClosingConvert
  <2> HIDE DEF s
  <2> QED BY <2>1, <2>2, FailedRounds DEF Causes
<1>3. CASE Drain(g)
  <2>1. t.phase = "drain" /\ conv' = EndAnswered(conv, g)
    BY <1>3 DEF Drain, InPhase
  <2> QED BY <2>1, ClosingSelf, AnsweredRounds
<1>4. CASE EndAnsweredCutOff(g)
  <2>1. t.phase \notin {"ended", "tools"} /\ conv' = End(EndRun(conv, g, "done"), g, "")
    BY <1>4 DEF EndAnsweredCutOff, InPhase
  <2> QED BY <2>1, ClosingSelf, RunRounds DEF Causes
<1>5. CASE EndCutOff(g)
  <2> DEFINE kept == IF Salvageable(t) THEN ConvertPartial(conv, g) ELSE conv
             cause == IF Salvageable(t) THEN "" ELSE "limit"
             s == Unstarted(kept, g)
  <2>1. t.phase # "ended" /\ t.status = "running" /\ conv' = End(EndFailedRun(s, g), g, cause)
    BY <1>5 DEF EndCutOff, InPhase
  <2>2. kept \in {conv, ConvertPartial(conv, g)}
    OBVIOUS
  <2> HIDE DEF kept
  <2>3. Closing(s, g)
    BY <2>1, <2>2, ClosingUnstarted
  <2>4. cause \in Causes
    BY DEF Causes
  <2> HIDE DEF s, cause
  <2> QED BY <2>1, <2>3, <2>4, FailedRounds
<1>6. CASE Aborts(g)
  <2> DEFINE c == ConvertPartial(conv, g)
             unstarted == IF t.phase = "tools" THEN InOrder(Pending(conv), Len(conv.slots)) ELSE <<>>
             s == Results(c, unstarted)
  <2>1. t.phase # "ended" /\ t.status = "running" /\ conv' = End(EndRun(s, g, "unanswered"), g, "")
    BY <1>6 DEF Aborts
  <2>2. Begun(c, g)
    BY <2>1, BegunConvert
  <2>3. Ready(s, g)
    <3> HIDE DEF c
    <3> QED BY <2>2, BegunResults DEF Begun
  <2>4. Closing(s, g)
    <3>1. CASE t.phase = "tools"
      <4>1. PICK r, calls : r = s /\ calls = InOrder(Pending(conv), Len(conv.slots))
        OBVIOUS
      <4>2. r = Results(conv, calls)
        BY <3>1, <4>1, RoundConvert
      <4>3. Lone(g)
        BY <2>1, <3>1, RunningLone
      <4>4. Closing(r, g)
        BY <2>3, <4>1, <4>2, <4>3, LoneResults
      <4> QED BY <4>1, <4>4
    <3>2. CASE t.phase # "tools"
      <4>1. Closing(c, g)
        BY <2>1, <3>2, ClosingConvert
      <4>2. PICK e, f : e = c /\ f = s
        OBVIOUS
      <4>3. e \in Conv /\ f = Results(e, <<>>) /\ f \in Conv
        BY <2>3, <3>2, <4>1, <4>2 DEF Closing, Ready
      <4>4. Starts(e.entries, f.entries) /\ Len(f.entries) = Len(e.entries) + 0 /\ f.lost = e.lost
        <5>0. PICK none : none = <<>>
          OBVIOUS
        <5>1. none = <<>> /\ none \in Seq(Nat) /\ Len(none) = 0
          BY ONLY <5>0
        <5>2. f = Results(e, none) /\ (none # <<>> => Assistant(e) \in Nat)
          BY <4>3, <5>1
        <5>3. Lengthened(e, f)
          BY ONLY <4>3, <5>1, <5>2, ResultsLengthened
        <5>4. Starts(e.entries, f.entries) /\ Len(f.entries) = Len(e.entries) + Len(none)
          BY ONLY <4>3, <5>1, <5>2, ResultsAre
        <5> QED BY <5>1, <5>3, <5>4 DEF Lengthened
      <4>5. Plain(e.entries, f.entries)
        <5>1. Len(e.entries) \in Nat
          BY <4>3 DEF Conv
        <5> QED BY <4>4, <5>1 DEF Plain, Starts
      <4> QED BY <2>3, <4>1, <4>2, <4>4, <4>5, ClosingPlain
    <3> QED BY <3>1, <3>2
  <2> HIDE DEF s
  <2> QED BY <2>1, <2>4, RunRounds DEF Causes
<1>7. CASE Faults(g)
  <2> DEFINE c == ConvertPartial(conv, g)
             s == Unstarted(c, g)
  <2>1. t.phase # "ended" /\ t.status = "running" /\ conv' = End(EndRun(s, g, "unanswered"), g, "fault")
    BY <1>7 DEF Faults
  <2>2. Closing(s, g)
    <3> HIDE DEF t
    <3> QED BY <2>1, ClosingUnstarted DEF t
  <2> HIDE DEF s
  <2> QED BY <2>1, <2>2, RunRounds DEF Causes
<1>8. CASE SchedulerEnds(g)
  <2> DEFINE s == Unstarted(conv, g)
  <2>1. t.phase # "ended" /\ ~OwnsLive(conv, g) /\ conv' = End(EndRun(s, g, "unanswered"), g, "fault")
    BY <1>8 DEF SchedulerEnds
  <2>2. Closing(s, g)
    BY <2>1, ClosingUnstarted
  <2> HIDE DEF s
  <2> QED BY <2>1, <2>2, RunRounds DEF Causes
<1> QED BY <1>1, <1>2, <1>3, <1>4, <1>5, <1>6, <1>7, <1>8

LEMMA AnswerRounds ==
  ASSUME ConvInv, RoundsInv, NEW g \in Gens, NEW continuation \in BOOLEAN, Answer(g, continuation), ConvInv'
  PROVE  RoundsInv'
<1> DEFINE s == Say(conv, g, "answer")
<1>1. Answered(g)
  BY DEF Answer
<1>2. conv.gens[g].phase \in {"request", "poll"} /\ ~SaidBy(conv.entries, g, conv.gens[g].sent)
  BY <1>1, AnsweredFacts
<1>3. Closing(s, g)
  BY <1>2, ClosingSay DEF SaidKinds
<1>4. \/ conv' = Continued(s, g)
      \/ conv' = HoldRun(s, g)
      \/ conv' = EndAnswered(s, g)
  BY DEF Answer, Continued
<1> HIDE DEF s
<1> QED BY <1>2, <1>3, <1>4, ContinuedRounds, HoldRunRounds, AnsweredRounds

LEMMA FinishToolRoundRounds ==
  ASSUME ConvInv, RoundsInv, NEW g \in Gens, FinishToolRound(g), ConvInv'
  PROVE  RoundsInv'
<1> DEFINE s == IF \E c \in DOMAIN conv.slots : "handoff" \in conv.slots[c].control
                THEN AppendEntry(conv, Entry("handoff", 0, 0)) ELSE conv
           m == AfterTools(s, g)
<1>1. conv.gens[g].phase = "tools" /\ conv.gens[g].status = "running" /\ Pending(conv) = {}
  BY DEF FinishToolRound, InPhase
<1>2. \/ conv' = HoldRun(s, g)
      \/ conv' = EndAnswered(s, g)
      \/ conv' = End(EndFailedRun(s, g), g, "")
      \/ conv' = End(AfterTools(s, g), g, "")
  BY DEF FinishToolRound
<1>3. s \in {conv, AppendEntry(conv, Entry("handoff", 0, 0))}
  OBVIOUS
<1> HIDE DEF s
<1>4. Closing(s, g) /\ conv.gens[g].phase # "ended"
  <2>1. Closing(conv, g)
    BY <1>1, RunningLone, LoneOver
  <2>2. conv.gens[g].phase # "ended"
    BY <1>1
  <2> QED BY <1>3, <2>1, <2>2, ClosingHandedOff
<1>5. CASE conv' = End(m, g, "")
  <2>1. s.partial = "none"
    BY <1>1, <1>3, <1>4, BegunHandedOff, LiveFacts
  <2>2. RunOver(s, m)
    BY <1>4, <2>1, AfterToolsOver DEF Closing
  <2> HIDE DEF m
  <2> QED BY <1>4, <1>5, <2>2, EndingRounds DEF Causes
<1> QED BY <1>2, <1>4, <1>5, HoldRunRounds, AnsweredRounds, FailedRounds DEF Causes

-----------------------------------------------------------------------------
(* The actions that change a generation                                     *)

\* Generation g alone changes, and has no round afterwards.
Elsewhere(g) ==
  /\ DOMAIN conv'.gens = DOMAIN conv.gens /\ \A h \in Gens \ {g} : conv'.gens[h] = conv.gens[h]
  /\ conv'.gens[g].phase # "tools"

LEMMA MoveRounds ==
  ASSUME ConvInv, NEW g \in Gens, conv.gens[g].phase # "ended", NEW s, Closing(s, g), conv' \in Conv,
         conv'.entries = s.entries, conv'.lost = s.lost, Elsewhere(g)
  PROVE  RoundsInv'
<1>1. s \in Conv
  BY DEF Closing, Ready
<1>2. Plain(s.entries, conv'.entries)
  BY <1>1, PlainSelf DEF Conv
<1>3. \A h \in Gens \ {g} : conv.gens[h].phase = "ended"
  BY OthersUnread
<1>4. \A h \in Gens' : conv'.gens[h].phase # "tools"
  BY <1>3 DEF Elsewhere, Gens
<1> QED BY <1>1, <1>2, <1>4, NoRoundStep DEF Closing

LEMMA RequestElsewhere ==
  ASSUME ConvInv, NEW g \in Gens,
         \/ PrepareReads(g) \/ PrepareBlocks(g) \/ PrepareCommits(g) \/ Deferred(g)
         \/ Retry(g) \/ ShowPartial(g)
  PROVE  Elsewhere(g) /\ conv'.lost = conv.lost /\ conv.gens[g].phase \notin {"ended", "tools"}
<1>1. conv \in Conv /\ conv.gens[g] \in Gen /\ g \in DOMAIN conv.gens /\ conv.gens \in Seq(Gen)
  BY InvFacts DEF Gens, Conv
<1>2. CASE PrepareReads(g)
  BY <1>1, <1>2 DEF PrepareReads, InPhase, Elsewhere, Gens, Conv, Gen
<1>3. CASE PrepareBlocks(g)
  BY <1>1, <1>3 DEF PrepareBlocks, InPhase, CreateCompaction, Moved, Elsewhere, Gens, Conv, Gen
<1>4. CASE PrepareCommits(g)
  <2> DEFINE m == Moved(conv, g, "request", "running")
             s == [m EXCEPT !.gens[g] = [@ EXCEPT !.cause = ""]]
  <2>1. conv.gens[g].phase = "prepare" /\ (conv' = s \/ conv' = CreateCompaction(s, 0, TRUE))
    BY <1>4 DEF PrepareCommits, InPhase
  <2>2. conv'.gens = s.gens /\ conv'.lost = s.lost
    <3>1. s.gens = [m.gens EXCEPT ![g] = [@ EXCEPT !.cause = ""]] /\ s.lost = conv.lost
      BY <1>1 DEF Moved, Conv
    <3>2. CreateCompaction(s, 0, TRUE).gens = s.gens /\ CreateCompaction(s, 0, TRUE).lost = s.lost
      BY <1>1 DEF Moved, CreateCompaction, Conv
    <3> HIDE DEF s
    <3> QED BY <2>1, <3>2
  <2>3. /\ s.lost = conv.lost /\ DOMAIN s.gens = DOMAIN conv.gens /\ s.gens[g].phase = "request"
        /\ \A h \in Gens \ {g} : s.gens[h] = conv.gens[h]
    BY <1>1 DEF Moved, Gens, Conv, Gen
  <2> HIDE DEF s
  <2> QED BY <2>1, <2>2, <2>3 DEF Elsewhere, Gens
<1>5. CASE Deferred(g)
  BY <1>1, <1>5 DEF Deferred, Answered, InPhase, Moved, Elsewhere, Gens, Conv, Gen
<1>6. CASE Retry(g)
  BY <1>1, <1>6 DEF Retry, InPhase, Moved, Elsewhere, Gens, Conv, Gen
<1>7. CASE ShowPartial(g)
  BY <1>1, <1>7 DEF ShowPartial, InPhase, Elsewhere, Gens, Conv, Gen
<1> QED BY <1>2, <1>3, <1>4, <1>5, <1>6, <1>7

LEMMA RequestRounds ==
  ASSUME ConvInv, RoundsInv, ConvInv', NEW g \in Gens,
         \/ PrepareReads(g) \/ PrepareBlocks(g) \/ PrepareCommits(g) \/ Request(g) \/ Deferred(g)
         \/ Retry(g) \/ ShowPartial(g)
  PROVE  RoundsInv'
<1>1. conv' \in Conv
  BY DEF ConvInv, TypeOK
<1>2. CASE Request(g)
  <2>1. PICK c : c = ConvertPartial(conv, g)
    OBVIOUS
  <2>2. /\ conv.gens[g].phase = "request" /\ conv'.entries = c.entries /\ conv'.lost = c.lost
        /\ Elsewhere(g)
    BY <1>2, <2>1, RequestSends DEF Stays, Elsewhere
  <2>3. Closing(c, g)
    BY <2>1, <2>2, ClosingConvert
  <2> QED BY <1>1, <2>2, <2>3, MoveRounds
<1>3. CASE ~Request(g)
  <2>1. Elsewhere(g) /\ conv'.lost = conv.lost /\ conv.gens[g].phase \notin {"ended", "tools"}
    BY <1>3, RequestElsewhere
  <2>2. conv'.entries = conv.entries
    BY <1>3, RequestStays DEF Stays
  <2> QED BY <1>1, <2>1, <2>2, ClosingSelf, MoveRounds
<1> QED BY <1>2, <1>3

LEMMA RetryRounds ==
  ASSUME ConvInv, RoundsInv, ConvInv', NEW g \in Gens, conv.gens[g].phase # "ended",
         NEW s, Closing(s, g), NEW poll \in BOOLEAN,
         conv' = [Moved(s, g, "retry", "sleeping") EXCEPT
                    !.partial = "none", !.gens[g] = [@ EXCEPT !.poll = poll]]
  PROVE  RoundsInv'
<1>1. s \in Conv /\ conv' \in Conv /\ s.gens = conv.gens /\ conv.gens[g] \in Gen /\ g \in DOMAIN conv.gens
  BY InvFacts DEF Closing, Ready, ConvInv, TypeOK, Gens
<1>2. conv'.entries = s.entries /\ conv'.lost = s.lost
  BY <1>1 DEF Moved, Conv
<1>3. Elsewhere(g)
  BY ZenonT(30), <1>1 DEF Moved, Conv, Elsewhere, Gens, Gen
<1> QED BY <1>1, <1>2, <1>3, MoveRounds

LEMMA ErrorRounds ==
  ASSUME ConvInv, RoundsInv, ConvInv', NEW g \in Gens,
         (\E permanent \in BOOLEAN : ModelError(g, permanent)) \/ Interrupted(g)
  PROVE  RoundsInv'
<1>1. CASE \E permanent \in BOOLEAN : ModelError(g, permanent)
  <2> DEFINE s == Say(conv, g, "error")
             r == [Moved(s, g, "retry", "sleeping") EXCEPT
                     !.partial = "none", !.gens[g] = [@ EXCEPT !.poll = FALSE]]
  <2>1. Answered(g) /\ (conv' = r \/ conv' = End(EndFailedRun(s, g), g, ""))
    BY <1>1, Zenon DEF ModelError
  <2>2. conv.gens[g].phase \in {"request", "poll"} /\ ~SaidBy(conv.entries, g, conv.gens[g].sent)
    <3> HIDE DEF r, s
    <3> QED BY <2>1, AnsweredFacts
  <2>3. Closing(s, g)
    BY <2>2, ClosingSay DEF SaidKinds
  <2> HIDE DEF s
  <2>4. CASE conv' = r
    BY <2>2, <2>3, <2>4, RetryRounds
  <2>5. CASE conv' = End(EndFailedRun(s, g), g, "")
    BY <2>2, <2>3, <2>5, FailedRounds DEF Causes
  <2> QED BY <2>1, <2>4, <2>5
<1>2. CASE Interrupted(g)
  <2> DEFINE s == ConvertPartial(conv, g)
             b == conv.gens[g].phase = "poll"
             r == [Moved(s, g, "retry", "sleeping") EXCEPT
                     !.partial = "none", !.gens[g] = [@ EXCEPT !.poll = b]]
  <2>1. conv' = r \/ conv' = End(EndFailedRun(s, g), g, "")
    BY <1>2, Zenon DEF Interrupted
  <2>2. conv.gens[g].phase \in {"request", "poll"} /\ b \in BOOLEAN
    BY <1>2 DEF Interrupted, InPhase
  <2>3. Closing(s, g)
    BY <2>2, ClosingConvert
  <2> HIDE DEF s, b
  <2>4. CASE conv' = r
    BY <2>2, <2>3, <2>4, RetryRounds
  <2>5. CASE conv' = End(EndFailedRun(s, g), g, "")
    BY <2>2, <2>3, <2>5, FailedRounds DEF Causes
  <2> QED BY <2>1, <2>4, <2>5
<1> QED BY <1>1, <1>2

LEMMA OverflowRounds ==
  ASSUME ConvInv, RoundsInv, ConvInv', NEW g \in Gens, Overflow(g)
  PROVE  RoundsInv'
<1> DEFINE m == Moved(conv, g, "prepare", "waiting")
           v == Going(conv.gens[g], "prepare", "waiting")
           a == Say(m, g, "error")
           c == CreateCompaction(a, g, FALSE)
           s == Say(conv, g, "error")
<1>1. Answered(g) /\ conv' \in Conv
  BY DEF Overflow, ConvInv, TypeOK
<1>2. /\ conv \in Conv /\ g \in DOMAIN conv.gens /\ conv.gens[g].phase \in {"request", "poll"}
      /\ ~SaidBy(conv.entries, g, conv.gens[g].sent) /\ conv.gens[g] \in Gen
  BY <1>1, AnsweredFacts
<1>3. conv' = [c EXCEPT !.partial = "none",
                        !.gens[g] = [@ EXCEPT !.comp = Len(conv.comps) + 1, !.cause = "overflow"]]
  BY DEF Overflow
<1>4. Closing(s, g)
  BY <1>2, ClosingSay DEF SaidKinds
<1>5. /\ m \in Conv /\ m.gens = Put(conv.gens, g, v) /\ m.gens[g] = v /\ m.entries = conv.entries
      /\ m.lost = conv.lost /\ v \in Gen
  BY <1>2, MovedTyped DEF Phases, Statuses
<1>6. v.sent = conv.gens[g].sent /\ v.phase = "prepare"
  BY <1>2, GoingTyped DEF Phases, Statuses
<1> HIDE DEF m, v
<1>7. a.entries = s.entries /\ a.lost = s.lost /\ a.gens = m.gens
  BY <1>2, <1>5, <1>6 DEF Say, AppendEntry, Conv
<1>8. conv'.entries = a.entries /\ conv'.lost = a.lost
      /\ conv'.gens = [a.gens EXCEPT ![g] = [@ EXCEPT !.comp = Len(conv.comps) + 1, !.cause = "overflow"]]
  BY <1>2, <1>3, <1>5 DEF Say, AppendEntry, CreateCompaction, Conv
<1> HIDE DEF a, c, s
<1>9. Elsewhere(g)
  <2> DEFINE u == [v EXCEPT !.comp = Len(conv.comps) + 1, !.cause = "overflow"]
  <2>1. u.phase = "prepare"
    BY <1>5, <1>6 DEF Gen
  <2>2. conv'.gens = Put(Put(conv.gens, g, v), g, u)
    <3>1. a.gens[g] = v
      BY <1>5, <1>7
    <3> QED BY <1>5, <1>7, <1>8, <3>1 DEF Put
  <2> HIDE DEF u
  <2> QED BY <1>2, <2>1, <2>2 DEF Elsewhere, Put, Gens
<1> QED BY <1>1, <1>2, <1>4, <1>7, <1>8, <1>9, MoveRounds

LEMMA FinishRounds ==
  ASSUME ConvInv, RoundsInv, ConvInv', NEW g \in Gens, Finish(g)
  PROVE  RoundsInv'
<1> DEFINE m == Moved(conv, g, "drain", "waiting")
           r == [m EXCEPT !.gens[g] = [@ EXCEPT !.tasks = TRUE]]
<1>1. conv' = r \/ conv' = EndAnswered(conv, g)
  BY Zenon DEF Finish
<1>2. conv.gens[g].phase = "finish"
  BY DEF Finish, InPhase
<1>3. CASE conv' = EndAnswered(conv, g)
  <2> HIDE DEF r
  <2> QED BY <1>2, <1>3, ClosingSelf, AnsweredRounds
<1>4. CASE conv' = r
  <2>1. conv \in Conv /\ g \in DOMAIN conv.gens /\ conv.gens[g] \in Gen /\ conv' \in Conv
    BY InvFacts DEF Gens, ConvInv, TypeOK
  <2>2. conv'.entries = conv.entries /\ conv'.lost = conv.lost
    BY <1>4, <2>1 DEF Moved, Conv
  <2>3. Elsewhere(g)
    BY ZenonT(30), <1>4, <2>1 DEF Moved, Conv, Elsewhere, Gens, Gen
  <2> HIDE DEF r
  <2> QED BY <1>2, <2>1, <2>2, <2>3, ClosingSelf, MoveRounds
<1> QED
  <2> HIDE DEF r
  <2> QED BY <1>1, <1>3, <1>4

-----------------------------------------------------------------------------
(* The actions that leave the round alone                                   *)

\* A generation that starts to run again has no call under way.
LEMMA ReserveRounds ==
  ASSUME ConvInv, RoundsInv, ConvInv', NEW g \in Gens, Reserve(g)
  PROVE  RoundsInv'
<1> DEFINE t == conv.gens[g]
           u == [t EXCEPT !.status = "running"]
<1>1. conv \in Conv /\ t \in Gen /\ conv' \in Conv
  BY InvFacts DEF ConvInv, TypeOK
<1>2. conv' = WithGen(conv, g, u) /\ (t.marked \/ t.status = "waiting" => ~OwnsLive(conv, g))
  BY DEF Reserve, WithGen, Put
<1>3. u.phase = t.phase
  BY <1>1 DEF Gen
<1> HIDE DEF u
<1>4. /\ conv'.gens = Put(conv.gens, g, u) /\ conv'.entries = conv.entries /\ conv'.lost = conv.lost
      /\ conv'.slots = conv.slots
  BY <1>1, <1>2 DEF WithGen, Conv
<1>5. Gens' = Gens /\ \A h \in Gens : conv'.gens[h].phase = conv.gens[h].phase
  BY <1>3, <1>4 DEF Put, Gens
<1>6. RoundIdle'
  <2> SUFFICES ASSUME NEW h \in Gens, conv'.gens[h].phase = "tools", ~Parked(conv'.gens[h]),
                      NEW c \in DOMAIN conv.slots
               PROVE  ~LiveSlot(conv, c)
    BY <1>4, <1>5 DEF RoundIdle, LiveSlot
  <2>1. CASE h = g
    <3>1. t.phase = "tools"
      BY <1>5, <2>1
    <3>2. CASE Parked(t)
      BY <1>2, <3>1, <3>2 DEF Parked, OwnsLive
    <3>3. CASE ~Parked(t)
      BY <3>1, <3>3 DEF RoundsInv, RoundIdle
    <3> QED BY <3>2, <3>3
  <2>2. CASE h # g
    <3>1. conv'.gens[h] = conv.gens[h]
      BY <1>4, <2>2 DEF Put, Gens
    <3> QED BY <3>1 DEF RoundsInv, RoundIdle
  <2> QED BY <2>1, <2>2
<1>7. ResultsKnown(conv)'
  BY <1>4 DEF RoundsInv, ResultsKnown
<1>8. InRound' <=> InRound
  BY <1>5 DEF InRound
<1>9. Paired(conv'.entries, conv'.lost) <=> Paired(conv.entries, conv.lost)
  BY <1>4
<1>10. \A p : RoundAt(conv', p) <=> RoundAt(conv, p)
  BY <1>4 DEF RoundAt, Unsettled
<1> QED BY <1>4, <1>6, <1>7, <1>8, <1>9, <1>10 DEF RoundsInv

LEMMA AfterRunRounds ==
  ASSUME ConvInv, RoundsInv, ConvInv', NEW g \in Gens, AfterRunTaskEnds(g)
  PROVE  RoundsInv'
<1> DEFINE u == [conv.gens[g] EXCEPT !.tasks = FALSE]
<1>1. conv \in Conv /\ conv.gens[g] \in Gen /\ conv' \in Conv
  BY InvFacts DEF ConvInv, TypeOK
<1>2. conv' = WithGen(conv, g, u)
  BY DEF AfterRunTaskEnds, WithGen, Put
<1>3. u.phase = conv.gens[g].phase /\ (Parked(conv.gens[g]) => Parked(u))
  BY <1>1 DEF Gen, Parked
<1> HIDE DEF u
<1>4. /\ conv'.gens = Put(conv.gens, g, u) /\ conv'.entries = conv.entries /\ conv'.lost = conv.lost
      /\ conv'.slots = conv.slots
  BY <1>1, <1>2 DEF WithGen, Conv
<1>5. /\ Gens' = Gens
      /\ \A h \in Gens : /\ conv'.gens[h].phase = conv.gens[h].phase
                         /\ Parked(conv.gens[h]) => Parked(conv'.gens[h])
  BY <1>3, <1>4 DEF Put, Gens
<1>6. Grows(conv.entries, conv'.entries)
  BY <1>1, <1>4, GrowsSelf DEF Conv
<1> QED BY <1>1, <1>4, <1>5, <1>6, StillRounds

-----------------------------------------------------------------------------
(* Rounds that begin and go on                                              *)

\* The generation of a round waits for its calls.
LEMMA ParkedRounds ==
  ASSUME ResultsKnown(conv'), NEW p, RoundAt(conv', p), NEW g \in Gens', conv'.gens[g].phase = "tools",
         \A h \in Gens' : conv'.gens[h].phase = "tools" => Parked(conv'.gens[h])
  PROVE  RoundsInv'
<1>1. InRound' /\ RoundIdle'
  BY DEF InRound, RoundIdle
<1>2. p \in DOMAIN conv'.entries
  BY DEF RoundAt
<1> QED BY <1>1, <1>2 DEF RoundsInv

\* The only live generation waits for the calls of its round.
LEMMA WaitsParked ==
  ASSUME ConvInv, NEW g \in Gens, conv.gens[g].phase # "ended", NEW u, u.phase = "tools", u.status = "waiting",
         conv'.gens = Put(conv.gens, g, u)
  PROVE  /\ g \in Gens' /\ conv'.gens[g].phase = "tools"
         /\ \A h \in Gens' : conv'.gens[h].phase = "tools" => Parked(conv'.gens[h])
<1>1. \A h \in Gens \ {g} : conv.gens[h].phase = "ended"
  BY OthersUnread
<1> QED BY <1>1 DEF Put, Gens, Parked

LEMMA NextCallRounds ==
  ASSUME ConvInv, RoundsInv, ConvInv', NEW g \in Gens, NextCall(g)
  PROVE  RoundsInv'
<1> DEFINE t == conv.gens[g]
           m == Moved(conv, g, "tools", "waiting")
           u == Going(t, "tools", "waiting")
           c == Min(Pending(conv))
           v == NewSlot("call")
<1>1. t.phase = "tools" /\ conv' = [m EXCEPT !.slots[c] = v] /\ Pending(conv) # {}
  BY DEF NextCall, InPhase
<1>2. t \in Gen /\ conv \in Conv /\ g \in DOMAIN conv.gens /\ conv' \in Conv
  <2> HIDE DEF m, c, v
  <2> QED BY InvFacts DEF Gens, ConvInv, TypeOK
<1>3. /\ m \in Conv /\ m.gens = Put(conv.gens, g, u) /\ m.entries = conv.entries
      /\ m.lost = conv.lost /\ m.slots = conv.slots
  BY <1>2, MovedTyped DEF Phases, Statuses
<1>4. u.phase = "tools" /\ u.status = "waiting"
  BY <1>2, GoingTyped DEF Phases, Statuses
<1>5. v.st = "call"
  BY DEF NewSlot
<1>6. c \in DOMAIN conv.slots /\ conv.slots[c].st = "pending"
  <2>1. Pending(conv) \subseteq DOMAIN conv.slots /\ DOMAIN conv.slots \subseteq Nat
    BY <1>2, SlotNumbers DEF Pending
  <2>2. c \in Pending(conv)
    BY <1>1, <2>1, MinIn
  <2> QED BY <2>2 DEF Pending
<1> HIDE DEF m, c, v, u, t
<1>7. /\ conv'.gens = Put(conv.gens, g, u) /\ conv'.entries = conv.entries
      /\ conv'.lost = conv.lost /\ conv'.slots = Put(conv.slots, c, v)
  BY <1>1, <1>3 DEF Conv, Put
<1>8. PICK p \in DOMAIN conv.entries : RoundAt(conv, p)
  BY <1>1, LoneRound DEF t
<1>9. PICK r : r = conv' /\ r \in Conv
  BY <1>2
<1>10. Len(r.slots) = Len(conv.slots)
  BY <1>2, <1>7, <1>9 DEF Conv, Put
<1>11. \A d \in DOMAIN conv.slots : /\ conv.slots[d].st \in {"pending", "call", "execute"}
                                       <=> r.slots[d].st \in {"pending", "call", "execute"}
                                    /\ conv.slots[d].st = "lost" => r.slots[d].st = "lost"
  BY <1>5, <1>6, <1>7, <1>9 DEF Put
<1>12. Grows(conv.entries, r.entries) /\ r.lost = conv.lost
  BY <1>2, <1>7, <1>9, GrowsSelf DEF Conv
<1>13. RoundAt(r, p)
  BY ONLY <1>2, <1>8, <1>9, <1>10, <1>11, <1>12, RoundGoesOn
<1>14. ResultsKnown(r)
  BY <1>7, <1>9 DEF RoundsInv, ResultsKnown
<1>15. /\ g \in Gens' /\ conv'.gens[g].phase = "tools"
       /\ \A h \in Gens' : conv'.gens[h].phase = "tools" => Parked(conv'.gens[h])
  <2>1. conv.gens[g].phase # "ended"
    BY <1>1 DEF t
  <2> QED BY <1>4, <1>7, <2>1, WaitsParked
<1> QED BY <1>9, <1>13, <1>14, <1>15, ParkedRounds

LEMMA StartToolRoundRounds ==
  ASSUME ConvInv, RoundsInv, ConvInv', NEW g \in Gens, NEW n \in 1..MaxCalls, StartToolRound(g, n)
  PROVE  RoundsInv'
<1> DEFINE t == conv.gens[g]
           m == Moved(conv, g, "tools", "waiting")
           u == Going(t, "tools", "waiting")
           e == [Entry("calls", g, t.sent) EXCEPT !.calls = n]
           a == AppendEntry(m, e)
           slots == [c \in 1..n |-> NewSlot(IF settings.sequential /\ c > 1 THEN "pending" ELSE "call")]
<1>1. conv' = [a EXCEPT !.partial = "none", !.slots = slots,
                        !.run.turns = IF conv.run.task = g THEN @ + 1 ELSE @]
  BY Zenon DEF StartToolRound
<1>2. Answered(g)
  BY Zenon DEF StartToolRound
<1>3. t \in Gen /\ conv \in Conv /\ g \in DOMAIN conv.gens /\ g \in Nat /\ conv' \in Conv
      /\ t.phase \in {"request", "poll"}
  <2> HIDE DEF a, slots
  <2> QED BY <1>2, AnsweredFacts DEF ConvInv, TypeOK
<1>4. t.sent \in Nat /\ n \in Nat
  <2>1. t.sent \in Nat
    BY <1>3 DEF Gen
  <2>2. n \in Nat
    BY BoundsAssumption
  <2> QED BY <2>1, <2>2
<1>5. m \in Conv /\ m.gens = Put(conv.gens, g, u) /\ m.entries = conv.entries /\ m.lost = conv.lost
  BY <1>3, MovedTyped DEF Phases, Statuses
<1>6. e \in EntryType /\ e.kind = "calls" /\ e.calls = n
  BY <1>3, <1>4 DEF Entry, EntryType, SaidKinds
<1> HIDE DEF m, e
<1>7. a \in Conv /\ a.gens = m.gens /\ a.entries = Append(m.entries, e) /\ a.lost = m.lost
  <2>1. a \in Conv /\ a.gens = m.gens /\ a.entries = Append(m.entries, e)
    BY <1>5, <1>6, AppendTyped
  <2>2. a.lost = m.lost
    BY <1>5 DEF AppendEntry, Conv
  <2> QED BY <2>1, <2>2
<1>8. u.phase = "tools" /\ u.status = "waiting"
  BY <1>3, GoingTyped DEF Phases, Statuses
<1>9. DOMAIN slots = 1..n /\ \A c \in 1..n : slots[c].st \in {"pending", "call"}
  BY DEF NewSlot
<1> HIDE DEF a, slots, u, t
<1>10. /\ conv'.gens = a.gens /\ conv'.entries = a.entries /\ conv'.lost = a.lost /\ conv'.slots = slots
  BY <1>1, <1>7 DEF Conv
<1>11. PICK r : r = conv' /\ r \in Conv
  BY <1>3
<1>12. /\ r.gens = Put(conv.gens, g, u) /\ r.entries = Append(conv.entries, e) /\ r.lost = conv.lost
       /\ r.slots = slots
  BY <1>5, <1>7, <1>10, <1>11
<1>13. Len(r.slots) = n
  <2>1. r.slots \in Seq(Slot)
    BY <1>11 DEF Conv
  <2> QED BY <1>4, <1>9, <1>12, <2>1
<1>14. PICK p : p = Len(conv.entries) + 1
  OBVIOUS
<1>15. /\ conv.entries \in Seq(EntryType) /\ Len(conv.entries) \in Nat
       /\ DOMAIN conv.entries = 1..Len(conv.entries) /\ conv.lost \in SUBSET (Nat \X Nat)
       /\ DOMAIN r.entries = 1..p /\ r.entries[p] = e /\ p \in Nat /\ Len(r.entries) = p
       /\ \A i \in DOMAIN conv.entries : i \in DOMAIN r.entries /\ r.entries[i] = conv.entries[i]
  <2>1. conv.entries \in Seq(EntryType) /\ conv.lost \in SUBSET (Nat \X Nat)
    BY <1>3 DEF Conv
  <2>2. PICK es, fs : es = conv.entries /\ fs = r.entries
    OBVIOUS
  <2>3. /\ Len(es) \in Nat /\ DOMAIN es = 1..Len(es) /\ DOMAIN fs = 1..p /\ fs[p] = e
        /\ p \in Nat /\ Len(fs) = p /\ \A i \in DOMAIN es : i \in DOMAIN fs /\ fs[i] = es[i]
    BY <1>6, <1>12, <1>14, <2>1, <2>2
  <2> QED BY <2>1, <2>2, <2>3
<1>16. /\ ~InRound /\ ResultsKnown(conv) /\ Paired(conv.entries, conv.lost)
  <2>1. conv.gens[g].phase \notin {"ended", "tools"}
    BY <1>3 DEF t
  <2>2. ~InRound
    BY <2>1, InRoundIs
  <2> QED BY <2>2 DEF RoundsInv
<1>17. /\ \A i \in DOMAIN conv.entries : conv.entries[i].kind = "result" => conv.entries[i].m < i
       /\ \A q, c : <<q, c>> \in conv.lost => q <= Len(conv.entries)
  BY <1>16 DEF ResultsKnown
<1>18. \A c : c \in Unsettled(r) <=> c \in 1..n
  BY <1>9, <1>12, UnsettledIs
<1>19. \A q, c : <<q, c>> \in Bare(r, p) <=> <<q, c>> \in conv.lost \/ (q = p /\ c \in 1..n)
  BY <1>12, <1>18, BareIs
<1>20. Paired(r.entries, Bare(r, p))
  <2>1. PICK more, bare, fs, es : more = Bare(r, p) /\ bare = conv.lost /\ fs = r.entries /\ es = conv.entries
    OBVIOUS
  <2>2. \A q, c : <<q, c>> \in more <=> <<q, c>> \in bare \/ (q = Len(es) + 1 /\ c \in 1..e.calls)
    BY <1>6, <1>14, <1>19, <2>1
  <2>3. /\ es \in Seq(EntryType) /\ fs = Append(es, e) /\ Paired(es, bare)
        /\ \A i \in DOMAIN es : es[i].kind = "result" => es[i].m < i
        /\ \A q, c : <<q, c>> \in bare => q <= Len(es)
    BY <1>12, <1>15, <1>16, <1>17, <2>1
  <2>4. Paired(fs, more)
    BY ONLY <1>6, <2>2, <2>3, CallsPaired
  <2> QED BY <2>1, <2>4
<1>21. \A c \in DOMAIN r.slots : <<p, c>> \in r.lost => r.slots[c].st = "lost"
  BY <1>12, <1>14, <1>15, <1>17
<1>22. /\ p \in DOMAIN r.entries /\ r.entries[p].kind = "calls" /\ r.entries[p].calls = Len(r.slots)
       /\ \A i \in DOMAIN r.entries : i > p => Role(r.entries[i]) # "assistant"
  <2>1. /\ \A i \in DOMAIN r.entries : i > p => Role(r.entries[i]) # "assistant"
    BY <1>15
  <2>2. p \in DOMAIN r.entries
    <3>1. p \in 1..p
      BY <1>14, <1>15
    <3> QED BY <1>15, <3>1
  <2> QED BY <1>6, <1>13, <1>15, <2>1, <2>2
<1>23. RoundAt(r, p)
  BY <1>20, <1>21, <1>22, RoundAtIs
<1>24. ResultsKnown(r)
  <2>1. ASSUME NEW i \in DOMAIN r.entries, r.entries[i].kind = "result" PROVE r.entries[i].m < i
    <3>1. i \in DOMAIN conv.entries
      BY <1>6, <1>14, <1>15, <2>1
    <3> QED BY <1>15, <1>17, <2>1, <3>1
  <2>2. ASSUME NEW x \in r.lost PROVE x[1] <= Len(r.entries)
    <3>1. x \in Nat \X Nat /\ x[1] <= Len(conv.entries)
      BY <1>12, <1>15, <1>16 DEF ResultsKnown
    <3>2. x[1] \in Nat
      BY <3>1
    <3> QED BY <1>14, <1>15, <3>1, <3>2
  <2> QED BY <2>1, <2>2 DEF ResultsKnown
<1>25. /\ g \in Gens' /\ conv'.gens[g].phase = "tools"
       /\ \A h \in Gens' : conv'.gens[h].phase = "tools" => Parked(conv'.gens[h])
  <2>1. conv.gens[g].phase # "ended"
    BY <1>3 DEF t
  <2> QED BY <1>8, <1>11, <1>12, <2>1, WaitsParked
<1> QED BY <1>11, <1>23, <1>24, <1>25, ParkedRounds

LEMMA SettleCallRounds ==
  ASSUME ConvInv, RoundsInv, NEW c \in DOMAIN conv.slots, LiveSlot(conv, c), NEW control, SettleCall(c, control),
         NEW p \in DOMAIN conv.entries, RoundAt(conv, p), NEW s, s = conv', s \in Conv
  PROVE  RoundAt(s, p) /\ ResultsKnown(s)
<1> DEFINE v == [NewSlot("done") EXCEPT !.control = control]
<1>1. conv \in Conv /\ c \in Nat /\ Assistant(conv) = p /\ p \in Nat /\ p <= Len(conv.entries)
  BY SlotFacts, InvFacts, RoundAssistant
<1>2. PICK calls : calls = <<c>>
  OBVIOUS
<1>3. calls \in Seq(Nat) /\ Len(calls) = 1 /\ DOMAIN calls = {1} /\ calls[1] = c
  BY <1>1, <1>2
<1>4. PICK r : r = Results(conv, calls)
  OBVIOUS
<1>5. s = [r EXCEPT !.slots[c] = v] /\ v.st = "done"
  BY <1>2, <1>4 DEF SettleCall, NewSlot
<1> HIDE DEF v
<1>6. /\ r \in Conv /\ Starts(conv.entries, r.entries) /\ Len(r.entries) = Len(conv.entries) + Len(calls)
      /\ \A k \in 1..Len(calls) : r.entries[Len(conv.entries) + k] = Entry("result", calls[k], Assistant(conv))
  BY ONLY <1>1, <1>3, <1>4, ResultsAre
<1>7. r.slots = conv.slots /\ r.lost = conv.lost
  BY <1>1, <1>4 DEF Results, Conv
<1>8. s.entries = r.entries /\ s.lost = conv.lost /\ s.slots = Put(conv.slots, c, v)
  BY <1>5, <1>6, <1>7 DEF Conv, Put
<1>9. conv.entries \in Seq(EntryType) /\ s.entries \in Seq(EntryType) /\ conv.slots \in Seq(Slot)
      /\ conv.lost \in SUBSET (Nat \X Nat)
  BY <1>1 DEF Conv
<1>10. Answers(conv.entries, s.entries, p, calls)
  BY <1>1, <1>6, <1>8 DEF Answers, Starts
<1>11. /\ conv.entries[p].kind = "calls" /\ conv.entries[p].calls = Len(conv.slots)
       /\ \A a \in DOMAIN conv.entries : a > p => Role(conv.entries[a]) # "assistant"
       /\ \A d \in DOMAIN conv.slots : <<p, d>> \in conv.lost => conv.slots[d].st = "lost"
       /\ Paired(conv.entries, Bare(conv, p))
  BY RoundAtIs
<1>12. LastAnswer(conv.entries, p) /\ Distinct(calls)
  BY <1>3, <1>11 DEF LastAnswer, Distinct
<1>13. conv.slots[c].st \in {"call", "execute"} /\ <<p, c>> \notin conv.lost
  BY <1>11 DEF LiveSlot
<1>14. \A d : d \in Unsettled(s) <=> d \in Unsettled(conv) /\ d # c
  BY <1>5, <1>8, UnsettledIs DEF Put
<1>15. Answering(p, calls, Bare(conv, p), Bare(s, p))
  <2>1. c \in Unsettled(conv)
    BY <1>13, UnsettledIs
  <2>2. <<p, c>> \in Bare(conv, p)
    BY <2>1, BareIs
  <2>3. \A q, d : <<q, d>> \in Bare(s, p) <=> <<q, d>> \in Bare(conv, p) /\ ~(q = p /\ d = c)
    <3> SUFFICES ASSUME NEW q, NEW d
                 PROVE  <<q, d>> \in Bare(s, p) <=> <<q, d>> \in Bare(conv, p) /\ ~(q = p /\ d = c)
      OBVIOUS
    <3>1. <<q, d>> \in Bare(s, p) <=> <<q, d>> \in conv.lost \/ (q = p /\ d \in Unsettled(conv) /\ d # c)
      BY <1>8, <1>14, BareIs
    <3>2. <<q, d>> \in Bare(conv, p) <=> <<q, d>> \in conv.lost \/ (q = p /\ d \in Unsettled(conv))
      BY BareIs
    <3>3. q = p /\ d = c => <<q, d>> \notin conv.lost
      BY <1>13
    <3> QED BY <3>1, <3>2, <3>3
  <2> QED BY <1>3, <2>2, <2>3 DEF Answering
<1>16. Paired(s.entries, Bare(s, p)) /\ LastAnswer(s.entries, p)
  <2>1. PICK es, fs, bare, left : es = conv.entries /\ fs = s.entries /\ bare = Bare(conv, p) /\ left = Bare(s, p)
    OBVIOUS
  <2>2. /\ es \in Seq(EntryType) /\ fs \in Seq(EntryType) /\ LastAnswer(es, p) /\ Answers(es, fs, p, calls)
        /\ Paired(es, bare) /\ Answering(p, calls, bare, left)
    BY <1>9, <1>10, <1>11, <1>12, <1>15, <2>1
  <2>3. Paired(fs, left) /\ LastAnswer(fs, p)
    BY ONLY <1>3, <1>12, <2>2, AnswersPaired
  <2> QED BY <2>1, <2>3
<1>17. Len(s.slots) = Len(conv.slots) /\ DOMAIN s.slots = DOMAIN conv.slots
  BY <1>8, <1>9 DEF Put
<1>18. \A d \in DOMAIN s.slots : <<p, d>> \in s.lost => s.slots[d].st = "lost"
  BY <1>8, <1>11, <1>13, <1>17 DEF Put
<1>19. s.entries[p] = conv.entries[p]
  BY <1>1, <1>9, <1>10 DEF Answers
<1>20. RoundAt(s, p)
  BY <1>11, <1>16, <1>17, <1>18, <1>19, RoundAtIs DEF LastAnswer
<1>21. Len(conv.entries) \in Nat /\ Len(s.entries) = Len(conv.entries) + 1
       /\ DOMAIN s.entries = 1..(Len(conv.entries) + 1)
       /\ s.entries[Len(conv.entries) + 1] = Entry("result", c, p)
       /\ \A i \in 1..Len(conv.entries) : s.entries[i] = conv.entries[i]
  BY <1>3, <1>9, <1>10 DEF Answers
<1>22. ResultsKnown(s)
  <2>1. ASSUME NEW i \in DOMAIN s.entries, s.entries[i].kind = "result" PROVE s.entries[i].m < i
    <3>1. CASE i \in DOMAIN conv.entries
      <4>1. s.entries[i] = conv.entries[i]
        BY <1>9, <1>21, <3>1
      <4> QED BY <2>1, <3>1, <4>1 DEF RoundsInv, ResultsKnown
    <3>2. CASE i \notin DOMAIN conv.entries
      <4>1. i = Len(conv.entries) + 1
        BY <1>9, <1>21, <3>2
      <4>2. s.entries[i].m = p
        BY <1>21, <4>1 DEF Entry
      <4> QED BY <1>1, <1>21, <4>1, <4>2
    <3> QED BY <3>1, <3>2
  <2>2. ASSUME NEW x \in s.lost PROVE x[1] <= Len(s.entries)
    <3>1. x \in Nat \X Nat /\ x[1] <= Len(conv.entries)
      BY <1>8, <1>9 DEF RoundsInv, ResultsKnown
    <3>2. x[1] \in Nat
      BY <3>1
    <3> QED BY <1>21, <3>1, <3>2
  <2> QED BY <2>1, <2>2 DEF ResultsKnown
<1> QED BY <1>20, <1>22

LEMMA CallLostRounds ==
  ASSUME ConvInv, RoundsInv, NEW c \in DOMAIN conv.slots, LiveSlot(conv, c), CallLost(c),
         NEW p \in DOMAIN conv.entries, RoundAt(conv, p), NEW s, s = conv', s \in Conv
  PROVE  RoundAt(s, p) /\ ResultsKnown(s)
<1> DEFINE v == NewSlot("lost")
           lost == conv.lost \cup {<<p, c>>}
<1>1. conv \in Conv /\ c \in Nat /\ Assistant(conv) = p /\ p \in Nat /\ p <= Len(conv.entries)
  BY SlotFacts, InvFacts, RoundAssistant
<1>2. s = [conv EXCEPT !.slots[c] = v, !.lost = lost] /\ v.st = "lost"
  BY <1>1 DEF CallLost, NewSlot, Conv
<1>3. /\ \A q, d : <<q, d>> \in lost <=> <<q, d>> \in conv.lost \/ (q = p /\ d = c)
      /\ \A x \in lost : x \in conv.lost \/ x[1] = p
  OBVIOUS
<1> HIDE DEF v, lost
<1>4. s.entries = conv.entries /\ s.lost = lost /\ s.slots = Put(conv.slots, c, v) /\ conv.slots \in Seq(Slot)
  BY <1>1, <1>2 DEF Conv, Put
<1>5. /\ conv.entries[p].kind = "calls" /\ conv.entries[p].calls = Len(conv.slots)
      /\ \A a \in DOMAIN conv.entries : a > p => Role(conv.entries[a]) # "assistant"
      /\ \A d \in DOMAIN conv.slots : <<p, d>> \in conv.lost => conv.slots[d].st = "lost"
      /\ Paired(conv.entries, Bare(conv, p))
  BY RoundAtIs
<1>6. c \in Unsettled(conv)
  BY UnsettledIs DEF LiveSlot
<1>7. \A d : d \in Unsettled(s) <=> d \in Unsettled(conv) /\ d # c
  BY ZenonT(30), <1>2, <1>4, UnsettledIs DEF Put
<1>8. ASSUME NEW q, NEW d PROVE <<q, d>> \in Bare(s, p) <=> <<q, d>> \in Bare(conv, p)
  <2>1. <<q, d>> \in Bare(s, p) <=> <<q, d>> \in lost \/ (q = p /\ d \in Unsettled(s))
    BY <1>4, BareIs
  <2>2. <<q, d>> \in Bare(conv, p) <=> <<q, d>> \in conv.lost \/ (q = p /\ d \in Unsettled(conv))
    BY BareIs
  <2>3. <<q, d>> \in lost <=> <<q, d>> \in conv.lost \/ (q = p /\ d = c)
    BY <1>3
  <2> QED BY ONLY <2>1, <2>2, <2>3, <1>6, <1>7
<1>9. Paired(s.entries, Bare(s, p))
  BY <1>4, <1>5, <1>8, PairedSame
<1>10. Len(s.slots) = Len(conv.slots) /\ DOMAIN s.slots = DOMAIN conv.slots
  BY <1>4 DEF Put
<1>11. \A d \in DOMAIN s.slots : <<p, d>> \in s.lost => s.slots[d].st = "lost"
  BY <1>2, <1>3, <1>4, <1>5, <1>10 DEF Put
<1>12. RoundAt(s, p)
  BY <1>4, <1>5, <1>9, <1>10, <1>11, RoundAtIs
<1>13. ResultsKnown(s)
  BY <1>1, <1>3, <1>4 DEF RoundsInv, ResultsKnown
<1> QED BY <1>12, <1>13

LEMMA ToolRounds ==
  ASSUME ConvInv, ContextInv, RoundsInv, ConvInv', NEW c \in DOMAIN conv.slots, Tool(c) \/ ToolFaults(c)
  PROVE  RoundsInv'
<1>1. conv \in Conv /\ conv' \in Conv /\ conv.slots # <<>>
  BY SlotFacts DEF ConvInv, TypeOK
<1>2. PICK g \in Gens : conv.gens[g].phase = "tools"
  BY <1>1 DEF ContextInv, RoundOpen, InRound
<1>3. PICK p \in DOMAIN conv.entries : RoundAt(conv, p)
  BY <1>2, LoneRound
<1>4. /\ LiveSlot(conv, c)
      /\ \/ \E v : conv' = WithSlot(conv, c, v) /\ v.st \in {"call", "execute"}
         \/ \E control : SettleCall(c, control)
         \/ CallLost(c)
  BY ToolIs
<1>5. conv'.gens = conv.gens
  BY ToolStays
<1>6. \A h \in Gens : conv.gens[h].phase = "tools" => Parked(conv.gens[h])
  BY <1>4 DEF RoundsInv, RoundIdle
<1>7. PICK s : s = conv'
  OBVIOUS
<1>8. RoundAt(s, p) /\ ResultsKnown(s)
  <2>1. CASE \E v : conv' = WithSlot(conv, c, v) /\ v.st \in {"call", "execute"}
    <3>1. PICK v : s = WithSlot(conv, c, v) /\ v.st \in {"call", "execute"}
      BY <1>7, <2>1
    <3>2. s.entries = conv.entries /\ s.lost = conv.lost /\ s.slots = Put(conv.slots, c, v)
      BY <1>1, <3>1 DEF WithSlot, Conv
    <3>3. conv.slots \in Seq(Slot) /\ conv.entries \in Seq(EntryType)
      BY <1>1 DEF Conv
    <3>4. Grows(conv.entries, s.entries) /\ Len(s.slots) = Len(conv.slots)
      BY <3>2, <3>3, GrowsSelf DEF Put
    <3>5. \A d \in DOMAIN conv.slots : /\ conv.slots[d].st \in {"pending", "call", "execute"}
                                          <=> s.slots[d].st \in {"pending", "call", "execute"}
                                       /\ conv.slots[d].st = "lost" => s.slots[d].st = "lost"
      BY <1>4, <3>1, <3>2 DEF Put, LiveSlot
    <3>6. s \in Conv
      BY <1>1, <1>7
    <3>7. RoundAt(s, p)
      BY ONLY <1>1, <1>3, <3>2, <3>4, <3>5, <3>6, RoundGoesOn
    <3>8. ResultsKnown(s)
      BY <3>2 DEF RoundsInv, ResultsKnown
    <3> QED BY <3>7, <3>8
  <2>2. CASE \E control : SettleCall(c, control)
    BY <1>1, <1>3, <1>4, <1>7, <2>2, SettleCallRounds
  <2>3. CASE CallLost(c)
    BY <1>1, <1>3, <1>4, <1>7, <2>3, CallLostRounds
  <2> QED BY <1>4, <2>1, <2>2, <2>3
<1>9. /\ g \in Gens' /\ conv'.gens[g].phase = "tools"
      /\ \A h \in Gens' : conv'.gens[h].phase = "tools" => Parked(conv'.gens[h])
  BY <1>2, <1>5, <1>6 DEF Gens
<1> QED BY <1>7, <1>8, <1>9, ParkedRounds

-----------------------------------------------------------------------------
(* Clients and compactions                                                  *)

\* The generations and the slots are those of s, and the transcript grows to its.
LEMMA FramedRounds ==
  ASSUME ConvInv, RoundsInv, conv' \in Conv, Grows(conv.entries, conv'.entries), conv'.lost = conv.lost,
         conv'.gens = conv.gens, conv'.slots = conv.slots
  PROVE  RoundsInv'
<1>1. Gens' = Gens
  BY DEF Gens
<1> QED BY <1>1, StillRounds

\* A busy conversation keeps its tasks, an idle one has no round.
LEMMA OpensRounds ==
  ASSUME ConvInv, RoundsInv, conv' \in Conv, NEW s, Opens(conv, s), conv'.entries = s.entries,
         conv'.lost = s.lost, conv'.gens = s.gens, conv'.slots = s.slots
  PROVE  RoundsInv'
<1>1. CASE Framed(conv, s)
  BY <1>1, FramedRounds DEF Framed
<1>2. CASE ~Busy(conv) /\ Created(conv, s)
  <2>1. \A g \in Gens : conv.gens[g].phase = "ended"
    BY <1>2 DEF ConvInv, RunOwned
  <2>2. conv.gens \in Seq(Gen) /\ Gens = 1..Len(conv.gens) /\ Len(conv.gens) \in Nat
    BY InvFacts DEF Conv
  <2>3. conv'.gens = Append(conv.gens, NewGeneration) /\ NewGeneration.phase = "prepare"
    BY <1>2 DEF Created, NewGeneration
  <2>4. \A g \in Gens : g \in Gens' /\ conv'.gens[g] = conv.gens[g]
    BY <2>2, <2>3 DEF Gens
  <2>5. \A g \in Gens' \ Gens : conv'.gens[g].phase # "tools"
    BY <2>2, <2>3 DEF Gens
  <2>6. Grows(conv.entries, conv'.entries) /\ conv'.lost = conv.lost
    BY <1>2 DEF Created
  <2>7. ~InRound
    BY <2>1 DEF InRound
  <2> QED BY <2>4, <2>5, <2>6, <2>7, StillRounds
<1> QED BY <1>1, <1>2 DEF Opens

LEMMA ClientRounds ==
  ASSUME ConvInv, RoundsInv, ConvInv', Client \/ StorePartial
  PROVE  RoundsInv'
<1>1. conv \in Conv /\ conv' \in Conv /\ Grows(conv.entries, conv.entries)
  BY InvFacts, GrowsSelf DEF ConvInv, TypeOK, Conv
<1>2. CASE \E d \in Drafts : Submit(d)
  <2>1. PICK d \in Drafts : Submit(d)
    BY <1>2
  <2>2. PICK s : s = Admit(conv, d) /\ conv' = s /\ ~Rejected(conv, d)
    BY <2>1 DEF Submit
  <2>3. d \in Draft
    BY DraftsAssumption
  <2>4. Opens(conv, s)
    BY <1>1, <2>2, <2>3, AdmitOpens DEF Rejected
  <2> QED BY <1>1, <2>2, <2>4, OpensRounds
<1>3. CASE \E i \in DOMAIN conv.subs : AbortSubmission(i)
  <2>1. PICK i \in DOMAIN conv.subs : conv' = Withdraw(conv, {i})
    BY <1>3 DEF AbortSubmission
  <2>2. /\ conv'.entries = conv.entries /\ conv'.lost = conv.lost /\ conv'.gens = conv.gens
        /\ conv'.slots = conv.slots
    BY <1>1, <2>1 DEF Withdraw, Settle, Conv
  <2> QED BY <1>1, <2>2, FramedRounds
<1>4. CASE Compact \/ StorePartial
  <2>1. /\ conv'.entries = conv.entries /\ conv'.lost = conv.lost /\ conv'.gens = conv.gens
        /\ conv'.slots = conv.slots
    BY <1>1, <1>4 DEF StorePartial, Compact, CreateCompaction, Conv
  <2> QED BY <1>1, <2>1, FramedRounds
<1> QED BY <1>2, <1>3, <1>4 DEF Client

LEMMA CompPlaceRounds ==
  ASSUME ConvInv, RoundsInv, ConvInv', NEW k \in Comps, CompPlace(k)
  PROVE  RoundsInv'
<1> DEFINE t == conv.comps[k]
           e == Entry("summary", 0, t.cut)
<1>1. PICK d : d = [kind |-> "summary", busy |-> "followUp", idle |-> "run", cut |-> t.cut, req |-> 0]
  OBVIOUS
<1>2. conv' = IF t.owner # 0 THEN EndComp(AppendEntry(conv, e), k, "summary")
              ELSE EndComp(Admit(conv, d), k, "summary")
  BY <1>1 DEF CompPlace
<1>3. conv \in Conv /\ t.cut \in Nat /\ k \in DOMAIN conv.comps /\ "summary" \in Outs /\ conv' \in Conv
  BY CompFacts, InvFacts DEF Comps, Outs, ConvInv, TypeOK
<1>4. PICK s : conv' = EndComp(s, k, "summary") /\ Opens(conv, s)
  <2>1. CASE t.owner # 0
    <3>1. e \in EntryType /\ e.kind = "summary"
      <4>1. 0 \in Nat /\ "summary" \in SaidKinds \cup {"user", "result", "handoff", "continuation"} \cup WriteKinds
        BY DEF WriteKinds
      <4> HIDE DEF t
      <4> QED BY <1>3, <4>1, EntryTyped
    <3>2. e.kind \notin TaskKinds
      BY <3>1 DEF TaskKinds, SaidKinds
    <3> HIDE DEF e
    <3>3. Framed(conv, AppendEntry(conv, e))
      BY <1>3, <3>1, <3>2, AppendFramed
    <3> QED BY <1>2, <2>1, <3>3 DEF Opens
  <2>2. CASE t.owner = 0
    <3>1. d \in Draft /\ d.kind # "continue"
      <4> HIDE DEF t
      <4> QED BY <1>1, <1>3 DEF Draft, WriteKinds
    <3>2. Opens(conv, Admit(conv, d))
      BY <1>3, <3>1, AdmitOpens
    <3> QED BY <1>2, <2>2, <3>2
  <2> QED BY <2>1, <2>2
<1>5. s \in Conv /\ k \in DOMAIN s.comps
  BY <1>3, <1>4 DEF Opens, Framed, Created
<1>6. PICK r : r = EndComp(s, k, "summary") /\ conv' = r
  BY <1>4
<1>7. r.gens = s.gens /\ r.entries = s.entries /\ r.slots = s.slots /\ r.lost = s.lost
  BY ONLY <1>3, <1>5, <1>6, EndCompIs
<1> QED BY <1>3, <1>4, <1>6, <1>7, OpensRounds

LEMMA CompactionRounds ==
  ASSUME ConvInv, RoundsInv, ConvInv', NEW k \in Comps, Compaction(k) \/ CompFaults(k)
  PROVE  RoundsInv'
<1>1. conv \in Conv /\ conv' \in Conv
  BY InvFacts DEF ConvInv, TypeOK
<1>2. CASE CompPlace(k)
  BY <1>2, CompPlaceRounds
<1>3. CASE ~CompPlace(k)
  <2>1. conv'.entries = conv.entries /\ conv'.gens = conv.gens
    BY <1>3, CompactionStays DEF Stays
  <2>2. conv'.slots = conv.slots /\ conv'.lost = conv.lost
    <3>1. CASE CompReserve(k)
      BY <1>1, <3>1 DEF CompReserve, Conv
    <3>2. CASE CompNothing(k) \/ CompNoModel(k) \/ CompCutOff(k) \/ CompAborts(k) \/ CompFaults(k)
      BY <1>1, <3>2 DEF CompNothing, CompNoModel, CompCutOff, CompAborts, CompFaults, EndComp, Conv
    <3>3. CASE \E permanent \in BOOLEAN : CompError(k, permanent)
      BY <1>1, <3>3 DEF CompError, CompMoved, EndComp, Conv
    <3>4. CASE CompRetry(k)
      <4>1. PICK m, n : m = CompMoved(k, "summarize", "running") /\ conv' = [m EXCEPT !.comps[k].attempt = n]
        BY <3>4, Zenon DEF CompRetry
      <4> QED BY <1>1, <4>1 DEF CompMoved, Conv
    <3>5. CASE CompSelect(k)
      <4>1. PICK m, n : m = CompMoved(k, "summarize", "running") /\ conv' = [m EXCEPT !.comps[k].cut = n]
        BY <3>5, Zenon DEF CompSelect
      <4> QED BY <1>1, <4>1 DEF CompMoved, Conv
    <3> QED BY <1>3, <3>1, <3>2, <3>3, <3>4, <3>5 DEF Compaction
  <2>3. Grows(conv.entries, conv'.entries)
    BY <1>1, <2>1, GrowsSelf DEF Conv
  <2> QED BY <1>1, <2>1, <2>2, <2>3, FramedRounds
<1> QED BY <1>2, <1>3

-----------------------------------------------------------------------------
(* The theorems of the rounds                                               *)

LEMMA InitRounds == Init => RoundsInv
<1> SUFFICES ASSUME Init PROVE RoundsInv
  OBVIOUS
<1>1. conv.entries = <<>> /\ conv.gens = <<>> /\ conv.lost = {}
  BY DEF Init
<1>2. DOMAIN <<>> = {}
  OBVIOUS
<1>3. ~InRound /\ RoundIdle
  BY <1>1, <1>2 DEF InRound, RoundIdle, Gens
<1>4. ResultsKnown(conv) /\ Paired(conv.entries, conv.lost)
  BY <1>1, <1>2 DEF ResultsKnown, Paired
<1> QED BY <1>3, <1>4 DEF RoundsInv

LEMMA GenerationRounds ==
  ASSUME ConvInv, RoundsInv, ConvInv', NEW g \in Gens,
         \/ Generation(g) \/ Reply(g) \/ Deferred(g) \/ ShowPartial(g) \/ NoModel(g)
         \/ AbortTask(g) \/ Faults(g)
  PROVE  RoundsInv'
<1>1. CASE \/ PrepareFails(g) \/ NoModel(g) \/ Drain(g) \/ EndAnsweredCutOff(g) \/ EndCutOff(g)
           \/ Aborts(g) \/ Faults(g) \/ SchedulerEnds(g)
  BY <1>1, EndsRounds
<1>2. CASE \/ PrepareReads(g) \/ PrepareBlocks(g) \/ PrepareCommits(g) \/ Request(g) \/ Deferred(g)
           \/ Retry(g) \/ ShowPartial(g)
  BY <1>2, RequestRounds
<1>3. CASE Reserve(g) \/ AfterRunTaskEnds(g)
  BY <1>3, ReserveRounds, AfterRunRounds
<1>4. CASE NextCall(g)
  BY <1>4, NextCallRounds
<1>5. CASE Interrupted(g) \/ \E permanent \in BOOLEAN : ModelError(g, permanent)
  BY <1>5, ErrorRounds
<1>6. CASE Overflow(g)
  BY <1>6, OverflowRounds
<1>7. CASE \E n \in 1..MaxCalls : StartToolRound(g, n)
  BY <1>7, StartToolRoundRounds
<1>8. CASE Finish(g)
  BY <1>8, FinishRounds
<1>9. CASE \E continuation \in BOOLEAN : Answer(g, continuation)
  BY <1>9, AnswerRounds
<1>10. CASE FinishToolRound(g)
  BY <1>10, FinishToolRoundRounds
<1>11. CASE AbortTask(g) \/ Cascade(g)
  BY <1>11, AbortTaskLulls, CascadeLulls, LulledRounds
<1> QED BY <1>1, <1>2, <1>3, <1>4, <1>5, <1>6, <1>7, <1>8, <1>9, <1>10, <1>11 DEF Generation, Reply

LEMMA NextRounds == ConvInv /\ ConvInv' /\ ContextInv /\ RoundsInv /\ [Next]_vars => RoundsInv'
<1> SUFFICES ASSUME ConvInv, ConvInv', ContextInv, RoundsInv, [Next]_vars PROVE RoundsInv'
  OBVIOUS
<1>1. CASE UNCHANGED vars
  <2>1. conv' = conv /\ conv \in Conv /\ conv.entries \in Seq(EntryType)
    BY <1>1, InvFacts DEF vars, Conv
  <2> QED BY <2>1, GrowsSelf, FramedRounds
<1>2. CASE Client \/ StorePartial
  BY <1>2, ClientRounds
<1>3. CASE \E g \in Gens : \/ Generation(g) \/ Reply(g) \/ Deferred(g) \/ ShowPartial(g) \/ NoModel(g)
                           \/ AbortTask(g) \/ Faults(g)
  BY <1>3, GenerationRounds
<1>4. CASE \E c \in DOMAIN conv.slots : Tool(c) \/ ToolFaults(c)
  BY <1>4, ToolRounds
<1>5. CASE \E k \in Comps : Compaction(k) \/ CompFaults(k)
  BY <1>5, CompactionRounds
<1>6. CASE \/ AbortConversation \/ Crash \/ Close
           \/ \E c \in DOMAIN conv.slots : AbortWork({c}, {})
           \/ \E k \in Comps : AbortWork({}, {k})
  BY <1>6, AbortConversationLulls, ReopenedLulls, AbortWorkLulls, LulledRounds
<1> QED BY <1>1, <1>2, <1>3, <1>4, <1>5, <1>6 DEF Next

\* The transcript and the slots of the open round agree in every reachable state:
\* the calls without a result are those the slots say are to be settled, and the
\* lost ones, and a generation that runs has no call under way.
THEOREM RoundsInvariant == Spec => []RoundsInv
<1>1. Init => RoundsInv
  BY InitRounds
<1>2. ConvInv /\ ConvInv' /\ ContextInv /\ RoundsInv /\ [Next]_vars => RoundsInv'
  BY NextRounds
<1> QED BY <1>1, <1>2, ConversationInvariant, ContextInvariant, PTL DEF Spec

\* Each call of an answer gets one result before the next answer, also when the
\* round is aborted, cut off or interrupted by crashes; only the calls that a
\* fault lost have none (startToolRound, settle, finishToolRound, the abort
\* handler and settleSchedulerOutcome).
THEOREM CallsAreAnswered == Spec => []RoundsAnswered
<1>1. ConvInv /\ RoundsInv => RoundsAnswered
  <2> SUFFICES ASSUME ConvInv, RoundsInv PROVE RoundsAnswered
    OBVIOUS
  <2> DEFINE Open(p, c) == /\ p = Assistant(conv) /\ \E g \in Gens : conv.gens[g].phase = "tools"
                           /\ conv.slots[c].st \notin {"done", "lost"}
             Found(p, c) == {r \in DOMAIN conv.entries : /\ conv.entries[r].kind = "result"
                                                         /\ conv.entries[r].m = p /\ conv.entries[r].n = c}
  <2>1. conv \in Conv /\ DOMAIN conv.entries \subseteq Nat
    BY InvFacts
  <2>2. ASSUME NEW p \in DOMAIN conv.entries, conv.entries[p].kind = "calls", NEW c \in 1..conv.entries[p].calls
        PROVE  \E bare : /\ Settled(conv.entries, p, c, bare)
                         /\ <<p, c>> \in bare <=> Open(p, c) \/ <<p, c>> \in conv.lost
    <3>1. CASE InRound
      <4>1. PICK q \in DOMAIN conv.entries : RoundAt(conv, q)
        BY <3>1 DEF RoundsInv
      <4>2. Assistant(conv) = q /\ Paired(conv.entries, Bare(conv, q)) /\ conv.entries[q].calls = Len(conv.slots)
        BY <2>1, <4>1, RoundAssistant, RoundAtIs
      <4>3. Settled(conv.entries, p, c, Bare(conv, q))
        BY <2>2, <4>2 DEF Paired
      <4>4. <<p, c>> \in Bare(conv, q) <=> <<p, c>> \in conv.lost \/ (p = q /\ c \in Unsettled(conv))
        BY BareIs
      <4>5. p = q => (c \in Unsettled(conv) <=> conv.slots[c].st \notin {"done", "lost"})
        <5> SUFFICES ASSUME p = q PROVE c \in Unsettled(conv) <=> conv.slots[c].st \notin {"done", "lost"}
          OBVIOUS
        <5>1. DOMAIN conv.slots = 1..Len(conv.slots)
          BY <2>1, SlotNumbers
        <5>2. c \in DOMAIN conv.slots
          BY <4>2, <5>1
        <5>3. conv.slots[c].st \in {"pending", "call", "execute", "done", "lost"}
          BY <5>2, SlotFacts DEF Slot
        <5> QED BY <5>2, <5>3, UnsettledIs
      <4>6. Open(p, c) <=> p = q /\ conv.slots[c].st \notin {"done", "lost"}
        BY <3>1, <4>2 DEF InRound
      <4> HIDE DEF Open
      <4> QED BY <4>3, <4>4, <4>5, <4>6
    <3>2. CASE ~InRound
      <4>1. Settled(conv.entries, p, c, conv.lost)
        BY <2>2, <3>2 DEF RoundsInv, Paired
      <4>2. ~Open(p, c)
        BY <3>2 DEF InRound
      <4> HIDE DEF Open
      <4> QED BY <4>1, <4>2
    <3> QED BY <3>1, <3>2
  <2>3. ASSUME NEW p \in DOMAIN conv.entries, conv.entries[p].kind = "calls", NEW c \in 1..conv.entries[p].calls
        PROVE  /\ Cardinality(Found(p, c)) = IF Open(p, c) \/ <<p, c>> \in conv.lost THEN 0 ELSE 1
               /\ \A r \in Found(p, c) : p < r /\ \A a \in p..r : a # p => Role(conv.entries[a]) # "assistant"
    <3>1. Found(p, c) = ResultsOf(conv.entries, p, c) /\ Found(p, c) \subseteq Nat
      BY <2>1 DEF ResultsOf
    <3>2. PICK bare : /\ Settled(conv.entries, p, c, bare)
                      /\ <<p, c>> \in bare <=> Open(p, c) \/ <<p, c>> \in conv.lost
      BY <2>2, <2>3
    <3> HIDE DEF Open, Found
    <3>3. /\ IF <<p, c>> \in bare THEN Found(p, c) = {} ELSE \E r \in DOMAIN conv.entries : Found(p, c) = {r}
          /\ \A r \in Found(p, c) : p < r /\ \A a \in (p + 1)..r : Role(conv.entries[a]) # "assistant"
      BY <3>1, <3>2 DEF Settled
    <3>4. Cardinality(Found(p, c)) = IF Open(p, c) \/ <<p, c>> \in conv.lost THEN 0 ELSE 1
      BY <3>2, <3>3, OneOrNone
    <3>5. ASSUME NEW r \in Found(p, c)
          PROVE  p < r /\ \A a \in p..r : a # p => Role(conv.entries[a]) # "assistant"
      BY <2>1, <3>1, <3>3
    <3> QED BY <3>4, <3>5
  <2> QED BY ZenonT(30), <2>3 DEF RoundsAnswered
<1> QED BY <1>1, ConversationInvariant, RoundsInvariant, PTL

\* Everything the proofs of the conversation rest on holds together in every
\* reachable state.
THEOREM WholeInvariant == Spec => []WholeInv
<1>1. ConvInv /\ ContextInv /\ InputsInv /\ RoundsInv => WholeInv
  BY DEF WholeInv
<1> QED BY <1>1, ConversationInvariant, ContextInvariant, InputsInvariant, RoundsInvariant, PTL

=============================================================================
