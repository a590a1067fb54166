---------------------- MODULE ConversationInputsProofs ----------------------
(***************************************************************************)
(* Theorems about the inputs of ConversationRuns: that every submission is *)
(* where its status says, once, that no reset cuts a run's input off, and  *)
(* that the conversation implements InputContract.                         *)
(***************************************************************************)
EXTENDS ConversationContextProofs, FiniteSetTheorems

-----------------------------------------------------------------------------
(* What a step does to the submissions and to the transcript                *)

\* fs is es with entries of other kinds than these at its end.
Adds(es, fs, barred) ==
  Starts(es, fs) /\ \A i \in (Len(es) + 1)..Len(fs) : fs[i].kind \notin barred

\* From s to r only the submissions in ids change, to one of these statuses.
Changed(s, r, ids, statuses) ==
  /\ DOMAIN r.subs = DOMAIN s.subs
  /\ \A i \in DOMAIN s.subs : /\ r.subs[i].kind = s.subs[i].kind /\ r.subs[i].req = s.subs[i].req
                              /\ IF i \in ids THEN r.subs[i].status \in statuses
                                 ELSE r.subs[i].status = s.subs[i].status

LEMMA EntriesAre ==
  ASSUME NEW s \in Conv
  PROVE  /\ s.entries \in Seq(EntryType) /\ Len(s.entries) \in Nat
         /\ DOMAIN s.entries = 1..Len(s.entries)
         /\ s.subs \in Seq(Sub) /\ DOMAIN s.subs = 1..Len(s.subs) /\ Len(s.subs) \in Nat
         /\ s.inbox \in Seq(Item) /\ DOMAIN s.inbox = 1..Len(s.inbox) /\ Len(s.inbox) \in Nat
         /\ s.run \in Run /\ s.run.inputs \in Seq(Nat)
<1>1. /\ s.entries \in Seq(EntryType) /\ s.subs \in Seq(Sub) /\ s.inbox \in Seq(Item) /\ s.run \in Run
  BY DEF Conv
<1>2. s.run.inputs \in Seq(Nat)
  BY <1>1 DEF Run
<1> QED BY <1>1, <1>2

\* The entries that were there are there, and those of a barred kind were.
LEMMA AddsAre ==
  ASSUME NEW s \in Conv, NEW r \in Conv, NEW barred, Adds(s.entries, r.entries, barred)
  PROVE  /\ \A p \in DOMAIN s.entries : p \in DOMAIN r.entries /\ r.entries[p] = s.entries[p]
         /\ \A p \in DOMAIN r.entries : r.entries[p].kind \in barred =>
              p \in DOMAIN s.entries /\ r.entries[p] = s.entries[p]
<1>1. /\ Len(s.entries) \in Nat /\ Len(r.entries) \in Nat
      /\ DOMAIN s.entries = 1..Len(s.entries) /\ DOMAIN r.entries = 1..Len(r.entries)
  BY EntriesAre
<1>2. Len(s.entries) <= Len(r.entries) /\ \A p \in DOMAIN s.entries : r.entries[p] = s.entries[p]
  BY <1>1 DEF Adds, Starts
<1>3. ASSUME NEW p \in DOMAIN r.entries, r.entries[p].kind \in barred PROVE p \in DOMAIN s.entries
  <2>1. p \notin (Len(s.entries) + 1)..Len(r.entries)
    BY <1>3 DEF Adds
  <2> QED BY <1>1, <2>1
<1> QED BY <1>1, <1>2, <1>3

LEMMA NoUserAdded ==
  ASSUME NEW s \in Conv, NEW r \in Conv, Adds(s.entries, r.entries, {"user"})
  PROVE  /\ \A p \in DOMAIN s.entries : p \in DOMAIN r.entries /\ r.entries[p] = s.entries[p]
         /\ \A p \in DOMAIN r.entries : r.entries[p].kind = "user" =>
              p \in DOMAIN s.entries /\ r.entries[p] = s.entries[p]
<1>1. PICK barred : barred = {"user"} /\ Adds(s.entries, r.entries, barred)
  OBVIOUS
<1>2. /\ \A p \in DOMAIN s.entries : p \in DOMAIN r.entries /\ r.entries[p] = s.entries[p]
      /\ \A p \in DOMAIN r.entries : r.entries[p].kind \in barred =>
           p \in DOMAIN s.entries /\ r.entries[p] = s.entries[p]
  BY <1>1, AddsAre
<1> QED BY <1>1, <1>2

LEMMA AddsTrans ==
  ASSUME NEW s \in Conv, NEW r \in Conv, NEW t \in Conv, NEW barred,
         Adds(s.entries, r.entries, barred), Adds(r.entries, t.entries, barred)
  PROVE  Adds(s.entries, t.entries, barred)
<1>1. Len(s.entries) \in Nat /\ Len(r.entries) \in Nat /\ Len(t.entries) \in Nat
  BY EntriesAre
<1>2. Starts(s.entries, t.entries)
  BY <1>1 DEF Adds, Starts
<1>3. ASSUME NEW i \in (Len(s.entries) + 1)..Len(t.entries) PROVE t.entries[i].kind \notin barred
  <2>1. CASE i <= Len(r.entries)
    BY <1>1, <2>1 DEF Adds, Starts
  <2>2. CASE i > Len(r.entries)
    BY <1>1, <2>2 DEF Adds
  <2> QED BY <1>1, <2>1, <2>2
<1> QED BY <1>2, <1>3 DEF Adds

LEMMA AddsSame ==
  ASSUME NEW s \in Conv, NEW es, es = s.entries, NEW barred
  PROVE  Adds(s.entries, es, barred)
  BY EntriesAre DEF Adds, Starts

LEMMA AddsOne ==
  ASSUME NEW s \in Conv, NEW e \in EntryType, NEW es, es = Append(s.entries, e), NEW barred,
         e.kind \notin barred
  PROVE  Adds(s.entries, es, barred)
<1>1. s.entries \in Seq(EntryType) /\ Len(s.entries) \in Nat
  BY EntriesAre
<1>2. /\ Len(es) = Len(s.entries) + 1 /\ es[Len(s.entries) + 1] = e
      /\ \A i \in 1..Len(s.entries) : es[i] = s.entries[i]
  BY <1>1
<1>3. \A i \in (Len(s.entries) + 1)..Len(es) : i = Len(s.entries) + 1
  BY <1>1, <1>2
<1> QED BY <1>1, <1>2, <1>3 DEF Adds, Starts

LEMMA AddsFewer ==
  ASSUME NEW es, NEW fs, NEW barred, Adds(es, fs, barred), NEW fewer, fewer \subseteq barred
  PROVE  Adds(es, fs, fewer)
  BY DEF Adds

LEMMA ChangedSame ==
  ASSUME NEW s, NEW r, r.subs = s.subs, NEW statuses
  PROVE  Changed(s, r, {}, statuses)
  BY DEF Changed

LEMMA SettleChanges ==
  ASSUME NEW s \in Conv, NEW ids, NEW status \in SubStatus
  PROVE  /\ Changed(s, Settle(s, ids, status), ids, {status})
         /\ Settle(s, ids, status) \in Conv /\ Settle(s, ids, status).entries = s.entries
         /\ Settle(s, ids, status).inbox = s.inbox /\ Settle(s, ids, status).run = s.run
<1> DEFINE f == [i \in DOMAIN s.subs |->
                   IF i \in ids THEN [s.subs[i] EXCEPT !.status = status] ELSE s.subs[i]]
           r == Settle(s, ids, status)
<1>1. r.subs = f
  BY DEF Settle, Conv
<1>2. r \in Conv /\ r.entries = s.entries /\ r.inbox = s.inbox /\ r.run = s.run
  BY SettleFramed DEF Framed
<1> HIDE DEF r
<1>3. ASSUME NEW i \in DOMAIN s.subs
      PROVE  /\ r.subs[i].kind = s.subs[i].kind /\ r.subs[i].req = s.subs[i].req
             /\ IF i \in ids THEN r.subs[i].status \in {status} ELSE r.subs[i].status = s.subs[i].status
  <2>1. s.subs[i] \in Sub
    BY EntriesAre
  <2>2. r.subs[i] = IF i \in ids THEN [s.subs[i] EXCEPT !.status = status] ELSE s.subs[i]
    BY <1>1
  <2> QED BY <2>1, <2>2 DEF Sub
<1>4. DOMAIN r.subs = DOMAIN s.subs
  BY <1>1
<1> QED BY <1>2, <1>3, <1>4 DEF Changed, r

-----------------------------------------------------------------------------
(* Submissions and their entries                                            *)

\* Submissions are settled, or stay.
LEMMA SubsEnd ==
  ASSUME NEW s \in Conv, NEW r \in Conv, SubsSound(s), NEW ids,
         NEW statuses, statuses \subseteq {"done", "unanswered"}, Changed(s, r, ids, statuses),
         Adds(s.entries, r.entries, {"user"}),
         \A i \in DOMAIN s.subs : i \in ids /\ s.subs[i].kind = "input" /\ "done" \in statuses =>
           s.subs[i].status \in {"placed", "done"}
  PROVE  SubsSound(r)
<1>1. /\ \A p \in DOMAIN s.entries : p \in DOMAIN r.entries /\ r.entries[p] = s.entries[p]
      /\ \A p \in DOMAIN r.entries : r.entries[p].kind = "user" =>
           p \in DOMAIN s.entries /\ r.entries[p] = s.entries[p]
  BY NoUserAdded
<1>2. DOMAIN r.subs = DOMAIN s.subs
  BY DEF Changed
<1>3. ASSUME NEW i \in DOMAIN r.subs
      PROVE  /\ r.subs[i].status = "placed" => r.subs[i].kind \notin WriteKinds
             /\ r.subs[i].kind = "input" /\ r.subs[i].status \in {"placed", "done"} =>
                  \E p \in DOMAIN r.entries : r.entries[p].kind = "user" /\ r.entries[p].n = i
             /\ \A j \in DOMAIN r.subs : r.subs[i].req # 0 /\ r.subs[i].req = r.subs[j].req => i = j
  <2>1. /\ r.subs[i].kind = s.subs[i].kind
        /\ r.subs[i].status = "placed" => s.subs[i].status = "placed"
        /\ \A j \in DOMAIN s.subs : r.subs[j].req = s.subs[j].req
    BY <1>2 DEF Changed
  <2>2. r.subs[i].kind = "input" /\ r.subs[i].status \in {"placed", "done"} =>
          s.subs[i].status \in {"placed", "done"}
    BY <1>2 DEF Changed
  <2>3. s.subs[i].kind = "input" /\ s.subs[i].status \in {"placed", "done"} =>
          \E p \in DOMAIN s.entries : s.entries[p].kind = "user" /\ s.entries[p].n = i
    BY <1>2 DEF SubsSound
  <2>4. r.subs[i].kind = "input" /\ r.subs[i].status \in {"placed", "done"} =>
          \E p \in DOMAIN r.entries : r.entries[p].kind = "user" /\ r.entries[p].n = i
    BY <1>1, <2>1, <2>2, <2>3
  <2> QED BY <1>2, <2>1, <2>4 DEF SubsSound
<1>4. ASSUME NEW p \in DOMAIN r.entries, r.entries[p].kind = "user"
      PROVE  /\ r.entries[p].n \in DOMAIN r.subs /\ r.subs[r.entries[p].n].status # "queued"
             /\ \A q \in DOMAIN r.entries :
                  r.entries[q].kind = "user" /\ r.entries[q].n = r.entries[p].n => p = q
  <2>1. p \in DOMAIN s.entries /\ r.entries[p] = s.entries[p] /\ s.entries[p].kind = "user"
    BY <1>1, <1>4
  <2>2. s.entries[p].n \in DOMAIN s.subs /\ s.subs[s.entries[p].n].status # "queued"
    BY <2>1 DEF SubsSound
  <2>3. r.subs[s.entries[p].n].status # "queued"
    BY <2>2 DEF Changed
  <2>4. ASSUME NEW q \in DOMAIN r.entries, r.entries[q].kind = "user", r.entries[q].n = r.entries[p].n
        PROVE  p = q
    BY <1>1, <2>1, <2>4 DEF SubsSound
  <2> QED BY <1>2, <2>1, <2>2, <2>3, <2>4
<1> QED BY <1>3, <1>4 DEF SubsSound

LEMMA SubsQuiet ==
  ASSUME NEW s \in Conv, NEW r \in Conv, SubsSound(s), r.subs = s.subs,
         Adds(s.entries, r.entries, {"user"})
  PROVE  SubsSound(r)
<1>1. Changed(s, r, {}, {})
  BY ChangedSame
<1> QED BY <1>1, SubsEnd

\* A submission arrives: it is no input placed without its entry.
LEMMA SubsArrive ==
  ASSUME NEW s \in Conv, NEW r \in Conv, SubsSound(s), NEW sub \in Sub, r.subs = Append(s.subs, sub),
         sub.req # 0 => \A i \in DOMAIN s.subs : s.subs[i].req # sub.req,
         sub.status = "placed" => sub.kind \notin WriteKinds,
         \/ /\ Adds(s.entries, r.entries, {"user"})
            /\ sub.kind = "input" => sub.status \in {"queued", "unanswered"}
         \/ /\ r.entries = Append(s.entries, Entry("user", NextId(s), 0))
            /\ sub.status # "queued"
  PROVE  SubsSound(r)
<1>n. PICK n \in Nat : n = Len(s.subs)
  BY EntriesAre
<1>m. PICK m \in Nat : m = Len(s.entries)
  BY EntriesAre
<1> DEFINE user == r.entries = Append(s.entries, Entry("user", n + 1, 0)) /\ sub.status # "queued"
<1>0. s.subs \in Seq(Sub) /\ DOMAIN s.subs = 1..n
  BY <1>n, EntriesAre
<1>1. DOMAIN r.subs = 1..(n + 1) /\ r.subs[n + 1] = sub /\ \A i \in 1..n : r.subs[i] = s.subs[i]
  BY <1>n, <1>0
<1>2. NextId(s) = n + 1
  BY <1>n DEF NextId
<1>3. /\ \A p \in DOMAIN s.entries : p \in DOMAIN r.entries /\ r.entries[p] = s.entries[p]
      /\ \/ /\ \A p \in DOMAIN r.entries : r.entries[p].kind = "user" =>
                 p \in DOMAIN s.entries /\ r.entries[p] = s.entries[p]
            /\ sub.kind = "input" => sub.status \in {"queued", "unanswered"}
         \/ /\ sub.status # "queued" /\ m + 1 \in DOMAIN r.entries
            /\ r.entries[m + 1].kind = "user" /\ r.entries[m + 1].n = n + 1
            /\ \A p \in DOMAIN r.entries \ {m + 1} : p \in DOMAIN s.entries /\ r.entries[p] = s.entries[p]
  <2>1. CASE Adds(s.entries, r.entries, {"user"}) /\ (sub.kind = "input" => sub.status \in {"queued", "unanswered"})
    BY <2>1, NoUserAdded
  <2>2. CASE user
    <3>1. s.entries \in Seq(EntryType) /\ DOMAIN s.entries = 1..m
      BY <1>m, EntriesAre
    <3>2. Entry("user", n + 1, 0) \in EntryType
      <4>1. PICK k \in Nat : k = n + 1
        OBVIOUS
      <4>2. Entry("user", k, 0) \in EntryType
        BY EntryTyped
      <4> QED BY <4>1, <4>2
    <3>3. Entry("user", n + 1, 0).kind = "user" /\ Entry("user", n + 1, 0).n = n + 1
      BY DEF Entry
    <3>4. DOMAIN r.entries = 1..(m + 1) /\ r.entries[m + 1] = Entry("user", n + 1, 0)
          /\ \A p \in 1..m : r.entries[p] = s.entries[p]
      BY <1>m, <2>2, <3>1, <3>2
    <3>5. \A p \in DOMAIN r.entries \ {m + 1} : p \in 1..m
      BY <3>4
    <3> QED BY <2>2, <3>1, <3>3, <3>4, <3>5
  <2> QED BY <1>2, <2>1, <2>2
<1> HIDE DEF user
<1>4. ASSUME NEW i \in DOMAIN r.subs
      PROVE  /\ r.subs[i].status = "placed" => r.subs[i].kind \notin WriteKinds
             /\ r.subs[i].kind = "input" /\ r.subs[i].status \in {"placed", "done"} =>
                  \E p \in DOMAIN r.entries : r.entries[p].kind = "user" /\ r.entries[p].n = i
             /\ \A j \in DOMAIN r.subs : r.subs[i].req # 0 /\ r.subs[i].req = r.subs[j].req => i = j
  <2>1. CASE i \in 1..n
    <3>1. i \in DOMAIN s.subs /\ r.subs[i] = s.subs[i]
      BY <1>0, <1>1, <2>1
    <3>2. \A j \in DOMAIN r.subs : r.subs[i].req # 0 /\ r.subs[i].req = r.subs[j].req => i = j
      <4> SUFFICES ASSUME NEW j \in DOMAIN r.subs, r.subs[i].req # 0, r.subs[i].req = r.subs[j].req
                   PROVE  i = j
        OBVIOUS
      <4>1. j \in 1..n \/ j = n + 1
        BY <1>1
      <4> QED BY <1>0, <1>1, <3>1, <4>1 DEF SubsSound
    <3>3. s.subs[i].kind = "input" /\ s.subs[i].status \in {"placed", "done"} =>
            \E p \in DOMAIN s.entries : s.entries[p].kind = "user" /\ s.entries[p].n = i
      BY <3>1 DEF SubsSound
    <3>4. s.subs[i].status = "placed" => s.subs[i].kind \notin WriteKinds
      BY <3>1 DEF SubsSound
    <3> QED BY <1>3, <3>1, <3>2, <3>3, <3>4
  <2>2. CASE i = n + 1
    <3>1. r.subs[i] = sub
      BY <1>1, <2>2
    <3>2. \A j \in DOMAIN r.subs : r.subs[i].req # 0 /\ r.subs[i].req = r.subs[j].req => i = j
      <4> SUFFICES ASSUME NEW j \in DOMAIN r.subs, r.subs[i].req # 0, r.subs[i].req = r.subs[j].req
                   PROVE  i = j
        OBVIOUS
      <4>1. j \in 1..n \/ j = n + 1
        BY <1>1
      <4> QED BY <1>0, <1>1, <2>2, <3>1, <4>1
    <3>3. sub.kind = "input" /\ sub.status \in {"placed", "done"} =>
            \E p \in DOMAIN r.entries : r.entries[p].kind = "user" /\ r.entries[p].n = i
      BY <1>3, <2>2
    <3> QED BY <3>1, <3>2, <3>3
  <2> QED BY <1>1, <2>1, <2>2
<1>5. ASSUME NEW p \in DOMAIN r.entries, r.entries[p].kind = "user"
      PROVE  /\ r.entries[p].n \in DOMAIN r.subs /\ r.subs[r.entries[p].n].status # "queued"
             /\ \A q \in DOMAIN r.entries :
                  r.entries[q].kind = "user" /\ r.entries[q].n = r.entries[p].n => p = q
  <2>1. \A q \in DOMAIN s.entries : s.entries[q].kind = "user" =>
          s.entries[q].n \in 1..n /\ s.subs[s.entries[q].n].status # "queued"
    BY <1>0 DEF SubsSound
  <2>2. CASE p \in DOMAIN s.entries /\ r.entries[p] = s.entries[p]
    <3>1. s.entries[p].n \in 1..n /\ s.subs[s.entries[p].n].status # "queued"
      BY <1>5, <2>1, <2>2
    <3>2. ASSUME NEW q \in DOMAIN r.entries, r.entries[q].kind = "user", r.entries[q].n = r.entries[p].n
          PROVE  p = q
      <4>1. CASE q \in DOMAIN s.entries /\ r.entries[q] = s.entries[q]
        BY <1>5, <2>2, <3>2, <4>1 DEF SubsSound
      <4>2. CASE r.entries[q].n = n + 1
        BY <2>2, <3>1, <3>2, <4>2
      <4> QED BY <1>3, <3>2, <4>1, <4>2
    <3> QED BY <1>1, <2>2, <3>1, <3>2
  <2>3. CASE sub.status # "queued" /\ p = m + 1 /\ r.entries[p].n = n + 1
             /\ \A q \in DOMAIN r.entries \ {m + 1} : q \in DOMAIN s.entries /\ r.entries[q] = s.entries[q]
    <3>1. ASSUME NEW q \in DOMAIN r.entries, r.entries[q].kind = "user", r.entries[q].n = n + 1, q # p
          PROVE  FALSE
      <4>1. q \in DOMAIN s.entries /\ r.entries[q] = s.entries[q]
        BY <2>3, <3>1
      <4>2. n + 1 \in 1..n
        BY <2>1, <3>1, <4>1
      <4> QED BY <4>2
    <3> QED BY <1>1, <2>3, <3>1
  <2> QED BY <1>3, <1>5, <2>2, <2>3
<1> QED BY <1>4, <1>5 DEF SubsSound

\* fs has the entries of these user items behind es.
Follow(es, fs, items) ==
  /\ Starts(es, fs) /\ Len(fs) = Len(es) + Len(items)
  /\ \A k \in 1..Len(items) : /\ fs[Len(es) + k].kind = "user"
                              /\ fs[Len(es) + k].n = items[k].id

\* User items get their entries, in turn.
LEMMA PlaceInputsAre ==
  ASSUME NEW s \in Conv, NEW items \in Seq(Item), NEW r, r = PlaceInputs(s, items)
  PROVE  /\ r \in Conv /\ r.inbox = s.inbox /\ r.run = s.run
         /\ Changed(s, r, {items[k].id : k \in DOMAIN items}, {"placed"})
         /\ Follow(s.entries, r.entries, items)
<1> DEFINE ids == {items[k].id : k \in DOMAIN items}
           c == Settle(s, ids, "placed")
           es == [k \in DOMAIN items |-> Entry("user", items[k].id, 0)]
<1>1. /\ Changed(s, c, ids, {"placed"}) /\ c \in Conv /\ c.entries = s.entries /\ c.inbox = s.inbox
      /\ c.run = s.run
  <2> HIDE DEF ids
  <2> QED BY SettleChanges DEF SubStatus
<1>2. r = [c EXCEPT !.entries = c.entries \o es]
  BY DEF PlaceInputs
<1>3. DOMAIN items = 1..Len(items) /\ Len(items) \in Nat
  OBVIOUS
<1>4. ASSUME NEW k \in DOMAIN items
      PROVE  es[k] \in EntryType /\ es[k].kind = "user" /\ es[k].n = items[k].id
  <2>0. items[k] \in Item
    OBVIOUS
  <2>1. items[k].id \in Nat
    BY <2>0 DEF Item
  <2>2. Entry("user", items[k].id, 0) \in EntryType
    BY <2>1, EntryTyped
  <2> QED BY <2>2 DEF Entry
<1>5. es \in Seq(EntryType) /\ Len(es) = Len(items)
  <2>1. es \in [1..Len(items) -> EntryType]
    BY <1>3, <1>4
  <2> QED BY <1>3, <2>1, IsSeq
<1>6. r \in Conv
  BY PlaceInputsFramed DEF Framed
<1> HIDE DEF c, es, ids
<1>7. r.subs = c.subs /\ r.entries = c.entries \o es /\ r.inbox = c.inbox /\ r.run = c.run
  BY <1>1, <1>2 DEF Conv
<1>8. c.entries \in Seq(EntryType)
  BY <1>1, EntriesAre
<1>9. Joins(r.entries, c.entries, es)
  BY <1>5, <1>7, <1>8, ConcatJoins
<1>10. Changed(s, r, ids, {"placed"})
  BY <1>1, <1>7 DEF Changed
<1>11. Starts(s.entries, r.entries) /\ Len(r.entries) = Len(s.entries) + Len(items)
  BY <1>1, <1>3, <1>5, <1>8, <1>9 DEF Starts, Joins
<1>12. \A k \in 1..Len(items) : r.entries[Len(s.entries) + k] = es[k]
  BY <1>1, <1>5, <1>9 DEF Joins
<1>13. Follow(s.entries, r.entries, items)
  BY <1>3, <1>4, <1>11, <1>12 DEF Follow
<1> QED BY <1>1, <1>6, <1>7, <1>10, <1>13 DEF ids

LEMMA SubsPlaced ==
  ASSUME NEW s \in Conv, SubsSound(s), NEW items \in Seq(Item), NEW r, r = PlaceInputs(s, items),
         \A k \in DOMAIN items : /\ items[k].id \in DOMAIN s.subs
                                 /\ s.subs[items[k].id].status = "queued"
                                 /\ s.subs[items[k].id].kind \notin WriteKinds,
         \A j, k \in DOMAIN items : items[j].id = items[k].id => j = k
  PROVE  SubsSound(r)
<1>i. PICK ids : ids = {items[k].id : k \in DOMAIN items}
  OBVIOUS
<1>m. PICK m \in Nat : m = Len(s.entries)
  BY EntriesAre
<1>l. PICK l \in Nat : l = Len(items) /\ DOMAIN items = 1..l
  OBVIOUS
<1>1. r \in Conv /\ Changed(s, r, ids, {"placed"}) /\ Follow(s.entries, r.entries, items)
  <2>1. PICK xs : xs = {items[k].id : k \in DOMAIN items} /\ Changed(s, r, xs, {"placed"})
    BY PlaceInputsAre
  <2>2. xs = ids
    BY ONLY <1>i, <2>1
  <2>3. r \in Conv /\ Follow(s.entries, r.entries, items)
    BY PlaceInputsAre
  <2> QED BY ONLY <2>1, <2>2, <2>3
<1>2. \A i \in ids : i \in DOMAIN s.subs /\ s.subs[i].status = "queued" /\ s.subs[i].kind \notin WriteKinds
                     /\ \E k \in 1..l : items[k].id = i
  BY <1>i, <1>l
<1>3. \A k \in 1..l : items[k].id \in ids
  BY <1>i, <1>l
<1>4. DOMAIN s.entries = 1..m /\ DOMAIN r.entries = 1..(m + l)
  BY <1>m, <1>l, <1>1, EntriesAre DEF Follow
<1>5. /\ \A p \in 1..m : r.entries[p] = s.entries[p]
      /\ \A k \in 1..l : r.entries[m + k].kind = "user" /\ r.entries[m + k].n = items[k].id
  BY <1>m, <1>l, <1>1 DEF Follow, Starts
<1>6. \A p \in 1..(m + l) : p \in 1..m \/ \E k \in 1..l : p = m + k
  <2> SUFFICES ASSUME NEW p \in 1..(m + l), p \notin 1..m PROVE \E k \in 1..l : p = m + k
    OBVIOUS
  <2>1. p - m \in 1..l /\ p = m + (p - m)
    OBVIOUS
  <2> QED BY <2>1
<1>7. DOMAIN r.subs = DOMAIN s.subs
      /\ \A i \in DOMAIN s.subs : /\ r.subs[i].kind = s.subs[i].kind /\ r.subs[i].req = s.subs[i].req
                                  /\ i \in ids => r.subs[i].status = "placed"
                                  /\ i \notin ids => r.subs[i].status = s.subs[i].status
  BY <1>1 DEF Changed
<1>8. ASSUME NEW i \in DOMAIN r.subs
      PROVE  /\ r.subs[i].status = "placed" => r.subs[i].kind \notin WriteKinds
             /\ r.subs[i].kind = "input" /\ r.subs[i].status \in {"placed", "done"} =>
                  \E p \in DOMAIN r.entries : r.entries[p].kind = "user" /\ r.entries[p].n = i
             /\ \A j \in DOMAIN r.subs : r.subs[i].req # 0 /\ r.subs[i].req = r.subs[j].req => i = j
  <2>1. r.subs[i].status = "placed" => r.subs[i].kind \notin WriteKinds
    BY <1>2, <1>7 DEF SubsSound
  <2>2. \A j \in DOMAIN r.subs : r.subs[i].req # 0 /\ r.subs[i].req = r.subs[j].req => i = j
    BY <1>7 DEF SubsSound
  <2>3. ASSUME r.subs[i].kind = "input", r.subs[i].status \in {"placed", "done"}
        PROVE  \E p \in DOMAIN r.entries : r.entries[p].kind = "user" /\ r.entries[p].n = i
    <3>1. CASE i \in ids
      <4>1. PICK k \in 1..l : items[k].id = i
        BY <1>2, <3>1
      <4>2. m + k \in DOMAIN r.entries
        BY <1>4
      <4> QED BY <1>5, <4>1, <4>2
    <3>2. CASE i \notin ids
      <4>1. s.subs[i].kind = "input" /\ s.subs[i].status \in {"placed", "done"}
        BY <1>7, <2>3, <3>2
      <4>2. PICK p \in DOMAIN s.entries : s.entries[p].kind = "user" /\ s.entries[p].n = i
        BY <1>7, <4>1 DEF SubsSound
      <4> QED BY <1>4, <1>5, <4>2
    <3> QED BY <3>1, <3>2
  <2> QED BY <2>1, <2>2, <2>3
<1>9. ASSUME NEW p \in DOMAIN r.entries, r.entries[p].kind = "user"
      PROVE  /\ r.entries[p].n \in DOMAIN r.subs /\ r.subs[r.entries[p].n].status # "queued"
             /\ \A q \in DOMAIN r.entries :
                  r.entries[q].kind = "user" /\ r.entries[q].n = r.entries[p].n => p = q
  <2>1. \A q \in 1..m : r.entries[q].kind = "user" =>
          /\ r.entries[q].n \in DOMAIN s.subs /\ s.subs[r.entries[q].n].status # "queued"
          /\ r.entries[q].n \notin ids
    <3>1. \A q \in 1..m : s.entries[q].kind = "user" =>
            s.entries[q].n \in DOMAIN s.subs /\ s.subs[s.entries[q].n].status # "queued"
      BY <1>4 DEF SubsSound
    <3>2. \A q \in 1..m : r.entries[q] = s.entries[q]
      BY <1>5
    <3> QED BY ONLY <1>2, <3>1, <3>2
  <2>2. \A k \in 1..l : r.entries[m + k].n \in ids
    BY <1>3, <1>5
  <2>3. CASE p \in 1..m
    <3>1. \A q \in 1..m : r.entries[q].kind = "user" /\ r.entries[q].n = r.entries[p].n => p = q
      <4>1. \A x, q \in 1..m : s.entries[x].kind = "user" /\ s.entries[q].kind = "user"
                               /\ s.entries[q].n = s.entries[x].n => x = q
        BY <1>4 DEF SubsSound
      <4>2. \A q \in 1..m : r.entries[q] = s.entries[q]
        BY <1>5
      <4> QED BY ONLY <1>9, <2>3, <4>1, <4>2
    <3>2. ASSUME NEW q \in DOMAIN r.entries, r.entries[q].n = r.entries[p].n, q \notin 1..m PROVE FALSE
      <4>1. PICK k \in 1..l : q = m + k
        BY <1>4, <1>6, <3>2
      <4>2. r.entries[q].n \in ids
        BY <2>2, <4>1
      <4> QED BY ONLY <1>9, <2>1, <2>3, <3>2, <4>2
    <3> QED BY <1>7, <1>9, <2>1, <2>3, <3>1, <3>2
  <2>4. CASE p \notin 1..m
    <3>1. PICK k \in 1..l : p = m + k
      BY <1>4, <1>6, <2>4
    <3>2. r.entries[p].n \in ids /\ r.entries[p].n = items[k].id
      BY <1>5, <2>2, <3>1
    <3>3. ASSUME NEW q \in DOMAIN r.entries, r.entries[q].kind = "user", r.entries[q].n = r.entries[p].n
          PROVE  p = q
      <4>1. q \notin 1..m
        BY <2>1, <3>2, <3>3
      <4>2. PICK j \in 1..l : q = m + j
        BY <1>4, <1>6, <4>1
      <4>3. items[j].id = items[k].id
        BY <1>5, <3>2, <3>3, <4>2
      <4> QED BY <1>l, <3>1, <4>2, <4>3
    <3>4. r.subs[r.entries[p].n].status = "placed" /\ r.entries[p].n \in DOMAIN s.subs
      BY <1>2, <1>7, <3>2
    <3> QED BY <1>7, <3>3, <3>4
  <2> QED BY <2>3, <2>4
<1> QED BY <1>8, <1>9 DEF SubsSound

-----------------------------------------------------------------------------
(* Writes                                                                   *)

LEMMA ChangedTrans ==
  ASSUME NEW s, NEW r, NEW t, NEW ids, NEW more, NEW statuses,
         Changed(s, r, ids, statuses), Changed(r, t, more, statuses)
  PROVE  Changed(s, t, ids \cup more, statuses)
  BY DEF Changed

LEMMA PlaceWriteIs ==
  ASSUME NEW s \in Conv, NEW item \in WriteItem, NEW r, r = PlaceWrite(s, item)
  PROVE  /\ r \in Conv /\ Changed(s, r, {item.id}, {"done", "unanswered"})
         /\ Adds(s.entries, r.entries, {"user"}) /\ r.run = s.run
         /\ item.mode # "reset" => Adds(s.entries, r.entries, {"user", "reset"})
<1> DEFINE st == IF IsStale(s, item) THEN "unanswered" ELSE "done"
           c == Settle(s, {item.id}, st)
           e == Entry(item.mode, item.id, item.cut)
<1>1. /\ Changed(s, c, {item.id}, {st}) /\ c \in Conv /\ c.entries = s.entries /\ c.run = s.run
  BY SettleChanges DEF SubStatus
<1>2. IF IsStale(s, item) THEN r = c ELSE r = AppendEntry(c, e)
  BY DEF PlaceWrite
<1>3. st \in {"done", "unanswered"}
  OBVIOUS
<1>4. e \in EntryType /\ e.kind = item.mode /\ e.kind # "user"
  <2>1. item.mode \in WriteKinds /\ item.id \in Nat /\ item.cut \in Nat
    BY DEF WriteItem, Item
  <2> QED BY <2>1, EntryTyped DEF WriteKinds
<1> HIDE DEF st, c, e
<1>5. Changed(s, c, {item.id}, {"done", "unanswered"})
  BY <1>1, <1>3 DEF Changed
<1>6. CASE IsStale(s, item)
  BY <1>1, <1>2, <1>5, <1>6, AddsSame
<1>7. CASE ~IsStale(s, item)
  <2>1. r \in Conv /\ r.entries = Append(c.entries, e) /\ r.subs = c.subs /\ r.run = c.run
    BY <1>1, <1>2, <1>4, <1>7, AppendIs
  <2>2. Changed(s, r, {item.id}, {"done", "unanswered"})
    BY <1>5, <2>1 DEF Changed
  <2>3. r.entries = Append(s.entries, e)
    BY <1>1, <2>1
  <2>4. Adds(s.entries, r.entries, {"user"})
    BY <1>4, <2>3, AddsOne
  <2>5. item.mode # "reset" => Adds(s.entries, r.entries, {"user", "reset"})
    BY <1>4, <2>3, AddsOne
  <2> QED BY <1>1, <2>1, <2>2, <2>4, <2>5
<1> QED BY <1>6, <1>7

LEMMA PlaceWritesAre ==
  ASSUME NEW s \in Conv, NEW items \in Seq(WriteItem), NEW r, r = PlaceWrites(s, items),
         NEW ids, ids = {items[k].id : k \in DOMAIN items}
  PROVE  /\ r \in Conv /\ Changed(s, r, ids, {"done", "unanswered"}) /\ r.run = s.run
         /\ Adds(s.entries, r.entries, {"user"})
         /\ ~HasQueuedReset(items) => Adds(s.entries, r.entries, {"user", "reset"})
<1>l. PICK l \in Nat : l = Len(items) /\ DOMAIN items = 1..l
  OBVIOUS
<1>1. PICK q : Fold(q, s, items, l) /\ r = q[l]
  BY <1>l, PlaceWritesFold
<1>s. PICK statuses, users, both : statuses = {"done", "unanswered"} /\ users = {"user"} /\ both = {"user", "reset"}
  OBVIOUS
<1> DEFINE upTo(n) == {items[k].id : k \in 1..n}
           Good(n) == /\ q[n] \in Conv /\ q[n].run = s.run /\ Changed(s, q[n], upTo(n), statuses)
                      /\ Adds(s.entries, q[n].entries, users)
                      /\ ~HasQueuedReset(items) => Adds(s.entries, q[n].entries, both)
           T == {n \in Nat : n <= l => Good(n)}
<1>2. 0 \in T
  <2>1. q[0] = s
    BY <1>1, <1>l, FoldAt
  <2>2. upTo(0) = {}
    OBVIOUS
  <2>3. Changed(s, q[0], upTo(0), statuses)
    BY <2>1, <2>2, ChangedSame
  <2>4. Adds(s.entries, q[0].entries, users) /\ Adds(s.entries, q[0].entries, both)
    BY <2>1, AddsSame
  <2> HIDE DEF upTo
  <2> QED BY <2>1, <2>3, <2>4
<1>3. ASSUME NEW n \in Nat, n \in T PROVE n + 1 \in T
  <2> SUFFICES ASSUME n + 1 <= l PROVE Good(n + 1)
    BY <1>3
  <2>1. Good(n)
    BY <1>3, <1>l
  <2>2. PICK m \in 1..l : m = n + 1
    BY <1>l
  <2>3. items[m] \in WriteItem /\ q[m] = PlaceWrite(q[n], items[m])
    BY <1>1, <1>l, <2>2, FoldAt
  <2>4. upTo(m) = upTo(n) \cup {items[m].id}
    BY <2>2
  <2> HIDE DEF upTo
  <2>5. /\ q[m] \in Conv /\ Changed(q[n], q[m], {items[m].id}, statuses)
        /\ Adds(q[n].entries, q[m].entries, users) /\ q[m].run = q[n].run
        /\ items[m].mode # "reset" => Adds(q[n].entries, q[m].entries, both)
    BY <1>s, <2>1, <2>3, PlaceWriteIs
  <2>6. Changed(s, q[m], upTo(m), statuses)
    BY <2>1, <2>4, <2>5, ChangedTrans
  <2>7. Adds(s.entries, q[m].entries, users)
    BY <2>1, <2>5, AddsTrans
  <2>8. ~HasQueuedReset(items) => Adds(s.entries, q[m].entries, both)
    <3>1. ~HasQueuedReset(items) => items[m].mode # "reset"
      BY <1>l DEF HasQueuedReset
    <3> QED BY <2>1, <2>5, <3>1, AddsTrans
  <2> QED BY <2>1, <2>2, <2>5, <2>6, <2>7, <2>8
<1>4. l \in T
  <2> HIDE DEF T
  <2> QED BY <1>2, <1>3, Induct
<1>5. upTo(l) = ids
  BY <1>l
<1> HIDE DEF upTo
<1>6. Good(l)
  BY <1>l, <1>4
<1>7. /\ r \in Conv /\ Changed(s, r, ids, statuses) /\ r.run = s.run
      /\ Adds(s.entries, r.entries, users)
      /\ ~HasQueuedReset(items) => Adds(s.entries, r.entries, both)
  BY ONLY <1>1, <1>5, <1>6
<1> QED BY ONLY <1>s, <1>7

\* r has the elements of seq at S, in order.
Takes(r, seq, S) ==
  /\ \A k \in DOMAIN r : \E j \in DOMAIN seq : j \in S /\ r[k] = seq[j]
  /\ \A j \in DOMAIN seq : j \in S => \E k \in DOMAIN r : r[k] = seq[j]
  /\ \A x, y \in DOMAIN r : x < y =>
       \E i, j \in DOMAIN seq : i < j /\ r[x] = seq[i] /\ r[y] = seq[j]

LEMMA AtIs ==
  ASSUME NEW X, NEW seq \in Seq(X), NEW S, NEW r, r = At(seq, S)
  PROVE  r \in Seq(X) /\ Takes(r, seq, S)
<1>1. PICK f : r \in Seq(X) /\ Picks(f, r, seq, S, Len(seq))
  BY AtPicks
<1>2. DOMAIN seq = 1..Len(seq) /\ DOMAIN r = 1..Len(r)
  BY <1>1
<1>3. ASSUME NEW k \in DOMAIN r PROVE f[k] \in DOMAIN seq /\ f[k] \in S /\ r[k] = seq[f[k]]
  BY <1>1, <1>2 DEF Picks
<1>4. ASSUME NEW j \in DOMAIN seq, j \in S PROVE \E k \in DOMAIN r : r[k] = seq[j]
  <2>1. j \in S \cap (1..Len(seq))
    BY <1>2, <1>4
  <2>2. PICK k \in 1..Len(r) : f[k] = j
    BY <1>1, <2>1 DEF Picks
  <2> QED BY <1>2, <1>3, <2>2
<1>5. ASSUME NEW x \in DOMAIN r, NEW y \in DOMAIN r, x < y
      PROVE  \E i, j \in DOMAIN seq : i < j /\ r[x] = seq[i] /\ r[y] = seq[j]
  <2>1. f[x] < f[y]
    BY <1>1, <1>2, <1>5 DEF Picks
  <2> QED BY <1>3, <2>1
<1> QED BY <1>1, <1>3, <1>4, <1>5 DEF Takes

-----------------------------------------------------------------------------
(* Boundaries                                                               *)

LEMMA HoldsJoin ==
  ASSUME NEW s, NEW c, NEW h \in Seq(Nat), NEW users \in Seq(Nat), NEW more,
         Holds(s, h), ToSet(users) = more, \A j, k \in DOMAIN users : users[j] = users[k] => j = k,
         \A i \in more : i \notin ToSet(h),
         {i \in DOMAIN c.subs : c.subs[i].status = "placed"} =
           {i \in DOMAIN s.subs : s.subs[i].status = "placed"} \cup more
  PROVE  Holds(c, h \o users)
<1>n. PICK n \in Nat : n = Len(h) /\ DOMAIN h = 1..n
  OBVIOUS
<1>m. PICK m \in Nat : m = Len(users) /\ DOMAIN users = 1..m
  OBVIOUS
<1>r. PICK r : r = h \o users
  OBVIOUS
<1>1. DOMAIN r = 1..(n + m)
  BY <1>n, <1>m, <1>r
<1>2. /\ \A k \in 1..n : r[k] = h[k]
      /\ \A k \in 1..m : r[n + k] = users[k]
  BY <1>n, <1>m, <1>r
<1>3. \A x \in 1..(n + m) : x \in 1..n \/ \E k \in 1..m : x = n + k
  <2> SUFFICES ASSUME NEW x \in 1..(n + m), x \notin 1..n PROVE \E k \in 1..m : x = n + k
    OBVIOUS
  <2>1. x - n \in 1..m /\ x = n + (x - n)
    OBVIOUS
  <2> QED BY <2>1
<1>4. /\ \A k \in 1..n : h[k] \in ToSet(h)
      /\ \A k \in 1..m : users[k] \in more
      /\ \A i \in ToSet(h) : \E k \in 1..n : h[k] = i
      /\ \A i \in more : \E k \in 1..m : users[k] = i
  BY <1>n, <1>m DEF ToSet
<1>5. ToSet(r) = ToSet(h) \cup more
  <2>1. ASSUME NEW x \in 1..(n + m) PROVE r[x] \in ToSet(h) \cup more
    <3>1. CASE x \in 1..n
      BY <1>2, <1>4, <3>1
    <3>2. CASE x \notin 1..n
      <4>1. PICK k \in 1..m : x = n + k
        BY <1>3, <3>2
      <4> QED BY <1>2, <1>4, <4>1
    <3> QED BY <3>1, <3>2
  <2>2. ASSUME NEW i \in ToSet(h) PROVE \E x \in 1..(n + m) : r[x] = i
    <3>1. PICK k \in 1..n : h[k] = i
      BY <1>4
    <3>2. k \in 1..(n + m)
      OBVIOUS
    <3> QED BY <1>2, <3>1, <3>2
  <2>3. ASSUME NEW i \in more PROVE \E x \in 1..(n + m) : r[x] = i
    <3>1. PICK k \in 1..m : users[k] = i
      BY <1>4
    <3>2. n + k \in 1..(n + m)
      OBVIOUS
    <3> QED BY <1>2, <3>1, <3>2
  <2>4. ToSet(r) = {r[x] : x \in 1..(n + m)}
    BY <1>1 DEF ToSet
  <2> QED BY <2>1, <2>2, <2>3, <2>4
<1>6. ASSUME NEW x \in 1..(n + m), NEW y \in 1..(n + m), r[x] = r[y] PROVE x = y
  <2>1. CASE x \in 1..n /\ y \in 1..n
    BY <1>n, <1>2, <1>6, <2>1 DEF Holds
  <2>2. CASE x \in 1..n /\ y \notin 1..n
    <3>1. PICK k \in 1..m : y = n + k
      BY <1>3, <2>2
    <3>2. r[x] \in ToSet(h) /\ r[y] \in more
      BY <1>2, <1>4, <2>2, <3>1
    <3> QED BY <1>6, <3>2
  <2>3. CASE x \notin 1..n /\ y \in 1..n
    <3>1. PICK k \in 1..m : x = n + k
      BY <1>3, <2>3
    <3>2. r[y] \in ToSet(h) /\ r[x] \in more
      BY <1>2, <1>4, <2>3, <3>1
    <3> QED BY <1>6, <3>2
  <2>4. CASE x \notin 1..n /\ y \notin 1..n
    <3>1. PICK k \in 1..m : x = n + k
      BY <1>3, <2>4
    <3>2. PICK j \in 1..m : y = n + j
      BY <1>3, <2>4
    <3>3. users[k] = users[j]
      BY <1>2, <1>6, <3>1, <3>2
    <3> QED BY <1>m, <3>1, <3>2, <3>3
  <2> QED BY <2>1, <2>2, <2>3, <2>4
<1>7. ToSet(r) = {i \in DOMAIN c.subs : c.subs[i].status = "placed"}
  BY <1>5 DEF Holds
<1>8. Holds(c, r)
  BY <1>1, <1>6, <1>7 DEF Holds
<1> QED BY <1>r, <1>8

\* Whether a run's inputs are cut off depends on which they are only.
LEMMA UncutIs ==
  ASSUME NEW s, NEW h \in Seq(Nat)
  PROVE  Uncut(s, h) <=> \A i \in ToSet(h) : \A p, r \in DOMAIN s.entries :
           s.entries[p].kind = "user" /\ s.entries[p].n = i /\ s.entries[r].kind = "reset" => r < p
<1>1. ToSet(h) = {h[k] : k \in DOMAIN h}
  BY DEF ToSet
<1> QED BY <1>1 DEF Uncut

LEMMA UncutJoin ==
  ASSUME NEW s, NEW h \in Seq(Nat), NEW users \in Seq(Nat), Uncut(s, h), Uncut(s, users)
  PROVE  Uncut(s, h \o users)
<1>n. PICK n \in Nat : n = Len(h) /\ DOMAIN h = 1..n
  OBVIOUS
<1>m. PICK m \in Nat : m = Len(users) /\ DOMAIN users = 1..m
  OBVIOUS
<1>r. PICK r : r = h \o users
  OBVIOUS
<1>1. DOMAIN r = 1..(n + m)
  BY <1>n, <1>m, <1>r
<1>2. /\ \A k \in 1..n : r[k] = h[k]
      /\ \A k \in 1..m : r[n + k] = users[k]
  BY <1>n, <1>m, <1>r
<1>3. ASSUME NEW x \in 1..(n + m) PROVE r[x] \in ToSet(h) \cup ToSet(users)
  <2>1. CASE x \in 1..n
    BY <1>n, <1>2, <2>1 DEF ToSet
  <2>2. CASE x \notin 1..n
    <3>1. PICK k \in 1..m : k = x - n /\ x = n + k
      BY <2>2
    <3> QED BY <1>m, <1>2, <3>1 DEF ToSet
  <2> QED BY <2>1, <2>2
<1>4. \A i \in ToSet(h) \cup ToSet(users) : \A p, q \in DOMAIN s.entries :
         s.entries[p].kind = "user" /\ s.entries[p].n = i /\ s.entries[q].kind = "reset" => q < p
  BY UncutIs
<1>5. Uncut(s, r)
  BY <1>1, <1>3, <1>4 DEF Uncut
<1> QED BY <1>r, <1>5

\* The writes W and the user items U of the inbox are placed, the rest stays.
Placing(s, c, users, W, U) ==
  LET writes == At(s.inbox, W)
      chosen == At(s.inbox, U)
  IN  /\ c = [PlaceInputs(PlaceWrites(s, writes), chosen) EXCEPT
                !.inbox = At(s.inbox, DOMAIN s.inbox \ (W \cup U))]
      /\ users = [k \in DOMAIN chosen |-> chosen[k].id]

\* The submission has no entry.
NoEntry(s, i) == \A p \in DOMAIN s.entries : ~(s.entries[p].kind = "user" /\ s.entries[p].n = i)

\* Which submission has no entry in s has none in c.
NoneEntered(s, c, ids) == \A i \in ids : NoEntry(s, i) => NoEntry(c, i)

IdsAt(items, S) == {items[k].id : k \in S}

\* Of the submissions of s, the items U are placed and those left wait as before.
Swept(s, c, U) ==
  /\ DOMAIN c.subs = DOMAIN s.subs
  /\ \A i \in DOMAIN s.subs :
       /\ c.subs[i].kind = s.subs[i].kind
       /\ i \in IdsAt(s.inbox, U) => c.subs[i].status = "placed"
       /\ i \notin IdsAt(s.inbox, U) /\ s.subs[i].kind \notin WriteKinds =>
            c.subs[i].status = s.subs[i].status
  /\ \A k \in DOMAIN c.inbox : \E j \in DOMAIN s.inbox : c.inbox[k] = s.inbox[j]

\* W are the writes among the items, U some of the inputs.
Parted(items, W, U) ==
  /\ W = {i \in DOMAIN items : items[i].mode \in WriteKinds}
  /\ U \subseteq DOMAIN items /\ \A i \in U : items[i].mode \notin WriteKinds

LEMMA PlacingKeeps ==
  ASSUME NEW s \in Conv, NEW h \in Seq(Nat), Accounted(s, h), NEW W, NEW U, Parted(s.inbox, W, U),
         NEW c, NEW users, Placing(s, c, users, W, U)
  PROVE  /\ c \in Conv /\ users \in Seq(Nat) /\ c.run = s.run
         /\ Accounted(c, h \o users) /\ Uncut(c, users)
         /\ ~HasQueuedReset(s.inbox) /\ Uncut(s, h) => Uncut(c, h \o users)
         /\ ToSet(users) \subseteq IdsAt(s.inbox, U)
         /\ NoneEntered(s, c, ToSet(h)) /\ Swept(s, c, U)
<1> USE DEF Parted
<1> DEFINE D == DOMAIN s.inbox
           it(k) == s.inbox[k]
<1>a. PICK writes, chosen, rest : /\ writes = At(s.inbox, W) /\ chosen = At(s.inbox, U)
                                  /\ rest = At(s.inbox, D \ (W \cup U))
  OBVIOUS
<1>b. PICK p, q : p = PlaceWrites(s, writes) /\ q = PlaceInputs(p, chosen)
  OBVIOUS
<1>c. c = [q EXCEPT !.inbox = rest] /\ users = [k \in DOMAIN chosen |-> chosen[k].id]
  BY <1>a, <1>b DEF Placing
<1>s. /\ s.inbox \in Seq(Item) /\ SubsSound(s) /\ QueueSound(s) /\ Holds(s, h)
      /\ \A k \in D : it(k) \in Item
  BY EntriesAre DEF Accounted
<1>1. /\ \A k \in D : /\ it(k).id \in DOMAIN s.subs /\ s.subs[it(k).id].status = "queued"
                      /\ it(k).mode \in WriteKinds <=> s.subs[it(k).id].kind \in WriteKinds
      /\ \A j, k \in D : j < k => it(j).id < it(k).id
      /\ \A i \in DOMAIN s.subs : s.subs[i].status = "queued" => \E k \in D : it(k).id = i
  BY <1>s DEF QueueSound
<1>2. \A j, k \in D : it(j).id = it(k).id => j = k
  <2> SUFFICES ASSUME NEW j \in D, NEW k \in D, it(j).id = it(k).id, j # k PROVE FALSE
    OBVIOUS
  <2>1. j \in Nat /\ k \in Nat /\ it(j).id \in Nat /\ it(k).id \in Nat
    BY SMTT(30), <1>s DEF Item
  <2>2. j < k \/ k < j
    BY <2>1
  <2> QED BY <1>1, <2>1, <2>2
<1>3. PICK WI, UI : WI = {it(k).id : k \in W} /\ UI = {it(k).id : k \in U}
  OBVIOUS
<1>4. /\ \A i \in WI : i \in DOMAIN s.subs /\ s.subs[i].status = "queued" /\ s.subs[i].kind \in WriteKinds
      /\ \A i \in UI : i \in DOMAIN s.subs /\ s.subs[i].status = "queued" /\ s.subs[i].kind \notin WriteKinds
  BY <1>1, <1>3
<1>t. /\ chosen \in Seq(Item) /\ Takes(chosen, s.inbox, U) /\ Takes(writes, s.inbox, W)
      /\ rest \in Seq(Item) /\ Takes(rest, s.inbox, D \ (W \cup U))
  BY <1>a, <1>s, AtIs
<1>5. /\ \A k \in DOMAIN chosen : \E j \in D : j \in U /\ chosen[k] = it(j)
      /\ \A j \in U : \E k \in DOMAIN chosen : chosen[k] = it(j)
      /\ \A x, y \in DOMAIN chosen : x < y => \E i, j \in D : i < j /\ chosen[x] = it(i) /\ chosen[y] = it(j)
  BY <1>t DEF Takes
<1>6. /\ \A k \in DOMAIN writes : \E j \in D : j \in W /\ writes[k] = it(j)
      /\ \A j \in W : \E k \in DOMAIN writes : writes[k] = it(j)
  BY <1>t DEF Takes
<1>7. /\ \A k \in DOMAIN rest : \E j \in D : j \notin W \cup U /\ rest[k] = it(j)
      /\ \A j \in D : j \notin W \cup U => \E k \in DOMAIN rest : rest[k] = it(j)
      /\ \A x, y \in DOMAIN rest : x < y => \E i, j \in D : i < j /\ rest[x] = it(i) /\ rest[y] = it(j)
  BY <1>t DEF Takes
<1>8. writes \in Seq(WriteItem)
  BY <1>a, <1>s, AtWrites
<1>9. {writes[k].id : k \in DOMAIN writes} = WI /\ {chosen[k].id : k \in DOMAIN chosen} = UI
  BY <1>3, <1>5, <1>6
<1>10. /\ p \in Conv /\ Changed(s, p, WI, {"done", "unanswered"}) /\ p.run = s.run
       /\ Adds(s.entries, p.entries, {"user"})
       /\ ~HasQueuedReset(writes) => Adds(s.entries, p.entries, {"user", "reset"})
  BY <1>b, <1>8, <1>9, PlaceWritesAre
<1>11. SubsSound(p)
  <2>1. PICK statuses : statuses = {"done", "unanswered"} /\ Changed(s, p, WI, statuses)
    BY <1>10
  <2>2. \A i \in DOMAIN s.subs : i \in WI => s.subs[i].kind # "input"
    BY <1>4 DEF WriteKinds
  <2>3. statuses \subseteq {"done", "unanswered"}
    BY <2>1
  <2> QED BY <1>s, <1>10, <2>1, <2>2, <2>3, SubsEnd
<1>12. /\ DOMAIN p.subs = DOMAIN s.subs
       /\ \A i \in DOMAIN s.subs : /\ p.subs[i].kind = s.subs[i].kind
                                   /\ i \in WI => p.subs[i].status \in {"done", "unanswered"}
                                   /\ i \notin WI => p.subs[i].status = s.subs[i].status
  BY <1>10 DEF Changed
<1>13. \A i \in UI : i \in DOMAIN p.subs /\ p.subs[i].status = "queued" /\ p.subs[i].kind \notin WriteKinds
  BY <1>4, <1>12
<1>14. \A j, k \in DOMAIN chosen : chosen[j].id = chosen[k].id => j = k
  <2> SUFFICES ASSUME NEW x \in DOMAIN chosen, NEW y \in DOMAIN chosen, chosen[x].id = chosen[y].id, x # y
               PROVE  FALSE
    OBVIOUS
  <2>1. x \in Nat /\ y \in Nat
    BY <1>t
  <2>2. x < y \/ y < x
    BY <2>1
  <2>3. PICK i, j \in D : i < j /\ {chosen[x].id, chosen[y].id} = {it(i).id, it(j).id}
    BY SMTT(30), <1>5, <2>2
  <2>4. i = j
    BY <1>2, <2>3
  <2>5. i \in Nat
    BY <1>s
  <2> QED BY <2>3, <2>4, <2>5
<1>15. \A k \in DOMAIN chosen : chosen[k].id \in UI
  BY <1>9
<1>16. SubsSound(q)
  BY <1>b, <1>t, <1>10, <1>11, <1>13, <1>14, <1>15, SubsPlaced
<1>17. q \in Conv /\ q.run = p.run /\ Changed(p, q, UI, {"placed"}) /\ Follow(p.entries, q.entries, chosen)
  <2>1. PICK xs : xs = {chosen[k].id : k \in DOMAIN chosen} /\ Changed(p, q, xs, {"placed"})
    BY <1>b, <1>t, <1>10, PlaceInputsAre
  <2>2. q \in Conv /\ q.run = p.run /\ Follow(p.entries, q.entries, chosen)
    BY <1>b, <1>t, <1>10, PlaceInputsAre
  <2> QED BY <1>9, <2>1, <2>2
<1>18. c \in Conv /\ c.run = s.run /\ c.subs = q.subs /\ c.entries = q.entries /\ c.inbox = rest
  <2>1. c \in Conv
    BY <1>c, <1>t, <1>17, InboxFramed DEF Framed
  <2> QED BY <1>c, <1>10, <1>17, <2>1 DEF Conv
<1>19. /\ DOMAIN c.subs = DOMAIN s.subs
       /\ \A i \in DOMAIN s.subs : /\ c.subs[i].kind = s.subs[i].kind
                                   /\ i \in UI => c.subs[i].status = "placed"
                                   /\ i \in WI => c.subs[i].status \in {"done", "unanswered"}
                                   /\ i \notin WI \cup UI => c.subs[i].status = s.subs[i].status
  <2>1. \A i \in WI : i \notin UI
    BY <1>4
  <2> QED BY <1>12, <1>17, <1>18, <2>1 DEF Changed
<1>20. SubsSound(c)
  <2>1. Adds(q.entries, c.entries, {"user"})
    BY <1>17, <1>18, AddsSame
  <2> QED BY <1>16, <1>17, <1>18, <2>1, SubsQuiet
<1>21. \A k \in D : it(k).id \in WI \cup UI <=> k \in W \cup U
  BY <1>2, <1>3
<1>22. QueueSound(c)
  <2>1. ASSUME NEW k \in DOMAIN rest
        PROVE  /\ rest[k].id \in DOMAIN c.subs /\ c.subs[rest[k].id].status = "queued"
               /\ rest[k].mode \in WriteKinds <=> c.subs[rest[k].id].kind \in WriteKinds
    <3>1. PICK j \in D : j \notin W \cup U /\ rest[k] = it(j)
      BY <1>7
    <3>2. it(j).id \notin WI \cup UI
      BY <1>21, <3>1
    <3> QED BY <1>1, <1>19, <3>1, <3>2
  <2>2. \A j, k \in DOMAIN rest : j < k => rest[j].id < rest[k].id
    BY <1>1, <1>7
  <2>3. ASSUME NEW i \in DOMAIN c.subs, c.subs[i].status = "queued" PROVE \E k \in DOMAIN rest : rest[k].id = i
    <3>1. i \in DOMAIN s.subs /\ i \notin WI \cup UI /\ s.subs[i].status = "queued"
      BY <1>19, <2>3
    <3>2. PICK j \in D : it(j).id = i
      BY <1>1, <3>1
    <3>3. j \notin W \cup U
      BY <1>21, <3>1, <3>2
    <3> QED BY <1>7, <3>2, <3>3
  <2> QED BY <1>18, <2>1, <2>2, <2>3 DEF QueueSound
<1>23. /\ users \in Seq(Nat) /\ DOMAIN users = DOMAIN chosen /\ ToSet(users) = UI
       /\ \A j, k \in DOMAIN users : users[j] = users[k] => j = k
  <2>1. \A k \in DOMAIN chosen : chosen[k].id \in Nat
    <3> SUFFICES ASSUME NEW k \in DOMAIN chosen PROVE chosen[k].id \in Nat
      OBVIOUS
    <3>1. chosen[k] \in Item
      BY <1>t
    <3> QED BY <3>1 DEF Item
  <2>2. users \in [1..Len(chosen) -> Nat] /\ Len(chosen) \in Nat
    BY <1>c, <1>t, <2>1
  <2>3. users \in Seq(Nat)
    BY <2>2, IsSeq
  <2>4. ToSet(users) = {chosen[k].id : k \in DOMAIN chosen}
    BY <1>c DEF ToSet
  <2> QED BY <1>c, <1>9, <1>14, <2>3, <2>4
<1>24. Holds(c, h \o users)
  <2>1. \A i \in UI : i \notin ToSet(h)
    BY <1>4, <1>s DEF Holds
  <2>2. \A i \in DOMAIN s.subs : c.subs[i].status = "placed" <=> s.subs[i].status = "placed" \/ i \in UI
    BY <1>4, <1>19
  <2>3. {i \in DOMAIN c.subs : c.subs[i].status = "placed"} =
          {i \in DOMAIN s.subs : s.subs[i].status = "placed"} \cup UI
    BY <1>4, <1>19, <2>2
  <2> QED BY <1>s, <1>23, <2>1, <2>3, HoldsJoin
<1>m. PICK m \in Nat : m = Len(p.entries) /\ DOMAIN p.entries = 1..m
  BY <1>10, EntriesAre
<1>25. /\ DOMAIN c.entries = 1..Len(c.entries) /\ Len(c.entries) \in Nat /\ m <= Len(c.entries)
       /\ \A x \in 1..m : c.entries[x] = p.entries[x]
       /\ \A x \in DOMAIN c.entries : x > m => c.entries[x].kind = "user" /\ c.entries[x].n \in UI
  <2>l. PICK l \in Nat : l = Len(chosen) /\ DOMAIN chosen = 1..l
    BY <1>t
  <2>1. DOMAIN c.entries = 1..(m + l) /\ Len(c.entries) = m + l
    BY <1>m, <1>17, <1>18, <2>l, EntriesAre DEF Follow
  <2>2. \A x \in 1..m : c.entries[x] = p.entries[x]
    BY <1>m, <1>17, <1>18 DEF Follow, Starts
  <2>3. ASSUME NEW x \in 1..(m + l), x > m PROVE c.entries[x].kind = "user" /\ c.entries[x].n \in UI
    <3>1. PICK k \in 1..l : k = x - m /\ x = m + k
      BY <2>3
    <3> QED BY <1>m, <1>15, <1>17, <1>18, <2>l, <3>1 DEF Follow
  <2> QED BY <2>1, <2>2, <2>3
<1>26. Uncut(c, users)
  <2>1. ASSUME NEW i \in UI, NEW x \in DOMAIN c.entries, NEW y \in DOMAIN c.entries,
               c.entries[x].kind = "user", c.entries[x].n = i, c.entries[y].kind = "reset"
        PROVE  y < x
    <3>1. x > m
      <4>1. SUFFICES ASSUME x \in 1..m PROVE FALSE
        BY <1>25
      <4>2. p.entries[x].kind = "user" /\ p.entries[x].n = i
        BY <1>25, <2>1, <4>1
      <4>3. p.subs[i].status # "queued"
        BY <1>m, <1>11, <4>1, <4>2 DEF SubsSound
      <4> QED BY <1>13, <4>3
    <3>2. ~(y > m)
      BY <1>25, <2>1
    <3> QED BY <1>25, <3>1, <3>2
  <2> QED BY <1>23, <2>1, UncutIs
<1>27. ASSUME ~HasQueuedReset(s.inbox), Uncut(s, h) PROVE Uncut(c, h \o users)
  <2>1. ~HasQueuedReset(writes)
    BY <1>6, <1>27 DEF HasQueuedReset
  <2>2. PICK both : both = {"user", "reset"} /\ Adds(s.entries, p.entries, both)
    BY <1>10, <2>1
  <2>3. \A x \in DOMAIN p.entries : p.entries[x].kind \in {"user", "reset"} =>
          x \in DOMAIN s.entries /\ p.entries[x] = s.entries[x]
    BY <1>10, <2>2, AddsAre
  <2>4. ASSUME NEW i \in ToSet(h), NEW x \in DOMAIN c.entries, NEW y \in DOMAIN c.entries,
               c.entries[x].kind = "user", c.entries[x].n = i, c.entries[y].kind = "reset"
        PROVE  y < x
    <3>1. i \notin UI
      BY <1>4, <1>s DEF Holds
    <3>2. x \in 1..m /\ y \in 1..m
      BY <1>25, <2>4, <3>1
    <3>3. /\ x \in DOMAIN s.entries /\ s.entries[x].kind = "user" /\ s.entries[x].n = i
          /\ y \in DOMAIN s.entries /\ s.entries[y].kind = "reset"
      BY <1>m, <1>25, <2>3, <2>4, <3>2
    <3> QED BY <1>27, <3>3, UncutIs
  <2>5. Uncut(c, h)
    BY <2>4, UncutIs
  <2> QED BY <1>23, <1>26, <2>5, UncutJoin
<1>28. ASSUME NEW i \in ToSet(h), NoEntry(s, i) PROVE NoEntry(c, i)
  <2> SUFFICES ASSUME NEW x \in DOMAIN c.entries, c.entries[x].kind = "user", c.entries[x].n = i PROVE FALSE
    BY DEF NoEntry
  <2>1. i \notin UI
    BY <1>4, <1>s DEF Holds
  <2>2. x \in 1..m
    BY <1>25, <2>1
  <2>3. p.entries[x].kind = "user" /\ p.entries[x].n = i
    BY <1>25, <2>2
  <2>4. x \in DOMAIN s.entries /\ s.entries[x].kind = "user" /\ s.entries[x].n = i
    BY <1>m, <1>10, <2>2, <2>3, NoUserAdded
  <2> QED BY <1>28, <2>4 DEF NoEntry
<1>29. Accounted(c, h \o users)
  BY <1>20, <1>22, <1>24 DEF Accounted
<1>30. Swept(s, c, U)
  <2>1. IdsAt(s.inbox, U) = UI
    BY <1>3 DEF IdsAt
  <2>2. \A i \in DOMAIN s.subs : s.subs[i].kind \notin WriteKinds => i \notin WI
    BY <1>4
  <2>3. \A k \in DOMAIN c.inbox : \E j \in D : c.inbox[k] = it(j)
    BY <1>7, <1>18
  <2> QED BY <1>19, <2>1, <2>2, <2>3 DEF Swept
<1> QED BY <1>3, <1>18, <1>23, <1>26, <1>27, <1>28, <1>29, <1>30 DEF NoneEntered, IdsAt

LEMMA PickedIn ==
  ASSUME NEW items \in Seq(Item), NEW mode, NEW queueMode
  PROVE  Picked(items, mode, queueMode) \subseteq {i \in DOMAIN items : items[i].mode = mode}
<1> DEFINE of == {i \in DOMAIN items : items[i].mode = mode}
<1>1. of \subseteq Nat
  OBVIOUS
<1>2. Picked(items, mode, queueMode) = IF queueMode = "all" \/ of = {} THEN of ELSE {Min(of)}
  BY DEF Picked
<1> HIDE DEF of
<1>3. of # {} => Min(of) \in of
  BY <1>1, MinIn
<1>4. Picked(items, mode, queueMode) \subseteq of
  BY <1>2, <1>3
<1> QED BY <1>4 DEF of

\* Of each mode, U has every input of the inbox, the first one, or none.
Selected(items, U) ==
  /\ U \subseteq DOMAIN items
  /\ \A mode \in {"steer", "followUp"} : \A j, k \in DOMAIN items :
       items[j].mode = mode /\ items[k].mode = mode /\ j < k /\ k \in U => j \in U

LEMMA PickedFirst ==
  ASSUME NEW items \in Seq(Item), NEW mode, NEW queueMode, NEW j \in DOMAIN items, NEW k \in DOMAIN items,
         items[j].mode = mode, j < k, k \in Picked(items, mode, queueMode)
  PROVE  j \in Picked(items, mode, queueMode)
<1> DEFINE of == {i \in DOMAIN items : items[i].mode = mode}
<1>1. of \subseteq Nat /\ j \in of /\ j \in Nat /\ k \in Nat
  OBVIOUS
<1>2. Picked(items, mode, queueMode) = IF queueMode = "all" \/ of = {} THEN of ELSE {Min(of)}
  BY DEF Picked
<1> HIDE DEF of
<1>3. Min(of) <= j /\ Min(of) \in Nat
  BY <1>1, MinIn
<1> QED BY <1>1, <1>2, <1>3

LEMMA BoundaryKeeps ==
  ASSUME NEW s \in Conv, NEW h \in Seq(Nat), Accounted(s, h), NEW at, NEW b, b = ApplyBoundary(s, at)
  PROVE  /\ b.conv \in Conv /\ b.users \in Seq(Nat) /\ b.conv.run = s.run
         /\ Accounted(b.conv, h \o b.users) /\ Uncut(b.conv, b.users)
         /\ ~HasQueuedReset(s.inbox) /\ Uncut(s, h) => Uncut(b.conv, h \o b.users)
         /\ ToSet(b.users) \subseteq QueuedInputs(s)
         /\ NoneEntered(s, b.conv, ToSet(h))
         /\ b.reset = HasQueuedReset(s.inbox)
         /\ \E U : Selected(s.inbox, U) /\ Swept(s, b.conv, U)
<1> DEFINE items == s.inbox
           U == Picked(items, "steer", settings.steering) \cup
                    (IF at = "final" \/ HasQueuedReset(items)
                     THEN Picked(items, "followUp", settings.followUp) ELSE {})
           W == {i \in DOMAIN items : items[i].mode \in WriteKinds}
<1>1. items \in Seq(Item)
  BY EntriesAre
<1>2. U \subseteq DOMAIN items /\ \A i \in U : items[i].mode \notin WriteKinds
  <2>1. /\ Picked(items, "steer", settings.steering) \subseteq {i \in DOMAIN items : items[i].mode = "steer"}
        /\ Picked(items, "followUp", settings.followUp) \subseteq {i \in DOMAIN items : items[i].mode = "followUp"}
    BY <1>1, PickedIn
  <2> QED BY <2>1 DEF WriteKinds
<1>3. Placing(s, b.conv, b.users, W, U) /\ b.reset = HasQueuedReset(items)
  BY DEF ApplyBoundary, Placing
<1> HIDE DEF U
<1>4. IdsAt(items, U) \subseteq QueuedInputs(s)
  <2> SUFFICES ASSUME NEW k \in U PROVE items[k].id \in QueuedInputs(s)
    BY DEF IdsAt
  <2>1. items[k] \in ToSet(s.inbox) /\ items[k].mode \notin WriteKinds
    BY <1>2 DEF ToSet
  <2> QED BY <2>1 DEF QueuedInputs
<1>5. PICK V : V = W
  OBVIOUS
<1>6. /\ b.conv \in Conv /\ b.users \in Seq(Nat) /\ b.conv.run = s.run
      /\ Accounted(b.conv, h \o b.users) /\ Uncut(b.conv, b.users)
      /\ ~HasQueuedReset(s.inbox) /\ Uncut(s, h) => Uncut(b.conv, h \o b.users)
      /\ ToSet(b.users) \subseteq IdsAt(s.inbox, U)
      /\ NoneEntered(s, b.conv, ToSet(h)) /\ Swept(s, b.conv, U)
  <2>1. PICK X : X = U /\ Parted(s.inbox, V, X)
    BY <1>2, <1>5 DEF Parted
  <2> HIDE DEF W
  <2>2. PICK c, users : c = b.conv /\ users = b.users /\ Placing(s, c, users, V, X)
    BY <1>3, <1>5, <2>1
  <2>3. s \in Conv /\ h \in Seq(Nat) /\ Accounted(s, h)
    OBVIOUS
  <2>4. /\ c \in Conv /\ users \in Seq(Nat) /\ c.run = s.run /\ Accounted(c, h \o users)
    <3>1. c \in Conv
      BY ONLY <2>1, <2>2, <2>3, PlacingKeeps
    <3>2. users \in Seq(Nat)
      BY ONLY <2>1, <2>2, <2>3, PlacingKeeps
    <3>3. c.run = s.run
      BY <2>2, BoundaryFramed DEF Framed
    <3>4. Accounted(c, h \o users)
      BY ONLY <2>1, <2>2, <2>3, PlacingKeeps
    <3> QED BY <3>1, <3>2, <3>3, <3>4
  <2>5. Uncut(c, users) /\ (~HasQueuedReset(s.inbox) /\ Uncut(s, h) => Uncut(c, h \o users))
    BY ONLY <2>1, <2>2, <2>3, PlacingKeeps
  <2>6. NoneEntered(s, c, ToSet(h)) /\ Swept(s, c, X)
    BY ONLY <2>1, <2>2, <2>3, PlacingKeeps
  <2>7. ToSet(users) \subseteq IdsAt(s.inbox, X)
    BY ONLY <2>1, <2>2, <2>3, PlacingKeeps
  <2> QED BY <2>1, <2>2, <2>4, <2>5, <2>6, <2>7
<1>7. Selected(items, U)
  <2>1. PICK S, F : /\ S = Picked(items, "steer", settings.steering)
                    /\ F = Picked(items, "followUp", settings.followUp)
    OBVIOUS
  <2>2. U = S \cup (IF at = "final" \/ HasQueuedReset(items) THEN F ELSE {})
    BY <2>1 DEF U
  <2>3. \A k \in S : items[k].mode = "steer"
    BY <1>1, <2>1, PickedIn
  <2>4. \A k \in F : items[k].mode = "followUp"
    BY <1>1, <2>1, PickedIn
  <2>5. ASSUME NEW j \in DOMAIN items, NEW k \in DOMAIN items, j < k, k \in U,
               items[j].mode = items[k].mode
        PROVE  j \in U
    <3>1. CASE k \in S
      <4>1. j \in S
        BY <1>1, <2>1, <2>3, <2>5, <3>1, PickedFirst
      <4> QED BY <2>2, <4>1
    <3>2. CASE k \in F /\ U = S \cup F
      <4>1. j \in F
        BY <1>1, <2>1, <2>4, <2>5, <3>2, PickedFirst
      <4> QED BY <3>2, <4>1
    <3> QED BY <2>2, <2>5, <3>1, <3>2
  <2> QED BY <1>2, <2>5 DEF Selected
<1> QED BY <1>3, <1>4, <1>6, <1>7

-----------------------------------------------------------------------------
(* The end of a run                                                         *)

\* What the run held is settled, u is left.
LEMMA DropKeeps ==
  ASSUME NEW s \in Conv, NEW e \in Conv, NEW h \in Seq(Nat), NEW u \in Seq(Nat),
         Accounted(s, h \o u), NEW status \in {"done", "unanswered"}, Changed(s, e, ToSet(h), {status}),
         e.inbox = s.inbox, e.entries = s.entries
  PROVE  Accounted(e, u)
<1>n. PICK n \in Nat : n = Len(h) /\ DOMAIN h = 1..n
  OBVIOUS
<1>m. PICK m \in Nat : m = Len(u) /\ DOMAIN u = 1..m
  OBVIOUS
<1>r. PICK r : r = h \o u
  OBVIOUS
<1>1. DOMAIN r = 1..(n + m)
  BY <1>n, <1>m, <1>r
<1>2. /\ \A k \in 1..n : r[k] = h[k]
      /\ \A k \in 1..m : r[n + k] = u[k]
  BY <1>n, <1>m, <1>r
<1>3. SubsSound(s) /\ QueueSound(s) /\ Holds(s, r)
  BY <1>r DEF Accounted
<1>4. /\ \A i : i \in ToSet(h) <=> \E k \in 1..n : h[k] = i
      /\ \A i : i \in ToSet(u) <=> \E k \in 1..m : u[k] = i
      /\ \A i : i \in ToSet(r) <=> \E k \in 1..(n + m) : r[k] = i
  BY <1>n, <1>m, <1>1 DEF ToSet
<1>5. /\ \A i \in ToSet(r) : i \in DOMAIN s.subs /\ s.subs[i].status = "placed"
      /\ \A i \in DOMAIN s.subs : s.subs[i].status = "placed" => i \in ToSet(r)
      /\ \A j, k \in 1..(n + m) : r[j] = r[k] => j = k
  BY <1>1, <1>3 DEF Holds
<1>6. \A i \in ToSet(h) : i \in ToSet(r)
  <2> SUFFICES ASSUME NEW i \in ToSet(h) PROVE i \in ToSet(r)
    OBVIOUS
  <2>1. PICK k \in 1..n : h[k] = i
    BY <1>4
  <2>2. k \in 1..(n + m) /\ r[k] = i
    BY <1>2, <2>1
  <2> QED BY <1>4, <2>2
<1>7. \A i \in ToSet(u) : i \in ToSet(r) /\ i \notin ToSet(h)
  <2> SUFFICES ASSUME NEW i \in ToSet(u) PROVE i \in ToSet(r) /\ i \notin ToSet(h)
    OBVIOUS
  <2>1. PICK k \in 1..m : u[k] = i
    BY <1>4
  <2>2. n + k \in 1..(n + m) /\ r[n + k] = i
    BY <1>2, <2>1
  <2>3. ASSUME NEW j \in 1..n, h[j] = i PROVE FALSE
    <3>1. j \in 1..(n + m) /\ r[j] = i
      BY <1>2, <2>3
    <3>2. j = n + k
      BY <1>5, <2>2, <3>1
    <3> QED BY <3>2
  <2> QED BY <1>4, <2>2, <2>3
<1>8. \A i \in ToSet(r) : i \in ToSet(h) \/ i \in ToSet(u)
  <2> SUFFICES ASSUME NEW i \in ToSet(r), i \notin ToSet(h) PROVE i \in ToSet(u)
    OBVIOUS
  <2>1. PICK x \in 1..(n + m) : r[x] = i
    BY <1>4
  <2>2. x \notin 1..n
    BY <1>2, <1>4, <2>1
  <2>3. PICK k \in 1..m : k = x - n /\ x = n + k
    BY <2>2
  <2>4. r[n + k] = i /\ u[k] = r[n + k]
    BY <1>2, <2>1, <2>3
  <2> QED BY <1>4, <2>4
<1>9. /\ DOMAIN e.subs = DOMAIN s.subs
      /\ \A i \in DOMAIN s.subs : /\ e.subs[i].kind = s.subs[i].kind
                                  /\ i \in ToSet(h) => e.subs[i].status = status
                                  /\ i \notin ToSet(h) => e.subs[i].status = s.subs[i].status
  BY DEF Changed
<1>10. SubsSound(e)
  <2>1. PICK statuses : statuses = {status} /\ Changed(s, e, ToSet(h), statuses)
    OBVIOUS
  <2>2. statuses \subseteq {"done", "unanswered"}
    BY <2>1
  <2>3. Adds(s.entries, e.entries, {"user"})
    BY AddsSame
  <2>4. \A i \in ToSet(h) : s.subs[i].status = "placed"
    BY <1>5, <1>6
  <2> QED BY <1>3, <2>1, <2>2, <2>3, <2>4, SubsEnd
<1>11. QueueSound(e)
  <2>1. \A i \in DOMAIN s.subs : e.subs[i].status = "queued" <=> s.subs[i].status = "queued"
    BY <1>5, <1>6, <1>9
  <2> QED BY <1>3, <1>9, <2>1 DEF QueueSound
<1>12. Holds(e, u)
  <2>1. \A i \in DOMAIN s.subs : e.subs[i].status = "placed" <=> i \in ToSet(u)
    BY <1>5, <1>6, <1>7, <1>8, <1>9
  <2>2. ToSet(u) = {i \in DOMAIN e.subs : e.subs[i].status = "placed"}
    BY <1>5, <1>7, <1>9, <2>1
  <2>3. ASSUME NEW j \in 1..m, NEW k \in 1..m, u[j] = u[k] PROVE j = k
    <3>1. n + j \in 1..(n + m) /\ n + k \in 1..(n + m) /\ r[n + j] = r[n + k]
      BY <1>2, <2>3
    <3>2. n + j = n + k
      BY <1>5, <3>1
    <3> QED BY <3>2
  <2> QED BY <1>m, <2>2, <2>3 DEF Holds
<1> QED BY <1>10, <1>11, <1>12 DEF Accounted

\* Sound: the inputs are those of the run.
Sound(s) == Accounted(s, s.run.inputs) /\ Uncut(s, s.run.inputs)

\* The run is over, or a new one has begun.
Fresh(s) == s \in Conv /\ Sound(s) /\ ~s.run.answered

LEMMA AccountedSame ==
  ASSUME NEW s, NEW r, r.subs = s.subs, r.inbox = s.inbox, r.entries = s.entries, NEW h
  PROVE  /\ Accounted(s, h) => Accounted(r, h)
         /\ Uncut(s, h) => Uncut(r, h)
<1>1. SubsSound(s) => SubsSound(r)
  BY DEF SubsSound
<1>2. QueueSound(s) => QueueSound(r)
  BY DEF QueueSound
<1>3. Holds(s, h) => Holds(r, h)
  BY DEF Holds
<1>4. Uncut(s, h) => Uncut(r, h)
  BY DEF Uncut
<1> QED BY <1>1, <1>2, <1>3, <1>4 DEF Accounted

LEMMA NothingUncut == ASSUME NEW s PROVE Uncut(s, <<>>)
  BY DEF Uncut

LEMMA ConcatNothing ==
  ASSUME NEW h \in Seq(Nat)
  PROVE  h \o <<>> = h /\ <<>> \o h = h /\ <<>> \in Seq(Nat)
  OBVIOUS

LEMMA EndRunKeeps ==
  ASSUME NEW s \in Conv, NEW g, s.run.task = g, NEW u \in Seq(Nat), Accounted(s, s.run.inputs \o u),
         s.run.answered => s.run.inputs = <<>>, NEW status \in {"done", "unanswered"},
         NEW e, e = EndRun(s, g, status)
  PROVE  e \in Conv /\ e.run = NoRun /\ e.entries = s.entries /\ Accounted(e, u)
<1> DEFINE inputs == s.run.inputs
           c == Settle(s, ToSet(inputs), status)
<1>1. e \in Conv /\ e.run = NoRun /\ e.inbox = s.inbox /\ e.entries = s.entries
  BY EndRunEnds DEF RunOver
<1>2. c \in Conv /\ Changed(s, c, ToSet(inputs), {status}) /\ inputs \in Seq(Nat)
  BY SettleChanges, EntriesAre DEF SubStatus
<1>3. \/ e = [[c EXCEPT !.run = NoRun] EXCEPT !.partial = "none", !.slots = <<>>]
      \/ e = [[c EXCEPT !.run = NoRun, !.failure = inputs] EXCEPT !.partial = "none", !.slots = <<>>]
      \/ s.run.answered /\ e = [[s EXCEPT !.run = NoRun] EXCEPT !.partial = "none", !.slots = <<>>]
  BY DEF EndRun
<1> HIDE DEF c
<1>4. e.subs = c.subs \/ (s.run.answered /\ e.subs = s.subs)
  BY <1>2, <1>3 DEF Conv
<1>5. Changed(s, e, ToSet(inputs), {status})
  <2>1. CASE e.subs = c.subs
    BY <1>2, <2>1 DEF Changed
  <2>2. CASE s.run.answered /\ e.subs = s.subs
    <3>1. ToSet(inputs) = {}
      BY <2>2 DEF ToSet
    <3> QED BY <2>2, <3>1 DEF Changed
  <2> QED BY <1>4, <2>1, <2>2
<1>6. Accounted(e, u)
  BY <1>1, <1>2, <1>5, DropKeeps
<1> QED BY <1>1, <1>6

LEMMA WithdrawKeeps ==
  ASSUME NEW s \in Conv, NEW h, Accounted(s, h), NEW ids,
         \A i \in ids : i \in DOMAIN s.subs => s.subs[i].status = "queued", NEW r, r = Withdraw(s, ids)
  PROVE  r \in Conv /\ r.run = s.run /\ r.entries = s.entries /\ Accounted(r, h)
<1> DEFINE c == Settle(s, ids, "unanswered")
           S == {k \in DOMAIN c.inbox : c.inbox[k].id \notin ids}
<1>1. /\ Changed(s, c, ids, {"unanswered"}) /\ c \in Conv /\ c.entries = s.entries /\ c.inbox = s.inbox
      /\ c.run = s.run
  BY SettleChanges DEF SubStatus
<1>2. r = [c EXCEPT !.inbox = At(c.inbox, S)] /\ r \in Conv
  BY WithdrawFramed DEF Withdraw, Framed
<1>3. PICK T : T = S
  OBVIOUS
<1>4. \A k \in DOMAIN s.inbox : k \in T <=> s.inbox[k].id \notin ids
  BY <1>1, <1>3
<1>5. r.inbox = At(s.inbox, T) /\ r.subs = c.subs /\ r.entries = s.entries /\ r.run = s.run
  BY <1>1, <1>2, <1>3 DEF Conv
<1> HIDE DEF c, S
<1>6. Takes(r.inbox, s.inbox, T)
  <2>1. s.inbox \in Seq(Item)
    BY EntriesAre
  <2> QED BY <1>5, <2>1, AtIs
<1>7. /\ DOMAIN r.subs = DOMAIN s.subs
      /\ \A i \in DOMAIN s.subs : /\ r.subs[i].kind = s.subs[i].kind
                                  /\ i \in ids => r.subs[i].status = "unanswered"
                                  /\ i \notin ids => r.subs[i].status = s.subs[i].status
  BY <1>1, <1>5 DEF Changed
<1>s. SubsSound(s) /\ QueueSound(s) /\ Holds(s, h)
  BY DEF Accounted
<1>8. SubsSound(r)
  <2>1. PICK statuses : statuses = {"unanswered"} /\ Changed(s, c, ids, statuses)
    BY <1>1
  <2>2. Changed(s, r, ids, statuses)
    BY <1>5, <2>1 DEF Changed
  <2>3. statuses \subseteq {"done", "unanswered"} /\ "done" \notin statuses
    BY <2>1
  <2>4. Adds(s.entries, r.entries, {"user"})
    BY <1>5, AddsSame
  <2> QED BY <1>2, <1>s, <2>2, <2>3, <2>4, SubsEnd
<1>9. QueueSound(r)
  <2>1. /\ \A k \in DOMAIN r.inbox : \E j \in DOMAIN s.inbox : j \in T /\ r.inbox[k] = s.inbox[j]
        /\ \A j \in DOMAIN s.inbox : j \in T => \E k \in DOMAIN r.inbox : r.inbox[k] = s.inbox[j]
        /\ \A x, y \in DOMAIN r.inbox : x < y =>
             \E i, j \in DOMAIN s.inbox : i < j /\ r.inbox[x] = s.inbox[i] /\ r.inbox[y] = s.inbox[j]
    BY <1>6 DEF Takes
  <2>2. /\ \A k \in DOMAIN s.inbox : LET it == s.inbox[k] IN
             /\ it.id \in DOMAIN s.subs /\ s.subs[it.id].status = "queued"
             /\ it.mode \in WriteKinds <=> s.subs[it.id].kind \in WriteKinds
        /\ \A j, k \in DOMAIN s.inbox : j < k => s.inbox[j].id < s.inbox[k].id
        /\ \A i \in DOMAIN s.subs : s.subs[i].status = "queued" => \E k \in DOMAIN s.inbox : s.inbox[k].id = i
    BY <1>s DEF QueueSound
  <2>3. ASSUME NEW k \in DOMAIN r.inbox
        PROVE  LET it == r.inbox[k] IN
               /\ it.id \in DOMAIN r.subs /\ r.subs[it.id].status = "queued"
               /\ it.mode \in WriteKinds <=> r.subs[it.id].kind \in WriteKinds
    <3>1. PICK j \in DOMAIN s.inbox : j \in T /\ r.inbox[k] = s.inbox[j]
      BY <2>1
    <3>2. s.inbox[j].id \notin ids
      BY <1>4, <3>1
    <3> QED BY <1>7, <2>2, <3>1, <3>2
  <2>4. \A j, k \in DOMAIN r.inbox : j < k => r.inbox[j].id < r.inbox[k].id
    BY <2>1, <2>2
  <2>5. ASSUME NEW i \in DOMAIN r.subs, r.subs[i].status = "queued" PROVE \E k \in DOMAIN r.inbox : r.inbox[k].id = i
    <3>1. i \in DOMAIN s.subs /\ i \notin ids /\ s.subs[i].status = "queued"
      BY <1>7, <2>5
    <3>2. PICK j \in DOMAIN s.inbox : s.inbox[j].id = i
      BY <2>2, <3>1
    <3>3. j \in T
      BY <1>4, <3>1, <3>2
    <3> QED BY <2>1, <3>2, <3>3
  <2> QED BY <2>3, <2>4, <2>5 DEF QueueSound
<1>10. Holds(r, h)
  <2>1. \A i \in DOMAIN s.subs : r.subs[i].status = "placed" <=> s.subs[i].status = "placed"
    BY <1>7
  <2> QED BY <1>s, <1>7, <2>1 DEF Holds
<1> QED BY <1>2, <1>5, <1>8, <1>9, <1>10 DEF Accounted

LEMMA StartNextKeeps ==
  ASSUME NEW b, b.conv \in Conv, b.users \in Seq(Nat), b.conv.run = NoRun, Accounted(b.conv, b.users),
         Uncut(b.conv, b.users), NEW keep \in BOOLEAN, NEW r, r = StartNext(b, keep)
  PROVE  Fresh(r)
<1>n. NoRun.inputs = <<>> /\ ~NoRun.answered
  BY DEF NoRun
<1>1. CASE b.users = <<>>
  BY <1>1, <1>n DEF StartNext, Fresh, Sound
<1>2. CASE b.users # <<>>
  <2>1. r = StartRun(b.conv, b.users, keep)
    BY <1>2 DEF StartNext
  <2>2. r \in Conv /\ r.entries = b.conv.entries /\ r.inbox = b.conv.inbox /\ r.subs = b.conv.subs
    BY <2>1, StartRunIs
  <2>3. r.run = [NoRun EXCEPT !.task = Len(b.conv.gens) + 1, !.inputs = b.users]
    <3>0. PICK c \in Conv, us \in Seq(Nat), k \in BOOLEAN : c = b.conv /\ us = b.users /\ k = keep
      OBVIOUS
    <3> DEFINE t == StartRun(c, us, k)
    <3>1. /\ Created(c, t) /\ t.run = [NoRun EXCEPT !.task = Len(c.gens) + 1, !.inputs = us]
          /\ t.slots = c.slots /\ t.partial = c.partial
      <4>1. c \in Conv /\ us \in Seq(Nat) /\ k \in BOOLEAN
        BY <3>0
      <4> QED BY ONLY <4>1, StartRunCreates
    <3> QED BY <2>1, <3>0, <3>1
  <2>4. r.run.inputs = b.users /\ ~r.run.answered
    BY <2>3 DEF NoRun
  <2>5. Accounted(r, b.users) /\ Uncut(r, b.users)
    BY <2>2, AccountedSame
  <2> QED BY <2>2, <2>4, <2>5 DEF Fresh, Sound
<1> QED BY <1>1, <1>2

LEMMA EndKeeps ==
  ASSUME NEW s, Fresh(s), NEW g, NEW cause \in Causes, NEW r, r = End(s, g, cause)
  PROVE  Fresh(r)
<1>1. s \in Conv /\ r \in Conv /\ r.subs = s.subs
  BY EndForward DEF Fresh, Forward
<1>2. r.entries = s.entries /\ r.inbox = s.inbox /\ r.run = s.run
  BY <1>1 DEF End, Conv
<1>3. Accounted(r, r.run.inputs) /\ Uncut(r, r.run.inputs)
  BY <1>1, <1>2, AccountedSame DEF Fresh, Sound
<1> QED BY <1>1, <1>2, <1>3 DEF Fresh, Sound

-----------------------------------------------------------------------------
(* The steps a generation takes with its run                                *)

\* From s to r nothing changes for the inputs.
Quietly(s, r) ==
  /\ r \in Conv /\ r.subs = s.subs /\ r.inbox = s.inbox /\ r.run.inputs = s.run.inputs
  /\ Adds(s.entries, r.entries, {"user", "reset"})

\* Generation g has the run of s, in the midst of it or held.
Owning(s, g) ==
  s \in Conv /\ Sound(s) /\ s.run.task = g /\ (s.run.answered => s.run.inputs = <<>>)

LEMMA AddedQuietly ==
  ASSUME NEW s \in Conv, NEW r \in Conv, Adds(s.entries, r.entries, {"user", "reset"})
  PROVE  Adds(s.entries, r.entries, {"user"})
<1>1. PICK both, users : both = {"user", "reset"} /\ users = {"user"} /\ Adds(s.entries, r.entries, both)
  OBVIOUS
<1>2. Adds(s.entries, r.entries, users)
  BY <1>1, AddsFewer
<1> QED BY <1>1, <1>2

LEMMA QuietKeeps ==
  ASSUME NEW s \in Conv, NEW r, Quietly(s, r), NEW h, Accounted(s, h)
  PROVE  Accounted(r, h) /\ (Uncut(s, h) => Uncut(r, h))
<1>1. /\ r \in Conv /\ r.subs = s.subs /\ r.inbox = s.inbox
      /\ \E both : both = {"user", "reset"} /\ Adds(s.entries, r.entries, both)
  BY DEF Quietly
<1>2. SubsSound(r)
  BY <1>1, AddedQuietly, SubsQuiet DEF Accounted
<1>3. QueueSound(r) /\ Holds(r, h)
  BY <1>1 DEF Accounted, QueueSound, Holds
<1>4. PICK both : both = {"user", "reset"} /\ Adds(s.entries, r.entries, both)
  BY <1>1
<1>5. \A p \in DOMAIN r.entries : r.entries[p].kind \in both => p \in DOMAIN s.entries /\ r.entries[p] = s.entries[p]
  BY <1>1, <1>4, AddsAre
<1>6. Uncut(s, h) => Uncut(r, h)
  BY <1>4, <1>5 DEF Uncut
<1> QED BY <1>2, <1>3, <1>6 DEF Accounted

LEMMA QuietSound ==
  ASSUME NEW s \in Conv, NEW r, Quietly(s, r), Sound(s)
  PROVE  Sound(r)
  BY QuietKeeps DEF Sound, Quietly

LEMMA EndRunFresh ==
  ASSUME NEW s, NEW g, Owning(s, g), NEW status \in {"done", "unanswered"}
  PROVE  Fresh(EndRun(s, g, status)) /\ EndRun(s, g, status).run = NoRun
<1>1. s \in Conv /\ s.run.task = g /\ s.run.inputs \in Seq(Nat) /\ Accounted(s, s.run.inputs)
      /\ (s.run.answered => s.run.inputs = <<>>)
  BY EntriesAre DEF Owning, Sound
<1>2. PICK z \in Seq(Nat) : z = <<>> /\ Accounted(s, s.run.inputs \o z)
  BY <1>1, ConcatNothing
<1>3. PICK e : e = EndRun(s, g, status)
  OBVIOUS
<1>4. e \in Conv /\ e.run = NoRun /\ e.entries = s.entries /\ Accounted(e, z)
  <2>1. z \in Seq(Nat) /\ Accounted(s, s.run.inputs \o z)
    BY <1>2
  <2> QED BY ONLY <1>1, <1>3, <2>1, status \in {"done", "unanswered"}, EndRunKeeps
<1> QED BY <1>2, <1>3, <1>4, NothingUncut DEF Fresh, Sound, NoRun

LEMMA EndFailedFresh ==
  ASSUME NEW s, NEW g, Owning(s, g), settings \in Setting
  PROVE  Fresh(EndFailedRun(s, g))
<1> DEFINE e == EndRun(s, g, "unanswered")
           b == ApplyBoundary(e, "final")
<1>1. Fresh(e) /\ e.run = NoRun
  BY EndRunFresh
<1>2. settings.policy \in {"keep", "continue", "withdraw"}
  BY DEF Setting
<1>3. EndFailedRun(s, g) = CASE settings.policy = "keep" -> e
                             [] settings.policy = "withdraw" -> WithdrawQueuedInputs(e)
                             [] settings.policy = "continue" -> StartNext(b, TRUE)
  BY DEF EndFailedRun
<1> HIDE DEF e
<1>4. e \in Conv /\ Accounted(e, <<>>) /\ e.run.inputs = <<>> /\ ~e.run.answered
  BY <1>1 DEF Fresh, Sound, NoRun
<1>5. Fresh(StartNext(b, TRUE))
  <2>1. /\ b.conv \in Conv /\ b.users \in Seq(Nat) /\ b.conv.run = e.run
        /\ Accounted(b.conv, <<>> \o b.users) /\ Uncut(b.conv, b.users)
    <3>1. PICK h \in Seq(Nat) : h = <<>>
      <4>1. <<>> \in Seq(Nat)
        OBVIOUS
      <4> QED BY ONLY <4>1
    <3>2. e \in Conv /\ Accounted(e, h)
      BY <1>4, <3>1
    <3>3. PICK c : c = ApplyBoundary(e, "final")
      OBVIOUS
    <3>4. /\ c.conv \in Conv /\ c.users \in Seq(Nat) /\ c.conv.run = e.run
          /\ Accounted(c.conv, h \o c.users) /\ Uncut(c.conv, c.users)
      BY ONLY <3>2, <3>3, BoundaryKeeps
    <3> QED BY <3>1, <3>3, <3>4
  <2> HIDE DEF b
  <2>2. Accounted(b.conv, b.users)
    BY <2>1, ConcatNothing
  <2> QED BY <1>1, <2>1, <2>2, StartNextKeeps
<1>6. Fresh(WithdrawQueuedInputs(e))
  <2>1. \A i \in QueuedInputs(e) : i \in DOMAIN e.subs => e.subs[i].status = "queued"
    BY <1>4 DEF QueuedInputs, Accounted, QueueSound, ToSet
  <2>2. PICK r : r = Withdraw(e, QueuedInputs(e))
    OBVIOUS
  <2>3. r \in Conv /\ r.run = e.run /\ Accounted(r, <<>>)
    BY <1>4, <2>1, <2>2, WithdrawKeeps
  <2>4. Fresh(r)
    BY <1>4, <2>3, NothingUncut DEF Fresh, Sound
  <2> QED BY <2>2, <2>4 DEF WithdrawQueuedInputs
<1> QED BY <1>1, <1>2, <1>3, <1>5, <1>6

\* The boundary, the end of the run, and the next one.
LEMMA TurnFresh ==
  ASSUME NEW s, NEW g, Owning(s, g), NEW at, NEW status \in {"done", "unanswered"}, NEW keep \in BOOLEAN
  PROVE  Fresh(StartNext([ApplyBoundary(s, at) EXCEPT
                            !.conv = EndRun(ApplyBoundary(s, at).conv, g, status)], keep))
<1> DEFINE b == ApplyBoundary(s, at)
           e == EndRun(b.conv, g, status)
           c == [b EXCEPT !.conv = e]
<1>1. s \in Conv /\ s.run.task = g /\ s.run.inputs \in Seq(Nat) /\ Accounted(s, s.run.inputs)
      /\ (s.run.answered => s.run.inputs = <<>>)
  BY EntriesAre DEF Owning, Sound
<1>2. /\ b.conv \in Conv /\ b.users \in Seq(Nat) /\ b.conv.run = s.run
      /\ Accounted(b.conv, s.run.inputs \o b.users) /\ Uncut(b.conv, b.users)
  BY <1>1, BoundaryKeeps
<1>3. c.conv = e /\ c.users = b.users
  BY BoundaryRecord
<1> HIDE DEF b
<1>4. e \in Conv /\ e.run = NoRun /\ e.entries = b.conv.entries /\ Accounted(e, b.users)
  BY <1>1, <1>2, EndRunKeeps
<1>5. Uncut(e, b.users)
  BY <1>2, <1>4 DEF Uncut
<1> HIDE DEF e, c
<1>6. Fresh(StartNext(c, keep))
  BY <1>2, <1>3, <1>4, <1>5, StartNextKeeps
<1> QED BY <1>6 DEF b, c, e

LEMMA EndAnsweredFresh ==
  ASSUME NEW s, NEW g, Owning(s, g)
  PROVE  Fresh(EndAnswered(s, g))
<1> DEFINE n == StartNext([ApplyBoundary(s, "final") EXCEPT
                             !.conv = EndRun(ApplyBoundary(s, "final").conv, g, "done")], FALSE)
<1>1. Fresh(n)
  BY TurnFresh
<1>2. EndAnswered(s, g) = End(n, g, "")
  BY DEF EndAnswered
<1> HIDE DEF n
<1> QED BY <1>1, <1>2, EndKeeps DEF Causes

LEMMA AfterToolsFresh ==
  ASSUME NEW s, NEW g, Owning(s, g), ~s.run.answered
  PROVE  Fresh(AfterTools(s, g))
<1> DEFINE b == ApplyBoundary(s, "postTools")
           cut == [b EXCEPT !.conv = EndRun(b.conv, g, "unanswered")]
           r == HandOver(CreateGeneration(Joined(b, g)), g)
<1>1. AfterTools(s, g) = IF b.reset THEN StartNext(cut, TRUE) ELSE r
  BY DEF AfterTools, Joined
<1>2. Fresh(StartNext(cut, TRUE))
  BY TurnFresh
<1>3. s \in Conv /\ s.run.task = g /\ s.run.inputs \in Seq(Nat) /\ Sound(s) /\ Accounted(s, s.run.inputs)
  BY EntriesAre DEF Owning, Sound
<1>4. /\ b.conv \in Conv /\ b.users \in Seq(Nat) /\ b.conv.run = s.run
      /\ Accounted(b.conv, s.run.inputs \o b.users)
      /\ ~b.reset => Uncut(b.conv, s.run.inputs \o b.users)
  BY <1>3, BoundaryKeeps DEF Sound
<1> HIDE DEF b
<1>5. PICK j : j = Joined(b, g)
  OBVIOUS
<1>6. /\ j \in Conv /\ j.entries = b.conv.entries /\ j.inbox = b.conv.inbox /\ j.subs = b.conv.subs
      /\ j.run.task = g /\ j.run.inputs = s.run.inputs \o b.users /\ ~j.run.answered
  <2>1. b.conv \in Conv /\ b.users \in Seq(Nat) /\ b.conv.run.task = g
        /\ b.conv.run.inputs = s.run.inputs /\ ~b.conv.run.answered
    BY <1>3, <1>4
  <2>2. /\ j \in Conv /\ j.entries = b.conv.entries /\ j.inbox = b.conv.inbox /\ j.subs = b.conv.subs
        /\ j.run.task = b.conv.run.task /\ j.run.answered = b.conv.run.answered
        /\ j.run.inputs = b.conv.run.inputs \o b.users
    <3>1. PICK x : x = b
      OBVIOUS
    <3>2. x.conv \in Conv /\ x.users \in Seq(Nat) /\ x.conv.run.task = g
      BY <2>1, <3>1
    <3>3. PICK r1 : /\ r1 = Joined(x, g) /\ r1 \in Conv /\ r1.entries = x.conv.entries
                    /\ r1.inbox = x.conv.inbox /\ r1.subs = x.conv.subs /\ r1.run.task = g
                    /\ r1.run.inputs = x.conv.run.inputs \o x.users
                    /\ r1.run.answered = x.conv.run.answered
      BY ONLY ZenonT(30), <3>2, JoinedIs
    <3>4. r1 = j
      BY <1>5, <3>1, <3>3
    <3> QED BY <2>1, <3>1, <3>3, <3>4
  <2> QED BY <2>1, <2>2
<1>7. /\ r \in Conv /\ r.entries = j.entries /\ r.inbox = j.inbox /\ r.subs = j.subs
      /\ r.run.inputs = j.run.inputs /\ r.run.answered = j.run.answered
  BY <1>5, <1>6, HandOverIs
<1> HIDE DEF r
<1>8. ASSUME ~b.reset PROVE Fresh(r)
  <2>1. Accounted(j, j.run.inputs) /\ Uncut(j, j.run.inputs)
    BY <1>4, <1>6, <1>8, AccountedSame
  <2>2. Accounted(r, r.run.inputs) /\ Uncut(r, r.run.inputs)
    BY <1>7, <2>1, AccountedSame
  <2> QED BY <1>6, <1>7, <2>2 DEF Fresh, Sound
<1> QED BY <1>1, <1>2, <1>8


-----------------------------------------------------------------------------
(* The stages of a step that ends or goes on with a run                     *)

LEMMA AppendQuiet ==
  ASSUME NEW s \in Conv, NEW e \in EntryType, e.kind \notin {"user", "reset"}, NEW r, r = AppendEntry(s, e)
  PROVE  Quietly(s, r) /\ r.run = s.run
<1>1. /\ r \in Conv /\ r.entries = Append(s.entries, e) /\ r.inbox = s.inbox /\ r.subs = s.subs
      /\ r.run = s.run
  BY AppendIs
<1>2. PICK both : both = {"user", "reset"}
  OBVIOUS
<1>3. Adds(s.entries, r.entries, both)
  BY <1>1, <1>2, AddsOne
<1> QED BY <1>1, <1>2, <1>3 DEF Quietly

LEMMA SameQuiet ==
  ASSUME NEW s \in Conv, NEW r \in Conv, r.subs = s.subs, r.inbox = s.inbox,
         r.run.inputs = s.run.inputs, r.entries = s.entries
  PROVE  Quietly(s, r)
<1>1. PICK both : both = {"user", "reset"}
  OBVIOUS
<1>2. Adds(s.entries, r.entries, both)
  BY AddsSame
<1> QED BY <1>1, <1>2 DEF Quietly

LEMMA QuietTrans ==
  ASSUME NEW s \in Conv, NEW r, NEW t, Quietly(s, r), Quietly(r, t)
  PROVE  Quietly(s, t)
<1>1. PICK both : both = {"user", "reset"} /\ Adds(s.entries, r.entries, both) /\ Adds(r.entries, t.entries, both)
  BY DEF Quietly
<1>2. Adds(s.entries, t.entries, both)
  BY <1>1, AddsTrans DEF Quietly
<1> QED BY <1>1, <1>2 DEF Quietly

LEMMA SayQuiet ==
  ASSUME NEW s \in Conv, NEW g \in DOMAIN s.gens, NEW kind \in SaidKinds
  PROVE  Quietly(s, Say(s, g, kind))
<1>1. PICK e : e = Entry(kind, g, s.gens[g].sent)
  OBVIOUS
<1>2. e \in EntryType /\ e.kind = kind
  <2>1. s.gens[g] \in Gen /\ g \in Nat
    BY DEF Conv
  <2>2. s.gens[g].sent \in Nat
    BY <2>1 DEF Gen
  <2> QED BY <1>1, <2>1, <2>2, EntryTyped
<1>3. e.kind \notin {"user", "reset"}
  BY <1>2 DEF SaidKinds
<1> QED BY <1>1, <1>2, <1>3, AppendQuiet DEF Say

LEMMA ConvertQuiet ==
  ASSUME NEW s \in Conv, NEW g \in DOMAIN s.gens
  PROVE  Quietly(s, ConvertPartial(s, g))
<1>1. CASE s.partial = "none"
  BY <1>1, SameQuiet DEF ConvertPartial
<1>2. CASE s.partial # "none"
  BY <1>2, SayQuiet DEF ConvertPartial, SaidKinds
<1> QED BY <1>1, <1>2

LEMMA UnstartedQuiet ==
  ASSUME NEW s \in Conv, NEW g, Unstarted(s, g) \in Conv
  PROVE  Quietly(s, Unstarted(s, g))
<1>1. /\ Unstarted(s, g).entries = s.entries /\ Unstarted(s, g).inbox = s.inbox
      /\ Unstarted(s, g).run = s.run /\ Unstarted(s, g).subs = s.subs
  BY DEF Unstarted, Conv
<1> QED BY <1>1, SameQuiet

LEMMA ResultsQuiet ==
  ASSUME NEW s \in Conv, NEW calls \in Seq(Nat), calls # <<>> => Assistant(s) \in Nat
  PROVE  Quietly(s, Results(s, calls))
<1>1. PICK r : r = Results(s, calls)
  OBVIOUS
<1>2. /\ r \in Conv /\ r.inbox = s.inbox /\ r.run = s.run /\ r.subs = s.subs
      /\ Starts(s.entries, r.entries) /\ Len(r.entries) = Len(s.entries) + Len(calls)
      /\ \A k \in 1..Len(calls) : r.entries[Len(s.entries) + k] = Entry("result", calls[k], Assistant(s))
  BY <1>1, ResultsAre
<1>3. PICK both : both = {"user", "reset"}
  OBVIOUS
<1>4. ASSUME NEW i \in (Len(s.entries) + 1)..Len(r.entries) PROVE r.entries[i].kind \notin both
  <2>1. Len(s.entries) \in Nat /\ Len(calls) \in Nat
    BY EntriesAre
  <2>2. i - Len(s.entries) \in 1..Len(calls) /\ Len(s.entries) + (i - Len(s.entries)) = i
    BY <1>2, <2>1
  <2>3. r.entries[i] = Entry("result", calls[i - Len(s.entries)], Assistant(s))
    BY <1>2, <2>2
  <2> QED BY <1>3, <2>3 DEF Entry
<1>5. Adds(s.entries, r.entries, both)
  BY <1>2, <1>4 DEF Adds
<1> QED BY <1>1, <1>2, <1>3, <1>5 DEF Quietly

\* Ready(), and the inputs are as they were.
Staged(s, g) == Ready(s, g) /\ Quietly(conv, s)

LEMMA StagedSelf == ASSUME ConvInv, NEW g \in Gens PROVE Staged(conv, g)
  BY ReadySelf, InvFacts, SameQuiet DEF Staged

LEMMA StagedConvert ==
  ASSUME ConvInv, NEW g \in Gens, conv.gens[g].phase # "ended"
  PROVE  Staged(ConvertPartial(conv, g), g)
  BY ReadyConvert, InvFacts, ConvertQuiet DEF Staged, Gens

LEMMA StagedSay ==
  ASSUME ConvInv, NEW g \in Gens, NEW kind \in SaidKinds, ~SaidBy(conv.entries, g, conv.gens[g].sent)
  PROVE  Staged(Say(conv, g, kind), g)
  BY ReadySay, InvFacts, SayQuiet DEF Staged, Gens

LEMMA StagedUnstarted ==
  ASSUME ConvInv, NEW g \in Gens, NEW s, Staged(s, g)
  PROVE  Staged(Unstarted(s, g), g)
<1>1. PICK r : r = Unstarted(s, g)
  OBVIOUS
<1>2. Ready(r, g) /\ s \in Conv /\ conv \in Conv
  BY <1>1, ReadyUnstarted, InvFacts DEF Staged, Ready
<1>3. r \in Conv
  BY <1>2 DEF Ready
<1>4. Quietly(s, r)
  BY <1>1, <1>2, <1>3, UnstartedQuiet
<1>5. Quietly(conv, r)
  BY <1>2, <1>4, QuietTrans DEF Staged
<1> QED BY <1>1, <1>2, <1>5 DEF Staged

LEMMA StagedResults ==
  ASSUME ConvInv, NEW g \in Gens, NEW c, Staged(c, g), NEW unstarted,
         unstarted = IF conv.gens[g].phase = "tools" THEN InOrder(Pending(conv), Len(conv.slots)) ELSE <<>>
  PROVE  Staged(Results(c, unstarted), g)
<1>1. unstarted \in Seq(Nat)
  BY InvFacts, SlotNumbers, InOrderType
<1>2. unstarted # <<>> => conv.slots # <<>>
  <2> SUFFICES ASSUME conv.slots = <<>>, conv.gens[g].phase = "tools" PROVE unstarted = <<>>
    OBVIOUS
  <2>1. Len(conv.slots) = 0
    OBVIOUS
  <2>2. unstarted \in Seq(1..0)
    BY <2>1, InOrderType
  <2>3. \A k \in 1..Len(unstarted) : unstarted[k] \in 1..0
    BY <2>2
  <2>4. Len(unstarted) \in Nat /\ ~(1 <= Len(unstarted))
    BY <2>2, <2>3
  <2> QED BY <2>2, <2>4
<1>3. unstarted # <<>> => Assistant(c) \in Nat
  BY <1>2, ReadyAssistant DEF Staged
<1>4. c \in Conv /\ conv \in Conv
  BY InvFacts DEF Staged, Ready
<1>5. Lengthened(c, Results(c, unstarted)) /\ Quietly(c, Results(c, unstarted))
  BY <1>1, <1>3, <1>4, ResultsLengthened, ResultsQuiet
<1> QED BY <1>4, <1>5, ReadyLengthened, QuietTrans DEF Staged

LEMMA StagedHandedOff ==
  ASSUME ConvInv, NEW g \in Gens, conv.gens[g].phase # "ended",
         NEW s, s \in {conv, AppendEntry(conv, Entry("handoff", 0, 0))}
  PROVE  Staged(s, g)
<1>1. Ready(s, g)
  BY BegunHandedOff DEF Begun
<1>2. PICK e : e = Entry("handoff", 0, 0) /\ e \in EntryType /\ e.kind = "handoff"
  BY EntryTyped
<1>3. Quietly(conv, AppendEntry(conv, e))
  BY <1>2, AppendQuiet, InvFacts
<1>4. Quietly(conv, conv)
  BY SameQuiet, InvFacts
<1> QED BY <1>1, <1>2, <1>3, <1>4 DEF Staged

\* The run of a live generation.
LEMMA StagedOwns ==
  ASSUME ConvInv, InputsInv, NEW g \in Gens, conv.gens[g].phase # "ended", NEW s, Staged(s, g)
  PROVE  /\ Owning(s, g) /\ s.run = conv.run
         /\ conv.gens[g].phase \notin {"finish", "drain"} => ~s.run.answered
<1>1. s \in Conv /\ s.run = conv.run /\ conv.run.task = g /\ conv \in Conv
  BY LiveFacts, InvFacts DEF Staged, Ready
<1>2. Sound(conv)
  BY DEF InputsInv, Sound
<1>3. Sound(s)
  BY <1>1, <1>2, QuietSound DEF Staged
<1> QED BY <1>1, <1>3 DEF Owning, InputsInv, AnsweredHeld

-----------------------------------------------------------------------------
(* How a step moves the inputs, as InputContract sees them                  *)

\* What waits in r and was there in s waits as before; and of one mode, none is
\* placed while one before it waits.
QueuesKept(s, r) ==
  /\ \A k \in DOMAIN r.inbox :
       r.inbox[k].id \in DOMAIN s.subs => \E j \in DOMAIN s.inbox : r.inbox[k] = s.inbox[j]
  /\ \A j, k \in DOMAIN s.inbox :
       /\ j < k /\ s.inbox[j].mode = s.inbox[k].mode /\ s.inbox[k].mode \notin WriteKinds
       /\ r.subs[s.inbox[k].id].status = "placed"
       => r.subs[s.inbox[j].id].status # "queued"

\* The inputs in ended are settled as out; any other stays, or is placed or dropped
\* out of the inbox.
FaresAs(s, r, i, ended, out) ==
  /\ r.subs[i].kind = s.subs[i].kind
  /\ s.subs[i].kind \notin WriteKinds =>
       IF i \in ended THEN r.subs[i].status = out
       ELSE \/ r.subs[i].status = s.subs[i].status
            \/ s.subs[i].status = "queued" /\ r.subs[i].status = "placed"
            \/ s.subs[i].status = "queued" /\ r.subs[i].status = "unanswered"

\* From s to r no submission arrives.
Fared(s, r, ended, out) ==
  DOMAIN r.subs = DOMAIN s.subs /\ \A i \in DOMAIN s.subs : FaresAs(s, r, i, ended, out)

Turns(s, r, ended, out) == Fared(s, r, ended, out) /\ QueuesKept(s, r)

\* No input is settled unanswered.
NoneDropped(s, r) ==
  \A i \in DOMAIN s.subs :
    s.subs[i].kind \notin WriteKinds /\ r.subs[i].status = "unanswered" => s.subs[i].status = "unanswered"

\* The order of the inbox is that of its ids.
LEMMA QueueOrder ==
  ASSUME NEW s \in Conv, QueueSound(s), NEW j \in DOMAIN s.inbox, NEW k \in DOMAIN s.inbox
  PROVE  /\ j \in Nat /\ k \in Nat /\ s.inbox[j].id \in Nat /\ s.inbox[k].id \in Nat
         /\ j < k <=> s.inbox[j].id < s.inbox[k].id
         /\ s.inbox[j].id = s.inbox[k].id => j = k
<1>1. s.inbox[j] \in Item /\ s.inbox[k] \in Item /\ j \in Nat /\ k \in Nat
  BY EntriesAre
<1>2. s.inbox[j].id \in Nat /\ s.inbox[k].id \in Nat
  BY <1>1 DEF Item
<1>3. (j < k => s.inbox[j].id < s.inbox[k].id) /\ (k < j => s.inbox[k].id < s.inbox[j].id)
  BY DEF QueueSound
<1> QED BY <1>1, <1>2, <1>3

LEMMA QueuedAre ==
  ASSUME NEW s \in Conv, QueueSound(s)
  PROVE  /\ \A k \in DOMAIN s.inbox :
              /\ s.inbox[k].id \in DOMAIN s.subs /\ s.subs[s.inbox[k].id].status = "queued"
              /\ s.inbox[k].mode \in WriteKinds <=> s.subs[s.inbox[k].id].kind \in WriteKinds
         /\ \A i \in DOMAIN s.subs : s.subs[i].status = "queued" => \E k \in DOMAIN s.inbox : s.inbox[k].id = i
  BY DEF QueueSound

LEMMA TurnsThen ==
  ASSUME NEW s \in Conv, NEW r \in Conv, QueueSound(s), QueueSound(r), NEW t,
         NEW e, NEW f, NEW out \in {"done", "unanswered"},
         Turns(s, r, e, out), Turns(r, t, f, out)
  PROVE  Turns(s, t, e \cup f, out)
<1>1. Fared(s, r, e, out) /\ QueuesKept(s, r) /\ Fared(r, t, f, out) /\ QueuesKept(r, t)
  BY DEF Turns
<1>2. DOMAIN r.subs = DOMAIN s.subs /\ DOMAIN t.subs = DOMAIN s.subs
  BY <1>1 DEF Fared, FaresAs
<1>3. ASSUME NEW i \in DOMAIN s.subs
      PROVE  /\ r.subs[i].kind = s.subs[i].kind
             /\ s.subs[i].kind \notin WriteKinds =>
                  IF i \in e THEN r.subs[i].status = out
                  ELSE \/ r.subs[i].status = s.subs[i].status
                       \/ s.subs[i].status = "queued" /\ r.subs[i].status = "placed"
                       \/ s.subs[i].status = "queued" /\ r.subs[i].status = "unanswered"
  BY <1>1 DEF Fared, FaresAs
<1>4. ASSUME NEW i \in DOMAIN s.subs
      PROVE  /\ t.subs[i].kind = r.subs[i].kind
             /\ r.subs[i].kind \notin WriteKinds =>
                  IF i \in f THEN t.subs[i].status = out
                  ELSE \/ t.subs[i].status = r.subs[i].status
                       \/ r.subs[i].status = "queued" /\ t.subs[i].status = "placed"
                       \/ r.subs[i].status = "queued" /\ t.subs[i].status = "unanswered"
  BY <1>1, <1>2 DEF Fared, FaresAs
<1>5. Fared(s, t, e \cup f, out)
  <2>1. ASSUME NEW i \in DOMAIN s.subs
        PROVE  /\ t.subs[i].kind = s.subs[i].kind
               /\ s.subs[i].kind \notin WriteKinds =>
                    IF i \in e \cup f THEN t.subs[i].status = out
                    ELSE \/ t.subs[i].status = s.subs[i].status
                         \/ s.subs[i].status = "queued" /\ t.subs[i].status = "placed"
                         \/ s.subs[i].status = "queued" /\ t.subs[i].status = "unanswered"
    <3>1. i \in e \cup f <=> i \in e \/ i \in f
      OBVIOUS
    <3> QED BY <1>3, <1>4, <3>1
  <2> QED BY <1>2, <2>1 DEF Fared, FaresAs
<1>6. ASSUME NEW k \in DOMAIN t.inbox, t.inbox[k].id \in DOMAIN s.subs
      PROVE  \E j \in DOMAIN s.inbox : t.inbox[k] = s.inbox[j]
  <2>1. PICK x \in DOMAIN r.inbox : t.inbox[k] = r.inbox[x]
    BY <1>1, <1>2, <1>6 DEF QueuesKept
  <2> QED BY <1>1, <1>6, <2>1 DEF QueuesKept
<1>7. ASSUME NEW j \in DOMAIN s.inbox, NEW k \in DOMAIN s.inbox, j < k,
             s.inbox[j].mode = s.inbox[k].mode, s.inbox[k].mode \notin WriteKinds,
             t.subs[s.inbox[k].id].status = "placed", t.subs[s.inbox[j].id].status = "queued"
      PROVE  FALSE
  <2>1. PICK x, y : x = s.inbox[j].id /\ y = s.inbox[k].id
    OBVIOUS
  <2>2. /\ x \in DOMAIN s.subs /\ y \in DOMAIN s.subs
        /\ s.subs[x].kind \notin WriteKinds /\ s.subs[y].kind \notin WriteKinds
    BY <1>7, <2>1, QueuedAre
  <2>3. r.subs[x].status = "queued"
    BY <1>3, <1>4, <1>7, <2>1, <2>2
  <2>4. r.subs[y].status \in {"placed", "queued"}
    BY <1>3, <1>4, <1>7, <2>1, <2>2
  <2>5. r.subs[y].status # "placed"
    BY <1>1, <1>7, <2>1, <2>3 DEF QueuesKept
  <2>6. PICK a, b \in DOMAIN r.inbox : r.inbox[a].id = x /\ r.inbox[b].id = y
    BY <1>2, <2>2, <2>3, <2>4, <2>5, QueuedAre
  <2>7. r.inbox[a] = s.inbox[j] /\ r.inbox[b] = s.inbox[k]
    <3>1. PICK u, v \in DOMAIN s.inbox : r.inbox[a] = s.inbox[u] /\ r.inbox[b] = s.inbox[v]
      BY <1>1, <2>2, <2>6 DEF QueuesKept
    <3>2. u = j /\ v = k
      BY <2>1, <2>6, <3>1, QueueOrder
    <3> QED BY <3>1, <3>2
  <2>8. a < b
    <3>1. x < y
      BY <1>7, <2>1, QueueOrder
    <3> QED BY <2>6, <3>1, QueueOrder
  <2> QED BY <1>1, <1>7, <2>1, <2>6, <2>7, <2>8 DEF QueuesKept
<1>8. QueuesKept(s, t)
  BY <1>6, <1>7 DEF QueuesKept
<1> QED BY <1>5, <1>8 DEF Turns

LEMMA TurnsBefore ==
  ASSUME NEW s \in Conv, NEW r \in Conv, QueueSound(s), QueueSound(r), NEW t,
         NEW e, NEW out \in {"done", "unanswered"}, Turns(s, r, {}, out), Turns(r, t, e, out)
  PROVE  Turns(s, t, e, out)
<1>1. PICK N : N = {}
  OBVIOUS
<1>2. Turns(s, t, N \cup e, out)
  BY <1>1, TurnsThen
<1>3. N \cup e = e
  BY <1>1
<1> QED BY <1>2, <1>3

LEMMA TurnsAfter ==
  ASSUME NEW s \in Conv, NEW r \in Conv, QueueSound(s), QueueSound(r), NEW t,
         NEW e, NEW out \in {"done", "unanswered"}, Turns(s, r, e, out), Turns(r, t, {}, out)
  PROVE  Turns(s, t, e, out)
<1>1. PICK N : N = {}
  OBVIOUS
<1>2. Turns(s, t, e \cup N, out)
  BY <1>1, TurnsThen
<1>3. e \cup N = e
  BY <1>1
<1> QED BY <1>2, <1>3

LEMMA TurnsSame ==
  ASSUME NEW s \in Conv, QueueSound(s), NEW r, r.subs = s.subs, r.inbox = s.inbox, NEW out
  PROVE  Turns(s, r, {}, out)
<1>1. \A k \in DOMAIN s.inbox : s.subs[s.inbox[k].id].status = "queued"
  BY QueuedAre
<1>2. QueuesKept(s, r)
  BY <1>1 DEF QueuesKept
<1>3. Fared(s, r, {}, out)
  BY DEF Fared, FaresAs
<1> QED BY <1>2, <1>3 DEF Turns

LEMMA TurnsTo ==
  ASSUME NEW s, NEW r, NEW t, t.subs = r.subs, t.inbox = r.inbox, NEW ended, NEW out,
         Turns(s, r, ended, out)
  PROVE  Turns(s, t, ended, out)
  BY DEF Turns, Fared, FaresAs, QueuesKept

LEMMA TurnsFrom ==
  ASSUME NEW s, NEW c, NEW r, s.subs = c.subs, s.inbox = c.inbox, NEW ended, NEW out,
         Turns(s, r, ended, out)
  PROVE  Turns(c, r, ended, out)
  BY DEF Turns, Fared, FaresAs, QueuesKept

LEMMA BoundaryTurns ==
  ASSUME NEW s \in Conv, NEW h \in Seq(Nat), Accounted(s, h), NEW at, NEW b, b = ApplyBoundary(s, at), NEW out
  PROVE  Turns(s, b.conv, {}, out) /\ NoneDropped(s, b.conv)
<1>1. QueueSound(s)
  BY DEF Accounted
<1>2. PICK U, c : c = b.conv /\ Selected(s.inbox, U) /\ Swept(s, c, U)
  BY BoundaryKeeps
<1>3. \A k \in DOMAIN s.inbox :
        /\ s.inbox[k].id \in DOMAIN s.subs /\ s.subs[s.inbox[k].id].status = "queued"
        /\ s.inbox[k].mode \in WriteKinds <=> s.subs[s.inbox[k].id].kind \in WriteKinds
  BY <1>1, QueuedAre
<1>4. U \subseteq DOMAIN s.inbox
  BY <1>2 DEF Selected
<1>5. \A i \in IdsAt(s.inbox, U) : i \in DOMAIN s.subs /\ s.subs[i].status = "queued"
  BY <1>3, <1>4 DEF IdsAt
<1>6. Fared(s, c, {}, out)
  BY <1>2, <1>5 DEF Swept, Fared, FaresAs
<1>7. ASSUME NEW j \in DOMAIN s.inbox, NEW k \in DOMAIN s.inbox, j < k,
             s.inbox[j].mode = s.inbox[k].mode, s.inbox[k].mode \notin WriteKinds,
             c.subs[s.inbox[k].id].status = "placed"
      PROVE  c.subs[s.inbox[j].id].status # "queued"
  <2>1. PICK y : /\ y = s.inbox[k].id /\ y \in DOMAIN s.subs /\ s.subs[y].status = "queued"
                 /\ s.subs[y].kind \notin WriteKinds /\ c.subs[y].status = "placed"
    BY <1>3, <1>7
  <2>2. y \in IdsAt(s.inbox, U)
    BY <1>2, <2>1 DEF Swept
  <2>3. k \in U
    <3>1. PICK x \in U : s.inbox[x].id = y
      BY <2>2 DEF IdsAt
    <3> QED BY <1>1, <1>4, <2>1, <3>1, QueueOrder
  <2>4. s.inbox[k].mode \in {"steer", "followUp"}
    <3>1. s.inbox[k] \in Item
      BY EntriesAre
    <3> QED BY <1>7, <3>1 DEF Item
  <2>5. j \in U
    BY <1>2, <1>7, <2>3, <2>4 DEF Selected
  <2>6. s.inbox[j].id \in IdsAt(s.inbox, U)
    BY <2>5 DEF IdsAt
  <2> QED BY <1>2, <1>5, <2>6 DEF Swept
<1>8. QueuesKept(s, c)
  BY <1>2, <1>7 DEF QueuesKept, Swept
<1>9. NoneDropped(s, c)
  BY <1>2 DEF Swept, NoneDropped
<1> QED BY <1>2, <1>6, <1>8, <1>9 DEF Turns

LEMMA SettledTurns ==
  ASSUME NEW s \in Conv, QueueSound(s), NEW r, NEW ids, NEW status \in {"done", "unanswered"},
         Changed(s, r, ids, {status}), r.inbox = s.inbox
  PROVE  Turns(s, r, ids, status)
<1>1. \A k \in DOMAIN s.inbox : s.inbox[k].id \in DOMAIN s.subs /\ s.subs[s.inbox[k].id].status = "queued"
  BY QueuedAre
<1>2. /\ DOMAIN r.subs = DOMAIN s.subs
      /\ \A i \in DOMAIN s.subs : /\ r.subs[i].kind = s.subs[i].kind
                                  /\ r.subs[i].status = IF i \in ids THEN status ELSE s.subs[i].status
  BY DEF Changed
<1>3. Fared(s, r, ids, status)
  BY <1>2 DEF Fared, FaresAs
<1>4. QueuesKept(s, r)
  BY <1>1, <1>2 DEF QueuesKept
<1> QED BY <1>3, <1>4 DEF Turns

LEMMA EndRunTurns ==
  ASSUME NEW s \in Conv, NEW g, s.run.task = g, QueueSound(s), s.run.answered => s.run.inputs = <<>>,
         NEW status \in {"done", "unanswered"}, NEW e, e = EndRun(s, g, status)
  PROVE  Turns(s, e, ToSet(s.run.inputs), status)
<1> DEFINE inputs == s.run.inputs
           c == Settle(s, ToSet(inputs), status)
<1>1. e \in Conv /\ e.inbox = s.inbox
  BY EndRunEnds DEF RunOver
<1>2. c \in Conv /\ Changed(s, c, ToSet(inputs), {status}) /\ inputs \in Seq(Nat)
  BY SettleChanges, EntriesAre DEF SubStatus
<1>3. \/ e = [[c EXCEPT !.run = NoRun] EXCEPT !.partial = "none", !.slots = <<>>]
      \/ e = [[c EXCEPT !.run = NoRun, !.failure = inputs] EXCEPT !.partial = "none", !.slots = <<>>]
      \/ s.run.answered /\ e = [[s EXCEPT !.run = NoRun] EXCEPT !.partial = "none", !.slots = <<>>]
  BY DEF EndRun
<1> HIDE DEF c
<1>4. e.subs = c.subs \/ (s.run.answered /\ e.subs = s.subs)
  BY <1>2, <1>3 DEF Conv
<1>5. Changed(s, e, ToSet(inputs), {status})
  <2>1. CASE e.subs = c.subs
    BY <1>2, <2>1 DEF Changed
  <2>2. CASE s.run.answered /\ e.subs = s.subs
    <3>1. ToSet(inputs) = {}
      BY <2>2 DEF ToSet
    <3> QED BY <2>2, <3>1 DEF Changed
  <2> QED BY <1>4, <2>1, <2>2
<1>6. PICK ids : ids = ToSet(inputs) /\ Changed(s, e, ids, {status})
  BY <1>5
<1> HIDE DEF inputs
<1>7. Turns(s, e, ids, status)
  BY <1>1, <1>6, SettledTurns
<1> QED BY <1>6, <1>7 DEF inputs

LEMMA WithdrawTurns ==
  ASSUME NEW s \in Conv, QueueSound(s), NEW ids,
         \A i \in ids : i \in DOMAIN s.subs => s.subs[i].status = "queued", NEW r, r = Withdraw(s, ids), NEW out
  PROVE  Turns(s, r, {}, out)
<1> DEFINE c == Settle(s, ids, "unanswered")
           S == {k \in DOMAIN c.inbox : c.inbox[k].id \notin ids}
<1>1. Changed(s, c, ids, {"unanswered"}) /\ c \in Conv /\ c.inbox = s.inbox
  BY SettleChanges DEF SubStatus
<1>2. r = [c EXCEPT !.inbox = At(c.inbox, S)] /\ r \in Conv
  BY WithdrawFramed DEF Withdraw, Framed
<1>3. PICK T : T = S
  OBVIOUS
<1>4. r.inbox = At(s.inbox, T) /\ r.subs = c.subs
  BY <1>1, <1>2, <1>3 DEF Conv
<1> HIDE DEF c, S
<1>5. Takes(r.inbox, s.inbox, T)
  <2>1. s.inbox \in Seq(Item)
    BY EntriesAre
  <2> QED BY <1>4, <2>1, AtIs
<1>6. \A k \in DOMAIN r.inbox : \E j \in DOMAIN s.inbox : r.inbox[k] = s.inbox[j]
  BY <1>5 DEF Takes
<1>7. /\ DOMAIN r.subs = DOMAIN s.subs
      /\ \A i \in DOMAIN s.subs : /\ r.subs[i].kind = s.subs[i].kind
                                  /\ i \in ids => r.subs[i].status = "unanswered"
                                  /\ i \notin ids => r.subs[i].status = s.subs[i].status
  BY <1>1, <1>4 DEF Changed
<1>8. \A k \in DOMAIN s.inbox : s.inbox[k].id \in DOMAIN s.subs /\ s.subs[s.inbox[k].id].status = "queued"
  BY QueuedAre
<1>9. Fared(s, r, {}, out)
  BY <1>7 DEF Fared, FaresAs
<1>10. QueuesKept(s, r)
  BY <1>6, <1>7, <1>8 DEF QueuesKept
<1> QED BY <1>9, <1>10 DEF Turns

\* Nothing arrives, or one submission, last, which is no write that is settled late.
Entered(s, n) ==
  \/ n.subs = s.subs /\ n.inbox = s.inbox
  \/ /\ \E sub \in Sub : /\ n.subs = Append(s.subs, sub)
                         /\ sub.kind \in WriteKinds \/ sub.status \in {"queued", "placed"}
     /\ n.inbox = s.inbox \/ \E it \in Item : it.id = Len(s.subs) + 1 /\ n.inbox = Append(s.inbox, it)

\* A step from s to r, with an arrival or not: the inputs of the run go on, or they
\* all end alike.
Turned(s, r) ==
  \E n \in Conv, ended \in {{}, ToSet(s.run.inputs)}, out \in {"done", "unanswered"} :
    /\ QueueSound(n) /\ Entered(s, n) /\ Turns(n, r, ended, out)
    /\ n.subs # s.subs => NoneDropped(n, r)

LEMMA TurnedBy ==
  ASSUME NEW s \in Conv, QueueSound(s), NEW ended, NEW out \in {"done", "unanswered"},
         ended = {} \/ ended = ToSet(s.run.inputs), NEW r, Turns(s, r, ended, out)
  PROVE  Turned(s, r)
<1>1. Entered(s, s)
  BY DEF Entered
<1> QED BY <1>1 DEF Turned

LEMMA TurnedTo ==
  ASSUME NEW s, NEW r, NEW t, t.subs = r.subs, t.inbox = r.inbox, Turned(s, r)
  PROVE  Turned(s, t)
<1>1. PICK n \in Conv, ended \in {{}, ToSet(s.run.inputs)}, out \in {"done", "unanswered"} :
        /\ QueueSound(n) /\ Entered(s, n) /\ Turns(n, r, ended, out)
        /\ n.subs # s.subs => NoneDropped(n, r)
  BY DEF Turned
<1>2. Turns(n, t, ended, out)
  BY <1>1, TurnsTo
<1>3. n.subs # s.subs => NoneDropped(n, t)
  BY <1>1 DEF NoneDropped
<1> QED BY <1>1, <1>2, <1>3 DEF Turned

LEMMA TurnedFrom ==
  ASSUME NEW s, NEW c, NEW r, s.subs = c.subs, s.inbox = c.inbox, s.run.inputs = c.run.inputs, Turned(s, r)
  PROVE  Turned(c, r)
<1>1. PICK n \in Conv, ended \in {{}, ToSet(s.run.inputs)}, out \in {"done", "unanswered"} :
        /\ QueueSound(n) /\ Entered(s, n) /\ Turns(n, r, ended, out)
        /\ n.subs # s.subs => NoneDropped(n, r)
  BY DEF Turned
<1>2. Entered(c, n)
  BY <1>1 DEF Entered
<1> QED BY <1>1, <1>2 DEF Turned

LEMMA TurnedQuiet ==
  ASSUME NEW s \in Conv, QueueSound(s), NEW r, r.subs = s.subs, r.inbox = s.inbox
  PROVE  Turned(s, r)
<1>1. PICK out \in {"done", "unanswered"} : TRUE
  OBVIOUS
<1>2. Turns(s, r, {}, out)
  BY TurnsSame
<1> QED BY <1>2, TurnedBy

LEMMA StartNextSame ==
  ASSUME NEW b, b.conv \in Conv, b.users \in Seq(Nat), NEW keep \in BOOLEAN, NEW r, r = StartNext(b, keep)
  PROVE  r.subs = b.conv.subs /\ r.inbox = b.conv.inbox
<1>1. CASE b.users = <<>>
  BY <1>1 DEF StartNext
<1>2. CASE b.users # <<>>
  <2>1. PICK c \in Conv, us \in Seq(Nat) : c = b.conv /\ us = b.users
    OBVIOUS
  <2>2. r = StartRun(c, us, keep)
    BY <1>2, <2>1 DEF StartNext
  <2>3. r.inbox = c.inbox /\ r.subs = c.subs
    BY <2>2, StartRunIs
  <2> QED BY <2>1, <2>3
<1> QED BY <1>1, <1>2

LEMMA OwningIs ==
  ASSUME NEW s, NEW g, Owning(s, g)
  PROVE  /\ s \in Conv /\ QueueSound(s) /\ s.run.inputs \in Seq(Nat) /\ Accounted(s, s.run.inputs)
         /\ s.run.task = g /\ (s.run.answered => s.run.inputs = <<>>)
  BY EntriesAre DEF Owning, Sound, Accounted

LEMMA EndRunTurned ==
  ASSUME NEW s, NEW g, Owning(s, g), NEW status \in {"done", "unanswered"}, NEW e, e = EndRun(s, g, status)
  PROVE  Turns(s, e, ToSet(s.run.inputs), status) /\ Turned(s, e)
<1>1. s \in Conv /\ QueueSound(s) /\ s.run.task = g /\ (s.run.answered => s.run.inputs = <<>>)
  BY OwningIs
<1>2. Turns(s, e, ToSet(s.run.inputs), status)
  BY <1>1, EndRunTurns
<1>3. PICK H : H = ToSet(s.run.inputs) /\ Turns(s, e, H, status)
  BY <1>2
<1>4. Turned(s, e)
  BY <1>1, <1>3, TurnedBy
<1> QED BY <1>2, <1>4

LEMMA EndFailedTurned ==
  ASSUME NEW s, NEW g, Owning(s, g), settings \in Setting, NEW r, r = EndFailedRun(s, g)
  PROVE  Turned(s, r)
<1>1. PICK out : out = "unanswered" /\ out \in {"done", "unanswered"}
  OBVIOUS
<1>2. PICK e, H : e = EndRun(s, g, out) /\ H = ToSet(s.run.inputs) /\ Turns(s, e, H, out)
  BY <1>1, EndRunTurned
<1>3. s \in Conv /\ QueueSound(s)
  BY OwningIs
<1>4. e \in Conv /\ Accounted(e, <<>>) /\ QueueSound(e)
  <2>1. Fresh(e) /\ e.run = NoRun
    BY <1>1, <1>2, EndRunFresh
  <2> QED BY <2>1 DEF Fresh, Sound, NoRun, Accounted
<1>5. ASSUME NEW t, Turns(e, t, {}, out) PROVE Turned(s, t)
  <2>1. Turns(s, t, H, out)
    BY <1>1, <1>2, <1>3, <1>4, <1>5, TurnsAfter
  <2> QED BY <1>1, <1>2, <1>3, <2>1, TurnedBy
<1>6. CASE settings.policy = "keep"
  <2>1. r = e
    BY <1>1, <1>2, <1>6 DEF EndFailedRun
  <2> QED BY <1>1, <1>2, <1>3, <2>1, TurnedBy
<1>7. CASE settings.policy = "withdraw"
  <2>1. PICK ids : ids = QueuedInputs(e) /\ r = Withdraw(e, ids)
    BY <1>1, <1>2, <1>7 DEF EndFailedRun, WithdrawQueuedInputs
  <2>2. \A i \in ids : i \in DOMAIN e.subs => e.subs[i].status = "queued"
    BY <1>4, <2>1 DEF QueuedInputs, QueueSound, ToSet
  <2>3. Turns(e, r, {}, out)
    BY <1>4, <2>1, <2>2, WithdrawTurns
  <2> QED BY <1>5, <2>3
<1>8. CASE settings.policy = "continue"
  <2>1. PICK b : b = ApplyBoundary(e, "final") /\ r = StartNext(b, TRUE)
    BY <1>1, <1>2, <1>8 DEF EndFailedRun
  <2>2. PICK h \in Seq(Nat) : h = <<>> /\ Accounted(e, h)
    <3>1. <<>> \in Seq(Nat)
      OBVIOUS
    <3> QED BY <1>4, <3>1
  <2>3. b.conv \in Conv /\ b.users \in Seq(Nat)
    BY ONLY <1>4, <2>1, <2>2, BoundaryKeeps
  <2>4. Turns(e, b.conv, {}, out)
    BY ONLY <1>4, <2>1, <2>2, BoundaryTurns
  <2>5. r.subs = b.conv.subs /\ r.inbox = b.conv.inbox
    BY <2>1, <2>3, StartNextSame
  <2>6. Turned(s, b.conv)
    BY <1>5, <2>4
  <2> QED BY <2>5, <2>6, TurnedTo
<1>9. settings.policy \in {"keep", "continue", "withdraw"}
  BY DEF Setting
<1> QED BY <1>6, <1>7, <1>8, <1>9

LEMMA TurnTurned ==
  ASSUME NEW s, NEW g, Owning(s, g), NEW at, NEW status \in {"done", "unanswered"}, NEW keep \in BOOLEAN, NEW r,
         r = StartNext([ApplyBoundary(s, at) EXCEPT !.conv = EndRun(ApplyBoundary(s, at).conv, g, status)], keep)
  PROVE  Turned(s, r)
<1> DEFINE b == ApplyBoundary(s, at)
           e == EndRun(b.conv, g, status)
           c == [b EXCEPT !.conv = e]
<1>1. PICK h \in Seq(Nat) : /\ h = s.run.inputs /\ s \in Conv /\ QueueSound(s) /\ Accounted(s, h)
                            /\ s.run.task = g /\ (s.run.answered => h = <<>>)
  BY OwningIs
<1>2. c.conv = e /\ c.users = b.users /\ r = StartNext(c, keep)
  BY BoundaryRecord
<1>3. /\ b.conv \in Conv /\ b.users \in Seq(Nat) /\ b.conv.run = s.run
      /\ Accounted(b.conv, h \o b.users)
  BY <1>1, BoundaryKeeps
<1>4. Turns(s, b.conv, {}, status)
  BY <1>1, BoundaryTurns
<1> HIDE DEF b
<1>5. PICK x \in Conv : x = b.conv /\ QueueSound(x) /\ x.run = s.run
  BY <1>3 DEF Accounted
<1>6. e \in Conv /\ Accounted(e, b.users)
  BY <1>1, <1>3, EndRunKeeps
<1>7. PICK H, y : H = ToSet(h) /\ y = e /\ Turns(x, y, H, status)
  <2>1. Turns(x, e, ToSet(x.run.inputs), status)
    BY <1>1, <1>5, EndRunTurns
  <2> QED BY <1>1, <1>5, <2>1
<1> HIDE DEF e, c
<1>8. Turns(s, y, H, status)
  <2>1. /\ s \in Conv /\ QueueSound(s) /\ QueueSound(x)
        /\ Turns(s, x, {}, status) /\ Turns(x, y, H, status)
    BY <1>1, <1>4, <1>5, <1>7
  <2> QED BY ONLY <2>1, TurnsBefore
<1>9. Turned(s, y)
  BY <1>1, <1>7, <1>8, TurnedBy
<1>10. r.subs = y.subs /\ r.inbox = y.inbox
  BY <1>2, <1>3, <1>6, <1>7, StartNextSame
<1> QED BY <1>9, <1>10, TurnedTo

LEMMA EndTurned ==
  ASSUME NEW s, NEW r \in Conv, Turned(s, r), NEW g, NEW cause \in Causes, NEW t, t = End(r, g, cause)
  PROVE  Turned(s, t)
<1>1. t.subs = r.subs /\ t.inbox = r.inbox
  BY DEF End, Conv
<1> QED BY <1>1, TurnedTo

LEMMA EndAnsweredTurned ==
  ASSUME NEW s, NEW g, Owning(s, g), NEW r, r = EndAnswered(s, g)
  PROVE  Turned(s, r)
<1> DEFINE n == StartNext([ApplyBoundary(s, "final") EXCEPT
                             !.conv = EndRun(ApplyBoundary(s, "final").conv, g, "done")], FALSE)
<1>1. n \in Conv
  BY TurnFresh DEF Fresh
<1>2. Turned(s, n)
  BY TurnTurned
<1>3. r = End(n, g, "")
  BY DEF EndAnswered
<1> HIDE DEF n
<1> QED BY <1>1, <1>2, <1>3, EndTurned DEF Causes

LEMMA BoundaryTurned ==
  ASSUME NEW s, NEW g, Owning(s, g), NEW at, NEW b, b = ApplyBoundary(s, at)
  PROVE  /\ Turned(s, b.conv) /\ b.conv \in Conv /\ b.users \in Seq(Nat)
         /\ b.conv.run.task = g /\ b.conv.run = s.run
<1>1. PICK h \in Seq(Nat) : h = s.run.inputs /\ s \in Conv /\ QueueSound(s) /\ Accounted(s, h) /\ s.run.task = g
  BY OwningIs
<1>2. PICK out \in {"done", "unanswered"} : TRUE
  OBVIOUS
<1>3. Turns(s, b.conv, {}, out)
  BY <1>1, BoundaryTurns
<1>4. b.conv \in Conv /\ b.users \in Seq(Nat) /\ b.conv.run = s.run
  BY <1>1, BoundaryKeeps
<1> QED BY <1>1, <1>3, <1>4, TurnedBy

LEMMA AfterToolsTurned ==
  ASSUME NEW s, NEW g, Owning(s, g), NEW r, r = AfterTools(s, g)
  PROVE  Turned(s, r)
<1> DEFINE b == ApplyBoundary(s, "postTools")
           cut == [b EXCEPT !.conv = EndRun(b.conv, g, "unanswered")]
           t == HandOver(CreateGeneration(Joined(b, g)), g)
<1>1. r = IF b.reset THEN StartNext(cut, TRUE) ELSE t
  BY DEF AfterTools, Joined
<1>2. Turned(s, StartNext(cut, TRUE))
  BY TurnTurned
<1>3. Turned(s, b.conv) /\ b.conv \in Conv /\ b.users \in Seq(Nat) /\ b.conv.run.task = g
  BY BoundaryTurned
<1> HIDE DEF b, cut
<1>4. t.subs = b.conv.subs /\ t.inbox = b.conv.inbox
  <2>1. PICK x : x = b
    OBVIOUS
  <2>2. x.conv \in Conv /\ x.users \in Seq(Nat) /\ x.conv.run.task = g
    BY <1>3, <2>1
  <2>3. PICK j : /\ j = Joined(x, g) /\ j \in Conv /\ j.entries = x.conv.entries
                 /\ j.inbox = x.conv.inbox /\ j.subs = x.conv.subs /\ j.run.task = g
                 /\ j.run.inputs = x.conv.run.inputs \o x.users
                 /\ j.run.answered = x.conv.run.answered
    BY ONLY ZenonT(30), <2>2, JoinedIs
  <2>4. PICK y : /\ y = HandOver(CreateGeneration(j), g) /\ y.inbox = j.inbox /\ y.subs = j.subs
    BY <2>3, HandOverIs
  <2> QED BY <2>1, <2>3, <2>4
<1> HIDE DEF t
<1>5. Turned(s, t)
  BY <1>3, <1>4, TurnedTo
<1> QED BY <1>1, <1>2, <1>5

LEMMA ContinuedTurned ==
  ASSUME NEW s, NEW g, Owning(s, g), NEW r, r = Continued(s, g), r \in Conv
  PROVE  Turned(s, r)
<1>1. PICK b : b = ApplyBoundary(s, "final")
  OBVIOUS
<1>2. Turned(s, b.conv) /\ b.conv \in Conv /\ b.conv.run.task = g
  BY <1>1, BoundaryTurned
<1>3. PICK e : e = Entry("continuation", 0, 0) /\ e \in EntryType /\ e.kind = "continuation"
  BY EntryTyped
<1>4. PICK next : next = AppendEntry(b.conv, e)
  OBVIOUS
<1>5. Quietly(b.conv, next) /\ next.run = b.conv.run /\ next \in Conv
  BY <1>2, <1>3, <1>4, AppendQuiet DEF Quietly
<1>6. PICK h : /\ h = HandOver(CreateGeneration(next), g) /\ h \in Conv /\ h.entries = next.entries
               /\ h.inbox = next.inbox /\ h.subs = next.subs
               /\ h.run.inputs = next.run.inputs /\ h.run.answered = next.run.answered
  BY <1>2, <1>5, HandOverIs
<1>7. r = [End(h, g, "") EXCEPT !.run.turns = 0, !.partial = "none"]
  BY <1>1, <1>3, <1>4, <1>6 DEF Continued
<1>8. r.inbox = h.inbox /\ r.subs = h.subs
  <2> DEFINE run == [h.run EXCEPT !.turns = 0]
             d == End(h, g, "")
  <2>1. d = [h EXCEPT !.gens = d.gens]
    BY <1>6 DEF End, Conv
  <2> HIDE DEF d
  <2>2. r = [d EXCEPT !.run = run, !.partial = "none"]
    BY <1>6, <1>7, <2>1 DEF Conv, d
  <2> HIDE DEF run
  <2>3. h \in Conv
    BY <1>6
  <2>4. PICK gens : d = [h EXCEPT !.gens = gens]
    BY <2>1
  <2> QED BY ONLY <2>2, <2>3, <2>4 DEF Conv
<1>9. r.subs = b.conv.subs /\ r.inbox = b.conv.inbox
  BY <1>5, <1>6, <1>8 DEF Quietly
<1> QED BY <1>2, <1>9, TurnedTo

\* A step keeps the inputs, and moves them as InputContract lets it.
InputsKept == InputsInv' /\ Turned(conv, conv')

LEMMA FreshInputs == ASSUME Fresh(conv'), Turned(conv, conv') PROVE InputsKept
  BY DEF Fresh, Sound, InputsInv, AnsweredHeld, InputsKept

LEMMA ContinuedFresh ==
  ASSUME NEW s, NEW g, Owning(s, g), ~s.run.answered, ~HasQueuedReset(s.inbox), QueuedInputs(s) = {},
         NEW r, r = Continued(s, g), r \in Conv
  PROVE  Fresh(r)
<1>1. s \in Conv /\ s.run.task = g /\ s.run.inputs \in Seq(Nat) /\ Sound(s) /\ Accounted(s, s.run.inputs)
  BY EntriesAre DEF Owning, Sound
<1>2. PICK b : b = ApplyBoundary(s, "final")
  OBVIOUS
<1>3. /\ b.conv \in Conv /\ b.users \in Seq(Nat) /\ b.conv.run = s.run
      /\ Accounted(b.conv, s.run.inputs \o b.users) /\ Uncut(b.conv, s.run.inputs \o b.users)
      /\ ToSet(b.users) = {}
  <2>1. /\ b.conv \in Conv /\ b.users \in Seq(Nat) /\ b.conv.run = s.run
        /\ Accounted(b.conv, s.run.inputs \o b.users)
        /\ ~HasQueuedReset(s.inbox) /\ Uncut(s, s.run.inputs) => Uncut(b.conv, s.run.inputs \o b.users)
        /\ ToSet(b.users) \subseteq QueuedInputs(s)
    BY ONLY <1>1, <1>2, BoundaryKeeps
  <2> QED BY <1>1, <2>1 DEF Sound
<1>4. b.users = <<>>
  <2>1. DOMAIN b.users = 1..Len(b.users) /\ Len(b.users) \in Nat
    BY <1>3
  <2>2. 1 \notin DOMAIN b.users
    BY <1>3 DEF ToSet
  <2>3. Len(b.users) = 0
    BY <2>1, <2>2
  <2> QED BY <1>3, <2>3
<1>5. Sound(b.conv) /\ ~b.conv.run.answered /\ b.conv.run.task = g
  BY <1>1, <1>3, <1>4, ConcatNothing DEF Sound
<1>6. PICK e : e = Entry("continuation", 0, 0) /\ e \in EntryType /\ e.kind = "continuation"
  BY EntryTyped
<1>7. PICK next : next = AppendEntry(b.conv, e)
  OBVIOUS
<1>8. Quietly(b.conv, next) /\ next.run = b.conv.run /\ next \in Conv
  BY <1>3, <1>6, <1>7, AppendQuiet DEF Quietly
<1>9. Sound(next)
  BY <1>3, <1>5, <1>8, QuietSound
<1>10. PICK h : /\ h = HandOver(CreateGeneration(next), g) /\ h \in Conv /\ h.entries = next.entries
                /\ h.inbox = next.inbox /\ h.subs = next.subs
                /\ h.run.inputs = next.run.inputs /\ h.run.answered = next.run.answered
  BY <1>5, <1>8, HandOverIs
<1>11. Quietly(next, h)
  BY <1>8, <1>10, SameQuiet
<1>12. r = [End(h, g, "") EXCEPT !.run.turns = 0, !.partial = "none"]
  BY <1>2, <1>6, <1>7, <1>10 DEF Continued
<1>13. /\ r.entries = h.entries /\ r.inbox = h.inbox /\ r.subs = h.subs
       /\ r.run.inputs = h.run.inputs /\ r.run.answered = h.run.answered
  <2> DEFINE run == [h.run EXCEPT !.turns = 0]
             d == End(h, g, "")
  <2>1. h.run \in Run
    BY <1>10 DEF Conv
  <2>2. d = [h EXCEPT !.gens = d.gens]
    BY <1>10 DEF End, Conv
  <2> HIDE DEF d
  <2>3. r = [d EXCEPT !.run = run, !.partial = "none"]
    BY <1>10, <1>12, <2>2 DEF Conv, d
  <2>4. run.inputs = h.run.inputs /\ run.answered = h.run.answered
    BY <2>1 DEF Run
  <2> HIDE DEF run
  <2> QED BY <1>10, <2>2, <2>3, <2>4 DEF Conv
<1>14. Quietly(h, r)
  BY <1>10, <1>13, SameQuiet
<1>15. Sound(h)
  BY <1>8, <1>9, <1>11, QuietSound
<1>16. Sound(r)
  BY <1>10, <1>14, <1>15, QuietSound
<1> QED BY <1>5, <1>8, <1>10, <1>13, <1>16 DEF Fresh

\* What is staged has the inputs of conv.
LEMMA StagedTurned ==
  ASSUME NEW g, NEW s, Staged(s, g), NEW r, Turned(s, r)
  PROVE  Turned(conv, r)
<1>1. s.subs = conv.subs /\ s.inbox = conv.inbox /\ s.run.inputs = conv.run.inputs
  BY DEF Staged, Quietly
<1> QED BY <1>1, TurnedFrom

LEMMA HoldInputs ==
  ASSUME ConvInv, InputsInv, NEW g \in Gens, conv.gens[g].phase # "ended", NEW s, Staged(s, g),
         conv' = HoldRun(s, g), ConvInv'
  PROVE  InputsKept
<1>1. Owning(s, g) /\ s.run = conv.run /\ s \in Conv /\ Ready(s, g) /\ conv.run.task = g
  BY StagedOwns, LiveFacts DEF Owning, Staged
<1>2. PICK r : r = conv' /\ r \in Conv
  BY DEF ConvInv, TypeOK
<1>3. PICK h \in Seq(Nat) : h = s.run.inputs
  BY <1>1, EntriesAre
<1>4. PICK c : c = Settle(s, ToSet(h), "done")
  OBVIOUS
<1>5. /\ r.gens = Put(conv.gens, g, Going(conv.gens[g], "finish", "running"))
      /\ r.entries = s.entries /\ r.inbox = s.inbox /\ r.subs = c.subs /\ r.run.inputs = <<>>
      /\ r.run.task = s.run.task
  <2>1. r = HoldRun(s, g)
    BY <1>2
  <2> QED BY ONLY ConvInv, g \in Gens, conv.gens[g].phase # "ended", <1>1, <1>2, <1>3, <1>4, <2>1, HoldRunIs
<1>6. Accounted(r, <<>>)
  <2>1. Changed(s, c, ToSet(h), {"done"})
    BY <1>1, <1>4, SettleChanges DEF SubStatus
  <2>2. PICK status : status = "done"
    OBVIOUS
  <2>3. Changed(s, r, ToSet(h), {status}) /\ status \in {"done", "unanswered"}
    BY <1>5, <2>1, <2>2 DEF Changed
  <2>4. Accounted(s, h \o <<>>)
    BY <1>1, <1>3, ConcatNothing DEF Owning, Sound
  <2>5. PICK u : u = <<>> /\ u \in Seq(Nat)
    BY <1>3, ConcatNothing
  <2>6. Accounted(r, u)
    BY <1>1, <1>2, <1>3, <1>5, <2>3, <2>4, <2>5, DropKeeps
  <2> QED BY <2>5, <2>6
<1>7. Accounted(r, r.run.inputs) /\ Uncut(r, r.run.inputs)
  BY <1>5, <1>6, NothingUncut
<1>8. r.gens[r.run.task].phase = "finish"
  BY <1>1, <1>5 DEF Put, Going, Gens
<1>9. Turned(conv, r)
  <2>1. PICK ids, status : ids = ToSet(h) /\ status = "done" /\ Changed(s, c, ids, {status})
    BY <1>1, <1>4, SettleChanges DEF SubStatus
  <2>2. Changed(s, r, ids, {status}) /\ r.inbox = s.inbox /\ QueueSound(s)
    BY <1>1, <1>5, <2>1, OwningIs DEF Changed
  <2>3. Turns(s, r, ids, status)
    BY <1>1, <2>1, <2>2, SettledTurns
  <2>4. Turned(s, r)
    BY <1>1, <1>3, <2>1, <2>2, <2>3, TurnedBy
  <2> QED BY <2>4, StagedTurned
<1>10. InputsInv'
  BY <1>2, <1>5, <1>7, <1>8 DEF InputsInv, AnsweredHeld
<1> QED BY <1>2, <1>9, <1>10 DEF InputsKept

\* A generation ends with its run, answered or not.
LEMMA EndedInputs ==
  ASSUME ConvInv, InputsInv, NEW g \in Gens, conv.gens[g].phase # "ended", NEW s, Staged(s, g),
         \/ conv' = EndAnswered(s, g)
         \/ \E cause \in Causes : conv' = End(EndFailedRun(s, g), g, cause)
         \/ \E cause \in Causes, status \in {"done", "unanswered"} : conv' = End(EndRun(s, g, status), g, cause)
  PROVE  InputsKept
<1>1. Owning(s, g) /\ settings \in Setting
  BY StagedOwns, InvFacts
<1>2. CASE conv' = EndAnswered(s, g)
  <2>1. PICK r : r = EndAnswered(s, g) /\ r = conv' /\ Fresh(r)
    BY <1>1, <1>2, EndAnsweredFresh
  <2>2. Turned(conv, r)
    BY <1>1, <2>1, EndAnsweredTurned, StagedTurned
  <2> QED BY <2>1, <2>2, FreshInputs
<1>3. ASSUME NEW cause \in Causes, conv' = End(EndFailedRun(s, g), g, cause) PROVE InputsKept
  <2>1. PICK e : e = EndFailedRun(s, g) /\ Fresh(e)
    BY <1>1, EndFailedFresh
  <2>2. PICK r : r = conv' /\ r = End(e, g, cause) /\ Fresh(r)
    BY <1>3, <2>1, EndKeeps
  <2>3. Turned(s, e) /\ e \in Conv
    BY <1>1, <2>1, EndFailedTurned DEF Fresh
  <2>4. Turned(conv, r)
    BY <2>2, <2>3, EndTurned, StagedTurned
  <2> QED BY <2>2, <2>4, FreshInputs
<1>4. ASSUME NEW cause \in Causes, NEW status \in {"done", "unanswered"},
             conv' = End(EndRun(s, g, status), g, cause)
      PROVE  InputsKept
  <2>1. PICK e : e = EndRun(s, g, status) /\ Fresh(e)
    BY <1>1, EndRunFresh
  <2>2. PICK r : r = conv' /\ r = End(e, g, cause) /\ Fresh(r)
    BY <1>4, <2>1, EndKeeps
  <2>3. Turned(s, e) /\ e \in Conv
    BY <1>1, <2>1, EndRunTurned DEF Fresh
  <2>4. Turned(conv, r)
    BY <2>2, <2>3, EndTurned, StagedTurned
  <2> QED BY <2>2, <2>4, FreshInputs
<1> QED BY <1>2, <1>3, <1>4

LEMMA EndsInputs ==
  ASSUME ConvInv, InputsInv, NEW g \in Gens,
         \/ PrepareFails(g) \/ NoModel(g) \/ Drain(g) \/ EndAnsweredCutOff(g) \/ EndCutOff(g)
         \/ Aborts(g) \/ Faults(g) \/ SchedulerEnds(g)
  PROVE  InputsKept
<1> DEFINE t == conv.gens[g]
<1>1. CASE PrepareFails(g)
  <2>1. t.phase # "ended" /\ conv' = End(EndFailedRun(conv, g), g, "")
    BY <1>1 DEF PrepareFails, InPhase
  <2> QED BY <2>1, StagedSelf, EndedInputs DEF Causes
<1>2. CASE NoModel(g)
  <2> DEFINE s == IF t.phase = "request" THEN ConvertPartial(conv, g) ELSE conv
  <2>1. t.phase # "ended" /\ conv' = End(EndFailedRun(s, g), g, "nomodel")
    BY <1>2 DEF NoModel, InPhase
  <2>2. Staged(s, g)
    BY <2>1, StagedSelf, StagedConvert
  <2> HIDE DEF s
  <2> QED BY <2>1, <2>2, EndedInputs DEF Causes
<1>3. CASE Drain(g)
  <2>1. t.phase # "ended" /\ conv' = EndAnswered(conv, g)
    BY <1>3 DEF Drain, InPhase
  <2> QED BY <2>1, StagedSelf, EndedInputs
<1>4. CASE EndAnsweredCutOff(g)
  <2>1. t.phase # "ended" /\ conv' = End(EndRun(conv, g, "done"), g, "")
    BY <1>4 DEF EndAnsweredCutOff, InPhase
  <2> QED BY <2>1, StagedSelf, EndedInputs DEF Causes
<1>5. CASE EndCutOff(g)
  <2> DEFINE kept == IF Salvageable(t) THEN ConvertPartial(conv, g) ELSE conv
             cause == IF Salvageable(t) THEN "" ELSE "limit"
             s == Unstarted(kept, g)
  <2>1. t.phase # "ended" /\ conv' = End(EndFailedRun(s, g), g, cause)
    BY <1>5 DEF EndCutOff, InPhase
  <2>2. Staged(kept, g)
    BY <2>1, StagedSelf, StagedConvert
  <2> HIDE DEF kept
  <2>3. Staged(s, g)
    BY <2>2, StagedUnstarted
  <2>4. cause \in Causes
    BY DEF Causes
  <2> HIDE DEF s, cause
  <2> QED BY <2>1, <2>3, <2>4, EndedInputs
<1>6. CASE Aborts(g)
  <2> DEFINE c == ConvertPartial(conv, g)
             unstarted == IF t.phase = "tools" THEN InOrder(Pending(conv), Len(conv.slots)) ELSE <<>>
             s == Results(c, unstarted)
  <2>1. t.phase # "ended" /\ conv' = End(EndRun(s, g, "unanswered"), g, "")
    BY <1>6 DEF Aborts
  <2>2. Staged(c, g)
    BY <2>1, StagedConvert
  <2> HIDE DEF c
  <2>3. Staged(s, g)
    BY <2>2, StagedResults
  <2> HIDE DEF s
  <2> QED BY <2>1, <2>3, EndedInputs DEF Causes
<1>7. CASE Faults(g)
  <2> DEFINE c == ConvertPartial(conv, g)
             s == Unstarted(c, g)
  <2>1. t.phase # "ended" /\ conv' = End(EndRun(s, g, "unanswered"), g, "fault")
    BY <1>7 DEF Faults
  <2>2. Staged(c, g)
    BY <2>1, StagedConvert
  <2> HIDE DEF c
  <2>3. Staged(s, g)
    BY <2>2, StagedUnstarted
  <2> HIDE DEF s
  <2> QED BY <2>1, <2>3, EndedInputs DEF Causes
<1>8. CASE SchedulerEnds(g)
  <2> DEFINE s == Unstarted(conv, g)
  <2>1. t.phase # "ended" /\ conv' = End(EndRun(s, g, "unanswered"), g, "fault")
    BY <1>8 DEF SchedulerEnds
  <2>2. Staged(s, g)
    BY StagedSelf, StagedUnstarted
  <2> HIDE DEF s
  <2> QED BY <2>1, <2>2, EndedInputs DEF Causes
<1> QED BY <1>1, <1>2, <1>3, <1>4, <1>5, <1>6, <1>7, <1>8

-----------------------------------------------------------------------------
(* Steps that leave the inputs alone                                        *)

LEMMA QuietTurned ==
  ASSUME NEW s \in Conv, Sound(s), NEW r, Quietly(s, r)
  PROVE  Turned(s, r)
  BY TurnedQuiet DEF Quietly, Sound, Accounted

\* An unanswered run stays one.
LEMMA UnansweredInputs ==
  ASSUME ConvInv, InputsInv, ConvInv', NEW g \in Gens,
         conv.gens[g].phase \in {"prepare", "request", "retry", "poll", "tools"},
         Quietly(conv, conv'), conv'.run.answered = conv.run.answered
  PROVE  InputsKept
<1>1. conv \in Conv /\ conv.run.task = g /\ Sound(conv)
  BY InvFacts, LiveFacts DEF InputsInv, Sound
<1>2. ~conv.run.answered
  BY <1>1 DEF InputsInv, AnsweredHeld
<1>3. PICK r : r = conv' /\ Quietly(conv, r) /\ r.run.answered = conv.run.answered
  OBVIOUS
<1>4. Fresh(r)
  BY <1>1, <1>2, <1>3, QuietSound DEF Fresh, Quietly
<1>5. Turned(conv, r)
  BY <1>1, <1>3, QuietTurned
<1> QED BY <1>3, <1>4, <1>5, FreshInputs

\* The generations keep their phases.
LEMMA QuietInputs ==
  ASSUME ConvInv, InputsInv, Quietly(conv, conv'), conv'.run = conv.run,
         \A g \in Gens : conv'.gens[g].phase = conv.gens[g].phase
  PROVE  InputsKept
<1>1. conv \in Conv /\ Sound(conv)
  BY InvFacts DEF InputsInv, Sound
<1>2. PICK r : r = conv' /\ Quietly(conv, r)
  OBVIOUS
<1>3. Sound(r)
  BY <1>1, <1>2, QuietSound
<1>4. conv.run.answered => conv.run.task \in Gens
  <2>1. conv.run.answered => Busy(conv)
    BY DEF Busy, NoRun
  <2> QED BY <2>1 DEF ConvInv, RunOwned
<1>5. AnsweredHeld'
  BY <1>4 DEF InputsInv, AnsweredHeld
<1>6. Turned(conv, r)
  BY <1>1, <1>2, QuietTurned
<1> QED BY <1>2, <1>3, <1>5, <1>6 DEF InputsInv, Sound, InputsKept

\* r has the inputs of s.
Stays(s, r) == r.subs = s.subs /\ r.inbox = s.inbox /\ r.run = s.run /\ r.entries = s.entries

LEMMA StaysQuiet ==
  ASSUME NEW s \in Conv, NEW r \in Conv, Stays(s, r)
  PROVE  Quietly(s, r)
  BY SameQuiet DEF Stays

LEMMA RequestStays ==
  ASSUME ConvInv, NEW g \in Gens,
         \/ PrepareReads(g) \/ PrepareBlocks(g) \/ PrepareCommits(g) \/ Deferred(g)
         \/ Retry(g) \/ NextCall(g) \/ ShowPartial(g)
  PROVE  /\ conv.gens[g].phase \in {"prepare", "request", "retry", "poll", "tools"}
         /\ Stays(conv, conv')
<1>1. conv \in Conv
  BY InvFacts
<1>2. CASE PrepareReads(g)
  BY <1>1, <1>2 DEF PrepareReads, InPhase, Stays, Conv
<1>3. CASE PrepareBlocks(g)
  BY <1>1, <1>3 DEF PrepareBlocks, InPhase, CreateCompaction, Moved, Stays, Conv
<1>4. CASE PrepareCommits(g)
  BY <1>1, <1>4 DEF PrepareCommits, InPhase, CreateCompaction, Moved, Stays, Conv
<1>5. CASE Deferred(g)
  BY <1>1, <1>5 DEF Deferred, Answered, InPhase, Moved, Stays, Conv
<1>6. CASE Retry(g)
  BY <1>1, <1>6 DEF Retry, InPhase, Moved, Stays, Conv
<1>7. CASE NextCall(g)
  BY <1>1, <1>7 DEF NextCall, InPhase, Moved, Stays, Conv
<1>8. CASE ShowPartial(g)
  BY <1>1, <1>8 DEF ShowPartial, InPhase, Stays, Conv
<1> QED BY <1>2, <1>3, <1>4, <1>5, <1>6, <1>7, <1>8

\* A request that follows a close keeps the partial of the one it repeats.
LEMMA RequestSends ==
  ASSUME ConvInv, ConvInv', NEW g \in Gens, Request(g), NEW c, c = ConvertPartial(conv, g)
  PROVE  /\ conv.gens[g].phase = "request" /\ Staged(c, g) /\ Stays(c, conv') /\ c.run = conv.run
         /\ conv'.lost = c.lost /\ \A h \in Gens \ {g} : conv'.gens[h] = conv.gens[h]
         /\ DOMAIN conv'.gens = DOMAIN conv.gens /\ conv'.gens[g].phase = "request"
<1>1. /\ conv.gens[g].phase = "request"
      /\ conv' = [c EXCEPT !.partial = "none",
                    !.gens[g] = [@ EXCEPT !.fly = "streaming", !.sent = conv.gens[g].sent + 1]]
  BY DEF Request, InPhase
<1>2. conv \in Conv /\ conv.gens[g] \in Gen /\ Staged(c, g)
  BY <1>1, InvFacts, StagedConvert
<1>3. c \in Conv /\ c.gens = conv.gens
  BY <1>2 DEF Staged, Ready
<1>4. c.run = conv.run
  BY <1>2, ConvertForward DEF Gens
<1>5. Stays(c, conv') /\ conv'.lost = c.lost
  BY <1>1, <1>3 DEF Stays, Conv
<1>6. PICK t, u : /\ t = conv.gens[g] /\ t \in Gen /\ conv'.gens = [conv.gens EXCEPT ![g] = u]
                  /\ \E n : u = [t EXCEPT !.fly = "streaming", !.sent = n]
  <2>1. PICK m : conv'.gens = [conv.gens EXCEPT ![g] = [conv.gens[g] EXCEPT !.fly = "streaming", !.sent = m]]
    BY <1>1, <1>3 DEF Conv
  <2>2. PICK u : u = [conv.gens[g] EXCEPT !.fly = "streaming", !.sent = m]
    OBVIOUS
  <2>3. conv'.gens = [conv.gens EXCEPT ![g] = u]
    BY ONLY <2>1, <2>2
  <2>4. \E n : u = [conv.gens[g] EXCEPT !.fly = "streaming", !.sent = n]
    BY ONLY <2>2
  <2> QED BY ONLY Zenon, <1>2, <2>3, <2>4
<1>7. /\ DOMAIN conv'.gens = DOMAIN conv.gens /\ conv'.gens[g].phase = "request"
      /\ \A h \in Gens \ {g} : conv'.gens[h] = conv.gens[h]
  <2>1. u.phase = t.phase
    BY <1>6 DEF Gen
  <2>2. conv.gens \in Seq(Gen)
    BY <1>2 DEF Conv
  <2> QED BY <1>1, <1>6, <2>1, <2>2 DEF Gens
<1> QED BY <1>1, <1>2, <1>4, <1>5, <1>7

LEMMA RequestInputs ==
  ASSUME ConvInv, InputsInv, ConvInv', NEW g \in Gens,
         \/ PrepareReads(g) \/ PrepareBlocks(g) \/ PrepareCommits(g) \/ Request(g) \/ Deferred(g)
         \/ Retry(g) \/ NextCall(g) \/ ShowPartial(g)
  PROVE  InputsKept
<1>1. PICK r : r = conv' /\ r \in Conv /\ conv \in Conv
  BY InvFacts DEF ConvInv, TypeOK
<1>2. PICK c : c = ConvertPartial(conv, g)
  OBVIOUS
<1>3. /\ conv.gens[g].phase \in {"prepare", "request", "retry", "poll", "tools"}
      /\ Quietly(conv, r) /\ r.run = conv.run
  <2>1. CASE Request(g)
    <3>1. /\ conv.gens[g].phase = "request" /\ Staged(c, g) /\ Stays(c, r) /\ c.run = conv.run
      BY <1>1, <1>2, <2>1, RequestSends
    <3>2. c \in Conv /\ Quietly(conv, c)
      BY <3>1 DEF Staged, Quietly
    <3>3. Quietly(c, r)
      BY <1>1, <3>1, <3>2, StaysQuiet
    <3> QED BY <1>1, <3>1, <3>2, <3>3, QuietTrans DEF Stays
  <2>2. CASE ~Request(g)
    <3>1. conv.gens[g].phase \in {"prepare", "request", "retry", "poll", "tools"} /\ Stays(conv, conv')
      BY <2>2, RequestStays
    <3> QED BY <1>1, <3>1, StaysQuiet DEF Stays
  <2> QED BY <2>1, <2>2
<1> QED BY <1>1, <1>3, UnansweredInputs

LEMMA FrameInputs ==
  ASSUME ConvInv, InputsInv, ConvInv', Stays(conv, conv'),
         \A g \in Gens : conv'.gens[g].phase = conv.gens[g].phase
  PROVE  InputsKept
<1>1. PICK r : r = conv' /\ r \in Conv /\ Stays(conv, r)
  BY DEF ConvInv, TypeOK
<1>2. Quietly(conv, r)
  BY <1>1, InvFacts, StaysQuiet
<1>3. Quietly(conv, conv') /\ conv'.run = conv.run
  BY <1>1, <1>2 DEF Stays
<1> QED BY <1>3, QuietInputs

LEMMA LulledInputs ==
  ASSUME ConvInv, InputsInv, ConvInv', Lulled(conv, conv'), conv'.subs = conv.subs, conv'.inbox = conv.inbox
  PROVE  InputsKept
<1>1. Stays(conv, conv') /\ \A g \in Gens : conv'.gens[g].phase = conv.gens[g].phase
  BY DEF Stays, Lulled, Eased, QuietTask, Gens
<1> QED BY <1>1, FrameInputs

LEMMA ReserveInputs ==
  ASSUME ConvInv, InputsInv, ConvInv', NEW g \in Gens, Reserve(g) \/ AfterRunTaskEnds(g)
  PROVE  InputsKept
<1>1. conv \in Conv /\ conv.gens[g] \in Gen
  BY InvFacts
<1>2. PICK u : /\ u \in {[conv.gens[g] EXCEPT !.status = "running"], [conv.gens[g] EXCEPT !.tasks = FALSE]}
               /\ conv' = WithGen(conv, g, u)
  <2>1. CASE Reserve(g)
    BY <2>1 DEF Reserve, WithGen, Put
  <2>2. CASE AfterRunTaskEnds(g)
    BY <2>2 DEF AfterRunTaskEnds, WithGen, Put
  <2> QED BY <2>1, <2>2
<1>3. u.phase = conv.gens[g].phase
  BY <1>1, <1>2 DEF Gen
<1>4. conv'.gens = Put(conv.gens, g, u) /\ Stays(conv, conv')
  BY <1>1, <1>2 DEF WithGen, Conv, Stays
<1>5. \A h \in Gens : conv'.gens[h].phase = conv.gens[h].phase
  BY <1>3, <1>4 DEF Put, Gens
<1> QED BY <1>4, <1>5, FrameInputs

LEMMA StorePartialInputs ==
  ASSUME ConvInv, InputsInv, ConvInv', StorePartial \/ Compact
  PROVE  InputsKept
<1>1. conv \in Conv
  BY InvFacts
<1>2. Stays(conv, conv') /\ conv'.gens = conv.gens
  BY <1>1 DEF StorePartial, Compact, CreateCompaction, Conv, Stays
<1> QED BY <1>2, FrameInputs

LEMMA ToolInputs ==
  ASSUME ConvInv, InputsInv, ConvInv', NEW c \in DOMAIN conv.slots, Tool(c) \/ ToolFaults(c)
  PROVE  InputsKept
<1>1. conv \in Conv /\ conv' \in Conv /\ c \in Nat /\ Assistant(conv) \in Nat
  BY SlotFacts DEF ConvInv, TypeOK
<1>2. PICK r : r = Results(conv, <<c>>) /\ Quietly(conv, r)
  <2>1. <<c>> \in Seq(Nat)
    BY <1>1
  <2> QED BY <1>1, <2>1, ResultsQuiet
<1>3. /\ conv'.gens = conv.gens /\ conv'.subs = conv.subs /\ conv'.inbox = conv.inbox
      /\ conv'.run = conv.run /\ conv'.entries \in {conv.entries, r.entries}
  BY <1>2, ToolStays
<1>4. CASE conv'.entries = conv.entries
  BY <1>3, <1>4, FrameInputs DEF Stays
<1>5. CASE conv'.entries = r.entries
  <2>1. Quietly(conv, conv')
    BY <1>1, <1>2, <1>3, <1>5 DEF Quietly
  <2> QED BY <1>3, <2>1, QuietInputs
<1> QED BY <1>3, <1>4, <1>5

LEMMA CompactionStays ==
  ASSUME ConvInv, NEW k \in Comps, Compaction(k) \/ CompFaults(k), ~CompPlace(k)
  PROVE  Stays(conv, conv') /\ conv'.gens = conv.gens
<1>1. conv \in Conv
  BY InvFacts
<1>2. CASE CompReserve(k)
  BY <1>1, <1>2 DEF CompReserve, Stays, Conv
<1>3. CASE CompNothing(k) \/ CompNoModel(k) \/ CompCutOff(k) \/ CompAborts(k) \/ CompFaults(k)
  BY <1>1, <1>3 DEF CompNothing, CompNoModel, CompCutOff, CompAborts, CompFaults, EndComp, Stays, Conv
<1>4. CASE \E permanent \in BOOLEAN : CompError(k, permanent)
  BY <1>1, <1>4 DEF CompError, CompMoved, EndComp, Stays, Conv
<1>5. CASE CompRetry(k)
  <2>1. PICK m, n : m = CompMoved(k, "summarize", "running") /\ conv' = [m EXCEPT !.comps[k].attempt = n]
    BY <1>5, Zenon DEF CompRetry
  <2> QED BY <1>1, <2>1 DEF CompMoved, Stays, Conv
<1>6. CASE CompSelect(k)
  <2>1. PICK m, n : m = CompMoved(k, "summarize", "running") /\ conv' = [m EXCEPT !.comps[k].cut = n]
    BY <1>6, Zenon DEF CompSelect
  <2> QED BY <1>1, <2>1 DEF CompMoved, Stays, Conv
<1> QED BY <1>2, <1>3, <1>4, <1>5, <1>6 DEF Compaction

LEMMA WithdrawnInputs ==
  ASSUME ConvInv, InputsInv, ConvInv', (\E i \in DOMAIN conv.subs : AbortSubmission(i)) \/ AbortConversation
  PROVE  InputsKept
<1>1. PICK s, ids : /\ s \in Conv /\ Stays(conv, s) /\ \A g \in Gens : s.gens[g].phase = conv.gens[g].phase
                    /\ \A i \in ids : i \in DOMAIN s.subs => s.subs[i].status = "queued"
                    /\ conv' = Withdraw(s, ids)
  <2>1. ASSUME NEW i \in DOMAIN conv.subs, AbortSubmission(i)
        PROVE  /\ conv \in Conv /\ Stays(conv, conv) /\ conv.subs[i].status = "queued"
               /\ conv' = Withdraw(conv, {i})
    BY <2>1, InvFacts DEF AbortSubmission, Stays
  <2>2. CASE AbortConversation
    <3> DEFINE foreground == {k \in Comps : ~conv.comps[k].background}
               calls == DOMAIN conv.slots
               c == MarkSlots(MarkComps(MarkGens(conv, Gens), foreground), calls)
    <3>1. conv' = WithdrawQueuedInputs(c) /\ conv \in Conv
      BY <2>2, InvFacts DEF AbortConversation
    <3>2. Lulled(conv, c) /\ c \in Conv /\ c.subs = conv.subs /\ c.inbox = conv.inbox
      BY <3>1, MarksLull
    <3> HIDE DEF c, foreground, calls
    <3>3. Stays(conv, c) /\ \A g \in Gens : c.gens[g].phase = conv.gens[g].phase
      BY <3>2 DEF Stays, Lulled, Eased, QuietTask, Gens
    <3>4. \A i \in QueuedInputs(c) : c.subs[i].status = "queued"
      BY <3>2 DEF QueuedInputs, InputsInv, Accounted, QueueSound, ToSet
    <3>5. conv' = Withdraw(c, QueuedInputs(c))
      BY <3>1 DEF WithdrawQueuedInputs
    <3> QED BY <3>2, <3>3, <3>4, <3>5
  <2> QED BY <2>1, <2>2
<1>2. PICK h : h = conv.run.inputs
  OBVIOUS
<1>3. Accounted(s, h) /\ Uncut(s, h)
  <2>1. Quietly(conv, s)
    BY <1>1, InvFacts, StaysQuiet
  <2> QED BY <1>2, <2>1, InvFacts, QuietKeeps DEF InputsInv
<1>4. PICK r : r = Withdraw(s, ids)
  OBVIOUS
<1>5. r \in Conv /\ r.run = s.run /\ r.entries = s.entries /\ Accounted(r, h)
  BY <1>1, <1>3, <1>4, WithdrawKeeps
<1>6. Uncut(r, h)
  BY <1>3, <1>5 DEF Uncut
<1>7. r.gens = s.gens
  BY <1>1, <1>4 DEF Withdraw, Settle, Conv
<1>8. conv.run.answered => conv.run.task \in Gens
  <2>1. conv.run.answered => Busy(conv)
    BY DEF Busy, NoRun
  <2> QED BY <2>1 DEF ConvInv, RunOwned
<1>9. r = conv' /\ r.run = conv.run /\ \A g \in Gens : r.gens[g].phase = conv.gens[g].phase
  BY <1>1, <1>4, <1>5, <1>7 DEF Stays
<1>10. AnsweredHeld'
  BY <1>8, <1>9 DEF InputsInv, AnsweredHeld
<1>11. Turned(conv, r)
  <2>1. QueueSound(s)
    BY <1>3 DEF Accounted
  <2>2. PICK none, out : none = {} /\ out \in {"done", "unanswered"}
    OBVIOUS
  <2>3. Turns(s, r, none, out)
    BY <1>1, <1>4, <2>1, <2>2, WithdrawTurns
  <2>4. Turned(s, r)
    BY <1>1, <2>1, <2>2, <2>3, TurnedBy
  <2> QED BY <1>1, <2>4, TurnedFrom DEF Stays
<1> QED BY <1>2, <1>5, <1>6, <1>9, <1>10, <1>11 DEF InputsInv, InputsKept

-----------------------------------------------------------------------------
(* The steps of a run                                                       *)

LEMMA RetryInputs ==
  ASSUME ConvInv, InputsInv, ConvInv', NEW g \in Gens,
         conv.gens[g].phase \in {"prepare", "request", "retry", "poll", "tools"},
         NEW s, Staged(s, g), NEW poll \in BOOLEAN,
         conv' = [Moved(s, g, "retry", "sleeping") EXCEPT
                    !.partial = "none", !.gens[g] = [@ EXCEPT !.poll = poll]]
  PROVE  InputsKept
<1>1. conv \in Conv /\ s \in Conv /\ conv' \in Conv /\ s.run = conv.run /\ Quietly(conv, s)
  BY InvFacts DEF Staged, Ready, ConvInv, TypeOK
<1>2. Stays(s, conv')
  BY <1>1 DEF Moved, Stays, Conv
<1>3. PICK r : r = conv' /\ r \in Conv /\ Stays(s, r)
  BY <1>1, <1>2
<1>4. Quietly(conv, r)
  BY <1>1, <1>3, StaysQuiet, QuietTrans
<1>5. Quietly(conv, conv') /\ conv'.run.answered = conv.run.answered
  BY <1>1, <1>3, <1>4 DEF Stays
<1> QED BY <1>5, UnansweredInputs

LEMMA ErrorInputs ==
  ASSUME ConvInv, InputsInv, ConvInv', NEW g \in Gens,
         (\E permanent \in BOOLEAN : ModelError(g, permanent)) \/ Interrupted(g)
  PROVE  InputsKept
<1>1. CASE \E permanent \in BOOLEAN : ModelError(g, permanent)
  <2> DEFINE s == Say(conv, g, "error")
             r == [Moved(s, g, "retry", "sleeping") EXCEPT
                     !.partial = "none", !.gens[g] = [@ EXCEPT !.poll = FALSE]]
  <2>1. Answered(g) /\ (conv' = r \/ conv' = End(EndFailedRun(s, g), g, ""))
    BY <1>1, Zenon DEF ModelError
  <2>2. conv.gens[g].phase \in {"request", "poll"} /\ ~SaidBy(conv.entries, g, conv.gens[g].sent)
    <3> HIDE DEF r, s
    <3> QED BY <2>1, AnsweredFacts
  <2>3. Staged(s, g)
    BY <2>2, StagedSay DEF SaidKinds
  <2> HIDE DEF s
  <2>4. CASE conv' = r
    BY <2>2, <2>3, <2>4, RetryInputs
  <2>5. CASE conv' = End(EndFailedRun(s, g), g, "")
    BY <2>2, <2>3, <2>5, EndedInputs DEF Causes
  <2> QED BY <2>1, <2>4, <2>5
<1>2. CASE Interrupted(g)
  <2> DEFINE s == ConvertPartial(conv, g)
             b == conv.gens[g].phase = "poll"
             r == [Moved(s, g, "retry", "sleeping") EXCEPT
                     !.partial = "none", !.gens[g] = [@ EXCEPT !.poll = b]]
  <2>1. conv' = r \/ conv' = End(EndFailedRun(s, g), g, "")
    BY <1>2, Zenon DEF Interrupted
  <2>2. conv.gens[g].phase \in {"request", "poll"} /\ b \in BOOLEAN
    BY <1>2 DEF Interrupted, InPhase
  <2>3. Staged(s, g)
    BY <2>2, StagedConvert
  <2> HIDE DEF s, b
  <2>4. CASE conv' = r
    BY <2>2, <2>3, <2>4, RetryInputs
  <2>5. CASE conv' = End(EndFailedRun(s, g), g, "")
    BY <2>2, <2>3, <2>5, EndedInputs DEF Causes
  <2> QED BY <2>1, <2>4, <2>5
<1> QED BY <1>1, <1>2

LEMMA OverflowInputs ==
  ASSUME ConvInv, InputsInv, ConvInv', NEW g \in Gens, Overflow(g)
  PROVE  InputsKept
<1> DEFINE m == Moved(conv, g, "prepare", "waiting")
           a == Say(m, g, "error")
           c == CreateCompaction(a, g, FALSE)
<1>1. Answered(g) /\ conv' \in Conv
  BY DEF Overflow, ConvInv, TypeOK
<1>2. conv \in Conv /\ g \in DOMAIN conv.gens /\ conv.gens[g].phase \in {"request", "poll"}
  BY <1>1, AnsweredFacts
<1>3. /\ conv' = [c EXCEPT !.partial = "none",
                           !.gens[g] = [@ EXCEPT !.comp = Len(conv.comps) + 1, !.cause = "overflow"]]
  BY DEF Overflow
<1>4. m \in Conv /\ Stays(conv, m) /\ DOMAIN m.gens = DOMAIN conv.gens
  BY <1>2, MovedTyped DEF Phases, Statuses, Stays
<1>5. Quietly(conv, m)
  BY <1>2, <1>4, StaysQuiet
<1> HIDE DEF m
<1>6. Quietly(m, a) /\ a \in Conv /\ a.run = m.run
  <2>1. Quietly(m, a)
    BY <1>2, <1>4, SayQuiet DEF SaidKinds
  <2>2. a.run = m.run
    BY <1>4 DEF Say, AppendEntry, Conv
  <2> QED BY <2>1, <2>2 DEF Quietly
<1> HIDE DEF a
<1>7. Stays(a, conv')
  BY <1>3, <1>6 DEF CreateCompaction, Stays, Conv
<1>8. PICK r : r = conv' /\ r \in Conv /\ Stays(a, r)
  BY <1>1, <1>7
<1>9. Quietly(conv, r)
  BY <1>2, <1>4, <1>5, <1>6, <1>8, StaysQuiet, QuietTrans
<1>10. Quietly(conv, conv') /\ conv'.run.answered = conv.run.answered
  BY <1>4, <1>6, <1>8, <1>9 DEF Stays
<1> QED BY <1>2, <1>10, UnansweredInputs

LEMMA StartToolRoundInputs ==
  ASSUME ConvInv, InputsInv, ConvInv', NEW g \in Gens, NEW n \in 1..MaxCalls, StartToolRound(g, n)
  PROVE  InputsKept
<1> DEFINE t == conv.gens[g]
           m == Moved(conv, g, "tools", "waiting")
           e == [Entry("calls", g, t.sent) EXCEPT !.calls = n]
           a == AppendEntry(m, e)
           turns == IF conv.run.task = g THEN a.run.turns + 1 ELSE a.run.turns
<1>1. PICK slots : conv' = [a EXCEPT !.partial = "none", !.slots = slots,
                                     !.run.turns = IF conv.run.task = g THEN @ + 1 ELSE @]
  BY Zenon DEF StartToolRound
<1>2. Answered(g)
  BY Zenon DEF StartToolRound
<1>3. /\ t \in Gen /\ conv \in Conv /\ g \in DOMAIN conv.gens /\ g \in Nat /\ conv' \in Conv
      /\ t.phase \in {"request", "poll"}
  <2> HIDE DEF a
  <2> QED BY <1>2, AnsweredFacts DEF ConvInv, TypeOK
<1>4. e \in EntryType /\ e.kind \notin {"user", "reset"}
  <2>1. t.sent \in Nat
    BY <1>3 DEF Gen
  <2>2. n \in Nat
    BY BoundsAssumption
  <2> QED BY <1>3, <2>1, <2>2 DEF Entry, EntryType, SaidKinds
<1>5. m \in Conv /\ Stays(conv, m)
  BY <1>3, MovedTyped DEF Phases, Statuses, Stays
<1>6. Quietly(conv, m)
  BY <1>3, <1>5, StaysQuiet
<1> HIDE DEF m, e
<1>7. Quietly(m, a) /\ a.run = m.run /\ a \in Conv
  BY <1>4, <1>5, AppendQuiet DEF Quietly
<1> HIDE DEF a
<1>8. /\ conv'.subs = a.subs /\ conv'.inbox = a.inbox /\ conv'.entries = a.entries
      /\ conv'.run.inputs = a.run.inputs /\ conv'.run.answered = a.run.answered
  <2> DEFINE run == [a.run EXCEPT !.turns = turns]
  <2>1. a.run \in Run
    BY <1>7 DEF Conv
  <2>2. conv' = [a EXCEPT !.partial = "none", !.slots = slots, !.run = run]
    BY <1>1, <1>7 DEF Conv
  <2>3. run.inputs = a.run.inputs /\ run.answered = a.run.answered
    BY <2>1 DEF Run
  <2> HIDE DEF run
  <2> QED BY <1>7, <2>2, <2>3 DEF Conv
<1>9. PICK r : r = conv' /\ r \in Conv
  BY <1>3
<1>10. Quietly(a, r)
  BY <1>7, <1>8, <1>9, SameQuiet
<1>11. Quietly(conv, r)
  BY <1>3, <1>5, <1>6, <1>7, <1>10, QuietTrans
<1>12. Quietly(conv, conv') /\ conv'.run.answered = conv.run.answered
  BY <1>5, <1>7, <1>8, <1>9, <1>11 DEF Stays
<1> QED BY <1>3, <1>12, UnansweredInputs DEF t

LEMMA FinishInputs ==
  ASSUME ConvInv, InputsInv, ConvInv', NEW g \in Gens, Finish(g)
  PROVE  InputsKept
<1> DEFINE m == Moved(conv, g, "drain", "waiting")
           r == [m EXCEPT !.gens[g] = [@ EXCEPT !.tasks = TRUE]]
<1>1. conv' = r \/ conv' = EndAnswered(conv, g)
  BY Zenon DEF Finish
<1>2. conv.gens[g].phase = "finish"
  BY DEF Finish, InPhase
<1>3. CASE conv' = EndAnswered(conv, g)
  <2> HIDE DEF r
  <2> QED BY <1>2, <1>3, StagedSelf, EndedInputs
<1>4. CASE conv' = r
  <2>1. conv \in Conv /\ g \in DOMAIN conv.gens /\ conv.run.task = g /\ Sound(conv)
    BY <1>2, InvFacts, LiveFacts DEF Gens, InputsInv, Sound
  <2>2. m \in Conv /\ Stays(conv, m) /\ m.gens[g].phase = "drain" /\ DOMAIN m.gens = DOMAIN conv.gens
    BY SMTT(30), <2>1, MovedTyped, GoingTyped, InvFacts DEF Phases, Statuses, Stays
  <2> HIDE DEF m
  <2>3. PICK x : x = conv' /\ x = r /\ x \in Conv
    BY <1>4 DEF ConvInv, TypeOK
  <2>4. Stays(m, x) /\ x.gens[g].phase = "drain"
    <3>1. m.gens[g] \in Gen
      BY <2>1, <2>2 DEF Conv
    <3>2. [m.gens[g] EXCEPT !.tasks = TRUE].phase = "drain"
      BY <2>2, <3>1 DEF Gen
    <3> QED BY <2>1, <2>2, <2>3, <3>2 DEF Stays, Conv
  <2> HIDE DEF r
  <2>5. Stays(conv, x)
    BY <2>2, <2>4 DEF Stays
  <2>6. Sound(x)
    BY <2>1, <2>3, <2>5, StaysQuiet, QuietSound
  <2>7. Turned(conv, x)
    BY <2>1, <2>3, <2>5, StaysQuiet, QuietTurned
  <2> QED BY <2>1, <2>3, <2>4, <2>5, <2>6, <2>7 DEF InputsInv, Sound, AnsweredHeld, Stays, InputsKept
<1> QED
  <2> HIDE DEF r
  <2> QED BY <1>1, <1>3, <1>4

LEMMA AnswerInputs ==
  ASSUME ConvInv, InputsInv, ConvInv', NEW g \in Gens, NEW continuation \in BOOLEAN, Answer(g, continuation)
  PROVE  InputsKept
<1> DEFINE s == Say(conv, g, "answer")
<1>1. Answered(g)
  BY DEF Answer
<1>2. /\ conv.gens[g].phase \in {"request", "poll"} /\ conv.gens[g].phase # "ended"
      /\ ~SaidBy(conv.entries, g, conv.gens[g].sent)
  BY <1>1, AnsweredFacts
<1>3. \/ conv' = Continued(s, g) /\ TakesContinuation(conv.inbox)
      \/ conv' = HoldRun(s, g)
      \/ conv' = EndAnswered(s, g)
  BY DEF Answer, Continued
<1>4. Staged(s, g)
  BY <1>2, StagedSay DEF SaidKinds
<1> HIDE DEF s
<1>5. CASE conv' = Continued(s, g) /\ TakesContinuation(conv.inbox)
  <2>1. s.inbox = conv.inbox /\ Owning(s, g) /\ ~s.run.answered
    BY <1>2, <1>4, StagedOwns DEF Staged, Quietly
  <2>2. QueuedInputs(s) = {} /\ ~HasQueuedReset(s.inbox)
    BY <1>5, <2>1 DEF TakesContinuation, QueuedInputs
  <2>3. PICK r : r = conv' /\ r \in Conv /\ r = Continued(s, g)
    BY <1>5 DEF ConvInv, TypeOK
  <2>4. Fresh(r)
    BY <2>1, <2>2, <2>3, ContinuedFresh
  <2>5. Turned(conv, r)
    BY <1>4, <2>1, <2>3, ContinuedTurned, StagedTurned
  <2> QED BY <2>3, <2>4, <2>5, FreshInputs
<1> QED BY <1>2, <1>3, <1>4, <1>5, HoldInputs, EndedInputs

LEMMA FinishToolRoundInputs ==
  ASSUME ConvInv, InputsInv, ConvInv', NEW g \in Gens, FinishToolRound(g)
  PROVE  InputsKept
<1> DEFINE s == IF \E c \in DOMAIN conv.slots : "handoff" \in conv.slots[c].control
                THEN AppendEntry(conv, Entry("handoff", 0, 0)) ELSE conv
<1>1. conv.gens[g].phase = "tools" /\ conv.gens[g].phase # "ended"
  BY DEF FinishToolRound, InPhase
<1>2. \/ conv' = HoldRun(s, g)
      \/ conv' = EndAnswered(s, g)
      \/ conv' = End(EndFailedRun(s, g), g, "")
      \/ conv' = End(AfterTools(s, g), g, "")
  BY DEF FinishToolRound
<1>3. s \in {conv, AppendEntry(conv, Entry("handoff", 0, 0))}
  OBVIOUS
<1> HIDE DEF s
<1>4. Staged(s, g) /\ Owning(s, g) /\ ~s.run.answered
  BY <1>1, <1>3, StagedHandedOff, StagedOwns
<1>5. CASE conv' = End(AfterTools(s, g), g, "")
  <2>1. PICK m : m = AfterTools(s, g) /\ Fresh(m)
    BY <1>4, AfterToolsFresh
  <2>2. PICK r : r = conv' /\ r = End(m, g, "") /\ Fresh(r)
    BY <1>5, <2>1, EndKeeps DEF Causes
  <2>3. Turned(s, m) /\ m \in Conv
    BY <1>4, <2>1, AfterToolsTurned DEF Fresh
  <2>4. Turned(conv, r)
    BY <1>4, <2>2, <2>3, EndTurned, StagedTurned DEF Causes
  <2> QED BY <2>2, <2>4, FreshInputs
<1> QED BY <1>1, <1>2, <1>4, <1>5, HoldInputs, EndedInputs DEF Causes

-----------------------------------------------------------------------------
(* Admissions                                                               *)

\* r has the submissions of s and one more.
Arrives(s, r, sub, id) ==
  /\ id \in Nat /\ id \notin DOMAIN s.subs
  /\ DOMAIN r.subs = DOMAIN s.subs \cup {id} /\ r.subs[id] = sub
  /\ \A i \in DOMAIN s.subs : r.subs[i] = s.subs[i] /\ i < id

LEMMA SubsAre ==
  ASSUME NEW s \in Conv, NEW r, NEW sub \in Sub, r.subs = Append(s.subs, sub)
  PROVE  Arrives(s, r, sub, NextId(s))
<1>1. s.subs \in Seq(Sub) /\ DOMAIN s.subs = 1..Len(s.subs) /\ Len(s.subs) \in Nat
  BY EntriesAre
<1> QED BY <1>1 DEF NextId, Arrives

\* A submission arrives that does not wait.
LEMMA ArrivedKeeps ==
  ASSUME NEW s \in Conv, NEW r \in Conv, NEW h, Accounted(s, h), SubsSound(r), NEW sub \in Sub,
         r.subs = Append(s.subs, sub), r.inbox = s.inbox, sub.status # "queued"
  PROVE  /\ sub.status # "placed" => Accounted(r, h)
         /\ sub.status = "placed" /\ h = <<>> => Accounted(r, <<NextId(s)>>)
<1> DEFINE id == NextId(s)
<1>0. Arrives(s, r, sub, id)
  BY SubsAre
<1> HIDE DEF id
<1>1. /\ id \notin DOMAIN s.subs /\ DOMAIN r.subs = DOMAIN s.subs \cup {id} /\ r.subs[id] = sub
      /\ \A i \in DOMAIN s.subs : r.subs[i] = s.subs[i]
  BY <1>0 DEF Arrives
<1>2. QueueSound(r)
  BY <1>1 DEF Accounted, QueueSound
<1>3. ASSUME sub.status # "placed" PROVE Holds(r, h)
  BY <1>1, <1>3 DEF Accounted, Holds
<1>4. ASSUME sub.status = "placed", h = <<>> PROVE Holds(r, <<id>>)
  <2>1. {i \in DOMAIN s.subs : s.subs[i].status = "placed"} = {}
    BY <1>4 DEF Accounted, Holds, ToSet
  <2>2. {i \in DOMAIN r.subs : r.subs[i].status = "placed"} = {id}
    BY <1>1, <1>4, <2>1
  <2>3. PICK one : one = <<id>> /\ DOMAIN one = {1} /\ one[1] = id
    <3>1. DOMAIN <<id>> = {1} /\ <<id>>[1] = id
      OBVIOUS
    <3> QED BY <3>1
  <2>4. Holds(r, one)
    BY <2>2, <2>3 DEF Holds, ToSet
  <2> QED BY <2>3, <2>4
<1> QED BY <1>2, <1>3, <1>4 DEF Accounted, id

\* A submission arrives that waits in the inbox.
LEMMA QueuedKeeps ==
  ASSUME NEW s \in Conv, NEW d \in Draft, d.kind # "continue", ~Rejected(s, d),
         NEW h, Accounted(s, h), NEW r, r = Queued(s, d)
  PROVE  /\ r \in Conv /\ r.run = s.run /\ r.gens = s.gens /\ Accounted(r, h)
         /\ Uncut(s, h) => Uncut(r, h)
<1> DEFINE id == NextId(s)
           n == Len(s.inbox)
<1>1. PICK sub : sub = [kind |-> d.kind, status |-> "queued", req |-> d.req]
  OBVIOUS
<1>2. PICK a : a = Admitted(s, d, "queued")
  OBVIOUS
<1>3. sub \in Sub /\ a.subs = Append(s.subs, sub)
  BY <1>1, <1>2, AdmittedIs DEF SubStatus
<1>4. PICK item : item = ItemOf(s, d)
  OBVIOUS
<1>5. /\ r \in Conv /\ r.entries = s.entries /\ r.subs = Append(s.subs, sub)
      /\ item \in Item /\ r.inbox = Append(s.inbox, item) /\ r.gens = s.gens /\ r.run = s.run
  BY <1>2, <1>3, <1>4, QueuedIs
<1>6. Arrives(s, r, sub, id)
  BY <1>3, <1>5, SubsAre
<1>7. item.id = id /\ (item.mode \in WriteKinds <=> d.kind \in WriteKinds)
  <2>1. item.id = id /\ item.mode = ModeOf(d)
    BY <1>4 DEF ItemOf
  <2>2. ModeOf(d) \in WriteKinds <=> d.kind \in WriteKinds
    BY DEF ModeOf, Draft, WriteKinds
  <2> QED BY <2>1, <2>2
<1> HIDE DEF id
<1>8. /\ id \in Nat /\ id \notin DOMAIN s.subs /\ DOMAIN r.subs = DOMAIN s.subs \cup {id}
       /\ r.subs[id] = sub /\ \A i \in DOMAIN s.subs : r.subs[i] = s.subs[i] /\ i < id
  BY <1>6 DEF Arrives
<1>9. /\ DOMAIN s.inbox = 1..n /\ n \in Nat /\ DOMAIN r.inbox = 1..(n + 1) /\ r.inbox[n + 1] = item
      /\ \A k \in 1..n : r.inbox[k] = s.inbox[k]
  BY <1>5, EntriesAre
<1> HIDE DEF n
<1>10. SubsSound(r)
  <2>1. sub.req # 0 => \A i \in DOMAIN s.subs : s.subs[i].req # sub.req
    BY <1>1 DEF Rejected
  <2>2. PICK users : users = {"user"}
    OBVIOUS
  <2>3. Adds(s.entries, r.entries, users)
    BY <1>5, AddsSame
  <2> QED BY <1>1, <1>3, <1>5, <2>1, <2>2, <2>3, SubsArrive DEF Accounted
<1>11. QueueSound(r)
  <2>1. ASSUME NEW k \in DOMAIN r.inbox
        PROVE  LET it == r.inbox[k] IN
               /\ it.id \in DOMAIN r.subs /\ r.subs[it.id].status = "queued"
               /\ it.mode \in WriteKinds <=> r.subs[it.id].kind \in WriteKinds
    <3>1. CASE k = n + 1
      BY <1>1, <1>8, <1>7, <1>9, <3>1
    <3>2. CASE k \in 1..n
      BY <1>8, <1>9, <3>2 DEF Accounted, QueueSound
    <3> QED BY <1>9, <3>1, <3>2
  <2>2. ASSUME NEW j \in DOMAIN r.inbox, NEW k \in DOMAIN r.inbox, j < k
        PROVE  r.inbox[j].id < r.inbox[k].id
    <3>1. j \in 1..n
      BY <1>9, <2>2
    <3>2. CASE k = n + 1
      <4>1. s.inbox[j].id \in DOMAIN s.subs
        BY <1>9, <3>1 DEF Accounted, QueueSound
      <4> QED BY <1>8, <1>7, <1>9, <3>1, <3>2, <4>1
    <3>3. CASE k \in 1..n
      BY <1>9, <2>2, <3>1, <3>3 DEF Accounted, QueueSound
    <3> QED BY <1>9, <3>2, <3>3
  <2>3. ASSUME NEW i \in DOMAIN r.subs, r.subs[i].status = "queued"
        PROVE  \E k \in DOMAIN r.inbox : r.inbox[k].id = i
    <3>1. CASE i = id
      <4>1. n + 1 \in DOMAIN r.inbox
        BY <1>9
      <4> QED BY <1>7, <1>9, <3>1, <4>1
    <3>2. CASE i \in DOMAIN s.subs
      <4>1. PICK k \in DOMAIN s.inbox : s.inbox[k].id = i
        BY <1>8, <2>3, <3>2 DEF Accounted, QueueSound
      <4> QED BY <1>9, <4>1
    <3> QED BY <1>8, <2>3, <3>1, <3>2
  <2> QED BY <2>1, <2>2, <2>3 DEF QueueSound
<1>12. Holds(r, h)
  BY <1>1, <1>8 DEF Accounted, Holds
<1> QED BY <1>5, <1>10, <1>11, <1>12 DEF Accounted, Uncut

\* The entry of a write that is placed at once.
LEMMA DirectKeeps ==
  ASSUME NEW s \in Conv, NEW d \in Draft, d.kind \in WriteKinds, ~Rejected(s, d), NEW h, Accounted(s, h),
         NEW status \in {"done", "unanswered"}, NEW a, a = Admitted(s, d, status),
         NEW r, \/ r = a
                \/ \E e \in EntryType : e.kind = d.kind /\ r = AppendEntry(a, e)
  PROVE  /\ r \in Conv /\ r.run = s.run /\ r.gens = s.gens /\ Accounted(r, h)
         /\ d.kind # "reset" /\ Uncut(s, h) => Uncut(r, h)
<1>1. PICK sub : sub = [kind |-> d.kind, status |-> status, req |-> d.req]
  OBVIOUS
<1>2. /\ a \in Conv /\ a.entries = s.entries /\ a.inbox = s.inbox /\ sub \in Sub
      /\ a.subs = Append(s.subs, sub) /\ a.run = s.run /\ a.gens = s.gens
  <2>1. status \in SubStatus
    BY DEF SubStatus
  <2> QED BY ONLY s \in Conv, d \in Draft, a = Admitted(s, d, status), <1>1, <2>1, AdmittedIs
<1>3. PICK users, both : users = {"user"} /\ both = {"user", "reset"}
  OBVIOUS
<1>4. d.kind \notin users /\ (d.kind # "reset" => d.kind \notin both)
  BY <1>3 DEF WriteKinds
<1>5. /\ r \in Conv /\ r.inbox = s.inbox /\ r.subs = a.subs /\ r.run = s.run /\ r.gens = s.gens
      /\ Adds(s.entries, r.entries, users) /\ (d.kind # "reset" => Adds(s.entries, r.entries, both))
  <2>1. CASE r = a
    BY <1>2, <2>1, AddsSame
  <2>2. ASSUME NEW e \in EntryType, e.kind = d.kind, r = AppendEntry(a, e)
        PROVE  <1>5!:
    <3>1. /\ r \in Conv /\ r.entries = Append(s.entries, e) /\ r.inbox = s.inbox /\ r.subs = a.subs
          /\ r.run = s.run /\ r.gens = s.gens
      <4>1. /\ r \in Conv /\ r.entries = Append(a.entries, e) /\ r.inbox = a.inbox /\ r.subs = a.subs
            /\ r.run = a.run /\ r.gens = a.gens
        BY ONLY SMTT(30), <1>2, <2>2, AppendIs
      <4> QED BY <1>2, <4>1
    <3>2. Adds(s.entries, r.entries, users)
      BY <1>4, <2>2, <3>1, AddsOne
    <3>3. d.kind # "reset" => Adds(s.entries, r.entries, both)
      BY <1>4, <2>2, <3>1, AddsOne
    <3> QED BY <3>1, <3>2, <3>3
  <2> QED BY <2>1, <2>2
<1>6. SubsSound(r)
  <2>1. sub.req # 0 => \A i \in DOMAIN s.subs : s.subs[i].req # sub.req
    BY <1>1 DEF Rejected
  <2>2. sub.kind # "input" /\ sub.status # "placed"
    BY <1>1 DEF WriteKinds
  <2> QED BY <1>2, <1>3, <1>5, <2>1, <2>2, SubsArrive DEF Accounted
<1>7. Accounted(r, h)
  BY <1>1, <1>2, <1>5, <1>6, ArrivedKeeps
<1>8. ASSUME d.kind # "reset", Uncut(s, h) PROVE Uncut(r, h)
  <2>1. \A p \in DOMAIN r.entries : r.entries[p].kind \in both => p \in DOMAIN s.entries /\ r.entries[p] = s.entries[p]
    BY <1>5, <1>8, AddsAre
  <2> QED BY <1>3, <1>8, <2>1 DEF Uncut
<1> QED BY <1>5, <1>7, <1>8

\* A run that starts with what the boundary placed and one more input.
LEMMA OneMoreKeeps ==
  ASSUME NEW s \in Conv, NEW users \in Seq(Nat), NEW id \in Nat, NEW first, first = <<id>>,
         Accounted(s, first \o users), Uncut(s, users), NoEntry(s, id)
  PROVE  /\ Append(users, id) \in Seq(Nat)
         /\ Accounted(s, Append(users, id)) /\ Uncut(s, Append(users, id))
<1> DEFINE n == Len(users)
<1>1. PICK a, b : a = first \o users /\ b = Append(users, id)
  OBVIOUS
<1>2. /\ n \in Nat /\ DOMAIN users = 1..n /\ b \in Seq(Nat) /\ DOMAIN b = 1..(n + 1) /\ b[n + 1] = id
      /\ \A k \in 1..n : b[k] = users[k]
  BY <1>1
<1>3. Len(a) = n + 1 /\ DOMAIN a = 1..(n + 1) /\ a[1] = id /\ \A k \in 1..n : a[k + 1] = users[k]
  <2>1. first \in Seq(Nat) /\ Len(first) = 1 /\ first[1] = id
    OBVIOUS
  <2>2. a \in Seq(Nat) /\ Joins(a, first, users)
    BY <1>1, <2>1, ConcatJoins
  <2>3. Len(a) = n + 1 /\ a[1] = id /\ \A k \in 1..n : a[1 + k] = users[k]
    BY <2>1, <2>2 DEF Joins
  <2> QED BY <1>2, <2>2, <2>3
<1> HIDE DEF n
<1>4. \A j, k \in DOMAIN a : a[j] = a[k] => j = k
  BY <1>1 DEF Accounted, Holds
<1>5. ToSet(a) = ToSet(b)
  <2>1. ASSUME NEW x \in ToSet(a) PROVE x \in ToSet(b)
    <3>1. PICK j \in 1..(n + 1) : a[j] = x
      BY <1>3 DEF ToSet
    <3>2. CASE j = 1
      <4>1. b[n + 1] = x /\ n + 1 \in DOMAIN b
        BY <1>2, <1>3, <3>1, <3>2
      <4> QED BY <4>1 DEF ToSet
    <3>3. CASE j # 1
      <4>1. PICK k \in 1..n : j = k + 1
        BY <1>2, <3>3
      <4>2. b[k] = x /\ k \in DOMAIN b
        BY <1>2, <1>3, <3>1, <4>1
      <4> QED BY <4>2 DEF ToSet
    <3> QED BY <3>2, <3>3
  <2>2. ASSUME NEW x \in ToSet(b) PROVE x \in ToSet(a)
    <3>1. PICK j \in 1..(n + 1) : b[j] = x
      BY <1>2 DEF ToSet
    <3>2. CASE j = n + 1
      <4>1. a[1] = x /\ 1 \in DOMAIN a
        BY <1>2, <1>3, <3>1, <3>2
      <4> QED BY <4>1 DEF ToSet
    <3>3. CASE j # n + 1
      <4>1. j \in 1..n /\ a[j + 1] = x /\ j + 1 \in DOMAIN a
        BY <1>2, <1>3, <3>1, <3>3
      <4> QED BY <4>1 DEF ToSet
    <3> QED BY <3>2, <3>3
  <2> QED BY <2>1, <2>2
<1>6. ASSUME NEW j \in DOMAIN b, NEW k \in DOMAIN b, b[j] = b[k] PROVE j = k
  <2>1. ASSUME NEW i \in 1..n PROVE users[i] # id
    <3>1. a[i + 1] = users[i] /\ i + 1 \in DOMAIN a /\ 1 \in DOMAIN a /\ i + 1 # 1
      BY <1>2, <1>3
    <3> QED BY <1>3, <1>4, <3>1
  <2>2. CASE j \in 1..n /\ k \in 1..n
    <3>1. a[j + 1] = a[k + 1] /\ j + 1 \in DOMAIN a /\ k + 1 \in DOMAIN a
      BY <1>2, <1>3, <1>6, <2>2
    <3>2. j + 1 = k + 1
      BY <1>4, <3>1
    <3> QED BY <1>2, <2>2, <3>2
  <2>3. CASE j = n + 1 /\ k = n + 1
    BY <2>3
  <2>4. CASE j \in 1..n /\ k = n + 1
    BY <1>2, <1>6, <2>1, <2>4
  <2>5. CASE j = n + 1 /\ k \in 1..n
    BY <1>2, <1>6, <2>1, <2>5
  <2>6. j \in 1..n \/ j = n + 1
    BY <1>2
  <2>7. k \in 1..n \/ k = n + 1
    BY <1>2
  <2> QED BY <2>2, <2>3, <2>4, <2>5, <2>6, <2>7
<1>7. Accounted(s, b)
  BY <1>1, <1>5, <1>6 DEF Accounted, Holds
<1>8. Uncut(s, b)
  <2> SUFFICES ASSUME NEW k \in DOMAIN b, NEW p \in DOMAIN s.entries, NEW r \in DOMAIN s.entries,
                      s.entries[p].kind = "user", s.entries[p].n = b[k], s.entries[r].kind = "reset"
               PROVE  r < p
    BY DEF Uncut
  <2>1. k \in 1..n
    <3>1. k # n + 1
      BY <1>2 DEF NoEntry
    <3> QED BY <1>2, <3>1
  <2> QED BY <1>2, <2>1 DEF Uncut
<1> QED BY <1>1, <1>2, <1>7, <1>8

LEMMA NextFresh ==
  ASSUME NEW c \in Conv, NEW users \in Seq(Nat), users # <<>>, c.run = NoRun, Accounted(c, users), Uncut(c, users)
  PROVE  Fresh(StartRun(c, users, FALSE))
<1>1. PICK b : b = [conv |-> c, users |-> users]
  OBVIOUS
<1>2. b.conv = c /\ b.users = users
  BY <1>1
<1>3. PICK r : r = StartNext(b, FALSE) /\ Fresh(r)
  BY <1>2, StartNextKeeps
<1> QED BY <1>2, <1>3 DEF StartNext

\* No entry places the submission that arrives.
LEMMA NoneYet ==
  ASSUME NEW s \in Conv, SubsSound(s), NEW id, id \notin DOMAIN s.subs
  PROVE  NoEntry(s, id)
  BY DEF NoEntry, SubsSound

\* A submission of an idle conversation that runs at once.
LEMMA RunNowFresh ==
  ASSUME NEW s \in Conv, NEW h, h = <<>>, Accounted(s, h), s.run = NoRun, NEW d \in Draft, ~Rejected(s, d),
         NEW a, a = Admitted(s, d, "placed"), NEW r,
         \/ d.kind = "continue" /\ LET b == ApplyBoundary(a, "final") IN
                                   r = StartRun(b.conv, Append(b.users, NextId(s)), FALSE)
         \/ d.kind = "input" /\ r = StartRun(AppendEntry(a, Entry("user", NextId(s), 0)), <<NextId(s)>>, FALSE)
  PROVE  Fresh(r)
<1>1. PICK id : id = NextId(s)
  OBVIOUS
<1>2. PICK sub : sub = [kind |-> d.kind, status |-> "placed", req |-> d.req]
  OBVIOUS
<1>3. /\ a \in Conv /\ a.entries = s.entries /\ a.inbox = s.inbox /\ sub \in Sub
      /\ a.subs = Append(s.subs, sub) /\ a.run = s.run
  <2>1. "placed" \in SubStatus
    BY DEF SubStatus
  <2> QED BY ONLY s \in Conv, d \in Draft, a = Admitted(s, d, "placed"), <1>2, <2>1, AdmittedIs
<1>4. id \in Nat /\ id \notin DOMAIN s.subs
  BY <1>1, <1>3, SubsAre DEF Arrives
<1>5. NoEntry(s, id) /\ SubsSound(s)
  BY <1>4, NoneYet DEF Accounted
<1>6. sub.req # 0 => \A i \in DOMAIN s.subs : s.subs[i].req # sub.req
  BY <1>2 DEF Rejected
<1>7. PICK one : one = <<id>> /\ one \in Seq(Nat)
  <2>1. <<id>> \in Seq(Nat)
    BY <1>4
  <2> QED BY <2>1
<1>8. one # <<>> /\ DOMAIN one = {1} /\ one[1] = id
  BY <1>7
<1>9. CASE d.kind = "continue"
  <2>1. PICK b : b = ApplyBoundary(a, "final") /\ r = StartRun(b.conv, Append(b.users, id), FALSE)
    BY <1>1, <1>9
  <2>2. SubsSound(a)
    <3>1. PICK users : users = {"user"}
      OBVIOUS
    <3>2. Adds(s.entries, a.entries, users)
      BY <1>3, AddsSame
    <3>3. sub.kind # "input" /\ sub.kind \notin WriteKinds
      BY <1>2, <1>9 DEF WriteKinds
    <3> QED BY <1>3, <1>5, <1>6, <3>1, <3>2, <3>3, SubsArrive
  <2>3. Accounted(a, one)
    <3>1. sub.status = "placed"
      BY <1>2
    <3> QED BY <1>1, <1>3, <1>7, <2>2, <3>1, ArrivedKeeps
  <2>4. /\ b.conv \in Conv /\ b.users \in Seq(Nat) /\ b.conv.run = a.run
        /\ Accounted(b.conv, one \o b.users) /\ Uncut(b.conv, b.users) /\ NoneEntered(a, b.conv, ToSet(one))
    <3>1. a \in Conv /\ one \in Seq(Nat) /\ Accounted(a, one) /\ b = ApplyBoundary(a, "final")
      BY <1>3, <1>7, <2>1, <2>3
    <3> QED BY ONLY <3>1, BoundaryKeeps
  <2>5. NoEntry(b.conv, id)
    <3>1. NoEntry(a, id)
      BY <1>3, <1>5 DEF NoEntry
    <3>2. id \in ToSet(one)
      BY <1>8 DEF ToSet
    <3> QED BY <2>4, <3>1, <3>2 DEF NoneEntered
  <2>6. PICK c, us : c = b.conv /\ us = b.users /\ c \in Conv /\ us \in Seq(Nat)
    BY <2>4
  <2>7. PICK all : all = Append(us, id) /\ all \in Seq(Nat) /\ Accounted(c, all) /\ Uncut(c, all)
    BY <1>4, <1>7, <2>4, <2>5, <2>6, OneMoreKeeps
  <2>8. all # <<>>
    BY <1>4, <2>6, <2>7
  <2> QED BY <1>3, <2>1, <2>4, <2>6, <2>7, <2>8, NextFresh
<1>10. CASE d.kind = "input"
  <2>1. PICK e : e = Entry("user", id, 0) /\ e \in EntryType /\ e.kind = "user" /\ e.n = id
    <3>1. Entry("user", id, 0) \in EntryType
      BY <1>4, EntryTyped
    <3>2. Entry("user", id, 0).kind = "user" /\ Entry("user", id, 0).n = id
      BY DEF Entry
    <3> QED BY <3>1, <3>2
  <2>2. PICK c : c = AppendEntry(a, e) /\ r = StartRun(c, one, FALSE)
    BY <1>1, <1>7, <1>10, <2>1
  <2>3. /\ c \in Conv /\ c.entries = Append(s.entries, e) /\ c.inbox = s.inbox
        /\ c.subs = Append(s.subs, sub) /\ c.run = NoRun
    <3>1. c \in Conv /\ c.entries = Append(a.entries, e) /\ c.inbox = a.inbox /\ c.subs = a.subs /\ c.run = a.run
      BY ONLY SMTT(30), <1>3, <2>1, <2>2, AppendIs
    <3> QED BY <1>3, <3>1
  <2>4. SubsSound(c)
    <3>1. sub.kind \notin WriteKinds /\ sub.status # "queued"
      BY <1>2, <1>10 DEF WriteKinds
    <3> QED BY <1>1, <1>3, <1>5, <1>6, <2>1, <2>3, <3>1, SubsArrive
  <2>5. Accounted(c, one)
    <3>1. sub.status = "placed"
      BY <1>2
    <3> QED BY <1>1, <1>3, <1>7, <2>3, <2>4, <3>1, ArrivedKeeps
  <2>6. Uncut(c, one)
    <3>1. DOMAIN s.entries = 1..Len(s.entries) /\ Len(s.entries) \in Nat /\ s.entries \in Seq(EntryType)
      BY EntriesAre
    <3>2. /\ DOMAIN c.entries = 1..(Len(s.entries) + 1) /\ c.entries[Len(s.entries) + 1] = e
          /\ \A p \in DOMAIN s.entries : c.entries[p] = s.entries[p]
      BY <2>1, <2>3, <3>1
    <3> SUFFICES ASSUME NEW p \in DOMAIN c.entries, NEW q \in DOMAIN c.entries,
                        c.entries[p].kind = "user", c.entries[p].n = id, c.entries[q].kind = "reset"
                 PROVE  q < p
      BY <1>8 DEF Uncut
    <3>3. p = Len(s.entries) + 1
      BY <1>5, <3>1, <3>2 DEF NoEntry
    <3>4. q # p
      BY <2>1
    <3> QED BY <3>1, <3>2, <3>3, <3>4
  <2> QED BY <1>7, <1>8, <2>2, <2>3, <2>5, <2>6, NextFresh
<1> QED BY <1>9, <1>10


-----------------------------------------------------------------------------
(* What a submission does to the inputs                                     *)

\* The run goes on as it was, or another state of the conversation is fresh.
Taken(s, r) ==
  \/ r \in Conv /\ r.run = s.run /\ r.gens = s.gens /\ Sound(r)
  \/ Fresh(r)

LEMMA AdmitKeeps ==
  ASSUME NEW s \in Conv, Sound(s), NEW d \in Draft, ~Rejected(s, d), NEW r, r = Admit(s, d)
  PROVE  Taken(s, r)
<1> DEFINE placed == ApplyBoundary(Admitted(s, d, "placed"), "final")
           Shown == d.kind = "display" /\ r = AppendEntry(Admitted(s, d, "done"), Entry("display", NextId(s), 0))
           Continues == /\ d.kind = "continue" /\ ~Busy(s)
                        /\ r = StartRun(placed.conv, Append(placed.users, NextId(s)), FALSE)
           Waits == d.kind # "continue" /\ Busy(s) /\ r = Queued(s, d)
           Begins == d.kind # "continue" /\ ~Busy(s) /\ r = StartNext(ApplyBoundary(Queued(s, d), "final"), FALSE)
           Writes == /\ d.kind \in WriteKinds /\ ~Busy(s)
                     /\ r = IF IsStale(s, ItemOf(s, d)) THEN Admitted(s, d, "unanswered")
                            ELSE AppendEntry(Admitted(s, d, "done"), Entry(d.kind, NextId(s), d.cut))
           Runs == /\ d.kind = "input" /\ ~Busy(s)
                   /\ r = StartRun(AppendEntry(Admitted(s, d, "placed"), Entry("user", NextId(s), 0)),
                                   <<NextId(s)>>, FALSE)
<1>1. PICK h : h = s.run.inputs /\ Accounted(s, h) /\ Uncut(s, h)
  BY DEF Sound
<1>2. ~Busy(s) => s.run = NoRun /\ h = <<>> /\ ~s.run.answered
  BY <1>1 DEF Busy, NoRun
<1>3. PICK id : id = NextId(s) /\ id \in Nat
  BY DEF NextId, Conv
<1>4. CASE Shown
  <2>1. PICK e : e = Entry("display", id, 0) /\ e \in EntryType /\ e.kind = d.kind
    <3>1. 0 \in Nat /\ "display" \in SaidKinds \cup {"user", "result", "handoff", "continuation"} \cup WriteKinds
      BY DEF WriteKinds
    <3>2. PICK e : e = Entry("display", id, 0)
      OBVIOUS
    <3>3. e \in EntryType /\ e.kind = "display"
      BY ONLY <1>3, <3>1, <3>2, EntryTyped
    <3>4. d.kind = "display"
      BY <1>4
    <3> QED BY ONLY <3>2, <3>3, <3>4
  <2>2. PICK a : a = Admitted(s, d, "done")
    OBVIOUS
  <2>3. r = AppendEntry(a, e) /\ d.kind \in WriteKinds /\ "done" \in {"done", "unanswered"}
    BY <1>3, <1>4, <2>1, <2>2 DEF WriteKinds
  <2>4. /\ r \in Conv /\ r.run = s.run /\ r.gens = s.gens /\ Accounted(r, h)
        /\ d.kind # "reset" /\ Uncut(s, h) => Uncut(r, h)
    BY ONLY s \in Conv, d \in Draft, ~Rejected(s, d), <1>1, <2>1, <2>2, <2>3, DirectKeeps
  <2> QED BY <1>1, <1>4, <2>4 DEF Taken, Sound
<1>5. CASE Continues
  <2>1. PICK a : a = Admitted(s, d, "placed")
    OBVIOUS
  <2>2. Fresh(r)
    BY <1>1, <1>2, <1>5, <2>1, RunNowFresh
  <2> QED BY <2>2 DEF Taken
<1>6. CASE Waits
  BY <1>1, <1>6, QueuedKeeps DEF Taken, Sound
<1>7. CASE Begins
  <2>1. PICK q : q = Queued(s, d)
    OBVIOUS
  <2>2. q \in Conv /\ q.run = s.run /\ Accounted(q, h)
    BY <1>1, <1>7, <2>1, QueuedKeeps
  <2>3. h \in Seq(Nat)
    <3>1. <<>> \in Seq(Nat)
      OBVIOUS
    <3> QED BY <1>2, <1>7, <3>1
  <2>4. PICK b : b = ApplyBoundary(q, "final") /\ r = StartNext(b, FALSE)
    BY <1>7, <2>1
  <2>5. /\ b.conv \in Conv /\ b.users \in Seq(Nat) /\ b.conv.run = q.run
        /\ Accounted(b.conv, h \o b.users) /\ Uncut(b.conv, b.users)
    BY ONLY <2>2, <2>3, <2>4, BoundaryKeeps
  <2>6. h \o b.users = b.users
    <3>1. PICK us \in Seq(Nat) : us = b.users
      BY <2>5
    <3> QED BY <1>2, <1>7, <3>1, ConcatNothing
  <2>7. Fresh(r)
    <3>1. b.conv.run = NoRun /\ Accounted(b.conv, b.users) /\ FALSE \in BOOLEAN
      BY <1>2, <1>7, <2>2, <2>5, <2>6
    <3> QED BY ONLY <2>4, <2>5, <3>1, StartNextKeeps
  <2> QED BY <2>7 DEF Taken
<1>8. CASE Writes
  <2>1. r \in Conv /\ r.run = s.run /\ r.gens = s.gens /\ Accounted(r, h)
    <3>1. CASE IsStale(s, ItemOf(s, d))
      <4>1. "unanswered" \in {"done", "unanswered"} /\ r = Admitted(s, d, "unanswered")
        BY <1>8, <3>1
      <4> QED BY ONLY s \in Conv, d \in Draft, ~Rejected(s, d), <1>1, <1>8, <4>1, DirectKeeps
    <3>2. CASE ~IsStale(s, ItemOf(s, d))
      <4>1. PICK e : e = Entry(d.kind, id, d.cut) /\ e \in EntryType /\ e.kind = d.kind
        <5>1. d.cut \in Nat /\ d.kind \in SaidKinds \cup {"user", "result", "handoff", "continuation"} \cup WriteKinds
          BY <1>8 DEF Draft
        <5> QED BY <1>3, <5>1, EntryTyped
      <4>2. PICK a : a = Admitted(s, d, "done")
        OBVIOUS
      <4>3. r = AppendEntry(a, e) /\ "done" \in {"done", "unanswered"} /\ d.kind \in WriteKinds
        BY <1>3, <1>8, <3>2, <4>1, <4>2
      <4> QED BY ONLY s \in Conv, d \in Draft, ~Rejected(s, d), <1>1, <4>1, <4>2, <4>3, DirectKeeps
    <3> QED BY <3>1, <3>2
  <2>2. Uncut(r, h)
    BY <1>2, <1>8, NothingUncut
  <2> QED BY <1>1, <2>1, <2>2 DEF Taken, Sound
<1>9. CASE Runs
  <2>1. PICK a : a = Admitted(s, d, "placed")
    OBVIOUS
  <2>2. Fresh(r)
    BY <1>1, <1>2, <1>9, <2>1, RunNowFresh
  <2> QED BY <2>2 DEF Taken
<1>10. d.kind = "continue" => ~Busy(s)
  BY DEF Rejected
<1>11. Shown \/ Continues \/ Waits \/ Begins \/ Writes \/ Runs
  <2>1. AdmitsAs(s, d, r)
    BY <1>10, AdmitCases
  <2> QED BY ONLY <2>1 DEF AdmitsAs
<1> HIDE DEF Shown, Continues, Waits, Begins, Writes, Runs
<1> QED BY <1>4, <1>5, <1>6, <1>7, <1>8, <1>9, <1>11

LEMMA ArrivedQueue ==
  ASSUME NEW s \in Conv, QueueSound(s), NEW a, NEW sub \in Sub, a.subs = Append(s.subs, sub),
         a.inbox = s.inbox, sub.status # "queued"
  PROVE  QueueSound(a)
<1>1. PICK id : Arrives(s, a, sub, id)
  BY SubsAre
<1> QED BY <1>1 DEF Arrives, QueueSound

\* A submission that does not wait.
LEMMA AdmittedTurned ==
  ASSUME NEW s \in Conv, QueueSound(s), NEW d \in Draft, NEW status \in {"done", "unanswered", "placed"},
         d.kind \in WriteKinds \/ status = "placed", NEW a, a = Admitted(s, d, status)
  PROVE  /\ a \in Conv /\ QueueSound(a) /\ Entered(s, a)
         /\ \A r : r.subs = a.subs /\ r.inbox = a.inbox => Turned(s, r)
<1>1. PICK sub : sub = [kind |-> d.kind, status |-> status, req |-> d.req]
  OBVIOUS
<1>2. a \in Conv /\ a.inbox = s.inbox /\ sub \in Sub /\ a.subs = Append(s.subs, sub)
  <2>1. status \in SubStatus
    BY DEF SubStatus
  <2> QED BY ONLY s \in Conv, d \in Draft, a = Admitted(s, d, status), <1>1, <2>1, AdmittedIs
<1>3. QueueSound(a)
  BY <1>1, <1>2, ArrivedQueue
<1>4. Entered(s, a)
  BY <1>1, <1>2 DEF Entered
<1>5. ASSUME NEW r, r.subs = a.subs, r.inbox = a.inbox PROVE Turned(s, r)
  <2>1. PICK out \in {"done", "unanswered"} : TRUE
    OBVIOUS
  <2>2. Turns(a, r, {}, out)
    BY <1>2, <1>3, <1>5, TurnsSame
  <2>3. NoneDropped(a, r)
    BY <1>5 DEF NoneDropped
  <2> QED BY <1>2, <1>3, <1>4, <2>2, <2>3 DEF Turned
<1> QED BY <1>2, <1>3, <1>4, <1>5

\* A submission that joins the queue.
LEMMA QueuedTurned ==
  ASSUME NEW s \in Conv, NEW d \in Draft, d.kind # "continue", ~Rejected(s, d),
         NEW h, Accounted(s, h), NEW q, q = Queued(s, d)
  PROVE  /\ q \in Conv /\ QueueSound(q) /\ Entered(s, q) /\ Accounted(q, h)
         /\ \A r, out : out \in {"done", "unanswered"} /\ Turns(q, r, {}, out) /\ NoneDropped(q, r)
                         => Turned(s, r)
<1>1. PICK sub : sub = [kind |-> d.kind, status |-> "queued", req |-> d.req]
  OBVIOUS
<1>2. PICK item : item = ItemOf(s, d)
  OBVIOUS
<1>3. PICK a : a = Admitted(s, d, "queued")
  OBVIOUS
<1>4. sub \in Sub /\ a.subs = Append(s.subs, sub)
  BY <1>1, <1>3, AdmittedIs DEF SubStatus
<1>5. q \in Conv /\ q.subs = Append(s.subs, sub) /\ item \in Item /\ q.inbox = Append(s.inbox, item)
  BY <1>2, <1>3, <1>4, QueuedIs
<1>6. item.id = Len(s.subs) + 1
  BY <1>2 DEF ItemOf, NextId
<1>7. Accounted(q, h) /\ QueueSound(q)
  BY QueuedKeeps DEF Accounted
<1>8. Entered(s, q)
  BY <1>1, <1>4, <1>5, <1>6 DEF Entered
<1>9. ASSUME NEW r, NEW out \in {"done", "unanswered"}, Turns(q, r, {}, out), NoneDropped(q, r)
      PROVE  Turned(s, r)
  BY <1>5, <1>7, <1>8, <1>9 DEF Turned
<1> QED BY <1>5, <1>7, <1>8, <1>9

\* A submission to continue, before its boundary.
LEMMA ContinueAccounted ==
  ASSUME NEW s \in Conv, NEW h, h = <<>>, Accounted(s, h), NEW d \in Draft, d.kind = "continue", ~Rejected(s, d),
         NEW a, a = Admitted(s, d, "placed")
  PROVE  \E one \in Seq(Nat) : one = <<NextId(s)>> /\ Accounted(a, one)
<1>1. PICK sub : sub = [kind |-> d.kind, status |-> "placed", req |-> d.req]
  OBVIOUS
<1>2. /\ a \in Conv /\ a.entries = s.entries /\ a.inbox = s.inbox /\ sub \in Sub
      /\ a.subs = Append(s.subs, sub) /\ a.run = s.run
  <2>1. "placed" \in SubStatus
    BY DEF SubStatus
  <2> QED BY ONLY s \in Conv, d \in Draft, a = Admitted(s, d, "placed"), <1>1, <2>1, AdmittedIs
<1>3. sub.req # 0 => \A i \in DOMAIN s.subs : s.subs[i].req # sub.req
  BY <1>1 DEF Rejected
<1>4. PICK id : id = NextId(s) /\ id \in Nat
  BY DEF NextId, Conv
<1>5. PICK one : one = <<id>> /\ one \in Seq(Nat)
  <2>1. <<id>> \in Seq(Nat)
    BY <1>4
  <2> QED BY <2>1
<1>6. SubsSound(a)
  <2>1. PICK users : users = {"user"}
    OBVIOUS
  <2>2. Adds(s.entries, a.entries, users)
    BY <1>2, AddsSame
  <2>3. sub.kind # "input" /\ sub.kind \notin WriteKinds
    BY <1>1 DEF WriteKinds
  <2>4. SubsSound(s)
    BY DEF Accounted
  <2> QED BY <1>2, <1>3, <2>1, <2>2, <2>3, <2>4, SubsArrive
<1>7. sub.status = "placed"
  BY <1>1
<1>8. Accounted(a, one)
  BY <1>2, <1>4, <1>5, <1>6, <1>7, ArrivedKeeps
<1> QED BY <1>4, <1>5, <1>8

LEMMA AdmitTurned ==
  ASSUME NEW s \in Conv, Sound(s), NEW d \in Draft, ~Rejected(s, d), NEW r, r = Admit(s, d)
  PROVE  Turned(s, r)
<1> DEFINE placed == ApplyBoundary(Admitted(s, d, "placed"), "final")
           Shown == d.kind = "display" /\ r = AppendEntry(Admitted(s, d, "done"), Entry("display", NextId(s), 0))
           Continues == /\ d.kind = "continue" /\ ~Busy(s)
                        /\ r = StartRun(placed.conv, Append(placed.users, NextId(s)), FALSE)
           Waits == d.kind # "continue" /\ Busy(s) /\ r = Queued(s, d)
           Begins == d.kind # "continue" /\ ~Busy(s) /\ r = StartNext(ApplyBoundary(Queued(s, d), "final"), FALSE)
           Writes == /\ d.kind \in WriteKinds /\ ~Busy(s)
                     /\ r = IF IsStale(s, ItemOf(s, d)) THEN Admitted(s, d, "unanswered")
                            ELSE AppendEntry(Admitted(s, d, "done"), Entry(d.kind, NextId(s), d.cut))
           Runs == /\ d.kind = "input" /\ ~Busy(s)
                   /\ r = StartRun(AppendEntry(Admitted(s, d, "placed"), Entry("user", NextId(s), 0)),
                                   <<NextId(s)>>, FALSE)
<1>1. PICK h \in Seq(Nat) : h = s.run.inputs /\ Accounted(s, h) /\ QueueSound(s)
  BY EntriesAre DEF Sound, Accounted
<1>2. ~Busy(s) => h = <<>>
  BY <1>1 DEF Busy, NoRun
<1>3. PICK id : id = NextId(s) /\ id \in Nat
  BY DEF NextId, Conv
<1>4. PICK out : out \in {"done", "unanswered"}
  OBVIOUS
<1>5. ASSUME Shown \/ Writes PROVE Turned(s, r)
  <2>1. PICK status, a : /\ status \in {"done", "unanswered"} /\ a = Admitted(s, d, status)
                         /\ r = a \/ \E e : r = AppendEntry(a, e)
    BY <1>5
  <2>2. d.kind \in WriteKinds
    BY <1>5 DEF WriteKinds
  <2>3. a \in Conv /\ \A t : t.subs = a.subs /\ t.inbox = a.inbox => Turned(s, t)
    <3>1. status \in {"done", "unanswered", "placed"}
      BY <2>1
    <3> QED BY ONLY s \in Conv, d \in Draft, <1>1, <2>1, <2>2, <3>1, AdmittedTurned
  <2>4. r.subs = a.subs /\ r.inbox = a.inbox
    BY <2>1, <2>3 DEF AppendEntry, Conv
  <2> QED BY <2>3, <2>4
<1>6. CASE Waits
  <2>1. QueueSound(r) /\ r \in Conv /\ (Turns(r, r, {}, out) /\ NoneDropped(r, r) => Turned(s, r))
    BY <1>1, <1>4, <1>6, QueuedTurned
  <2>2. Turns(r, r, {}, out)
    BY <2>1, TurnsSame
  <2>3. NoneDropped(r, r)
    BY DEF NoneDropped
  <2> QED BY <2>1, <2>2, <2>3
<1>7. CASE Begins
  <2>1. PICK q : q = Queued(s, d)
    OBVIOUS
  <2>2. /\ q \in Conv /\ Accounted(q, h)
        /\ \A t : Turns(q, t, {}, out) /\ NoneDropped(q, t) => Turned(s, t)
    BY <1>1, <1>4, <1>7, <2>1, QueuedTurned
  <2>3. PICK b : b = ApplyBoundary(q, "final") /\ r = StartNext(b, FALSE)
    BY <1>7, <2>1
  <2>4. Turned(s, b.conv)
    BY <1>1, <2>2, <2>3, BoundaryTurns
  <2>5. b.conv \in Conv /\ b.users \in Seq(Nat)
    BY ONLY <1>1, <2>2, <2>3, BoundaryKeeps
  <2>6. r.subs = b.conv.subs /\ r.inbox = b.conv.inbox
    BY <2>3, <2>5, StartNextSame
  <2> QED BY <2>4, <2>6, TurnedTo
<1>8. CASE Runs
  <2>1. PICK a, e : a = Admitted(s, d, "placed") /\ e = Entry("user", id, 0) /\ e \in EntryType
    BY <1>3, EntryTyped
  <2>2. a \in Conv /\ \A t : t.subs = a.subs /\ t.inbox = a.inbox => Turned(s, t)
    BY <1>1, <2>1, AdmittedTurned
  <2>3. PICK c, one, keep : /\ c = AppendEntry(a, e) /\ one = <<id>> /\ keep = FALSE
                            /\ r = StartRun(c, one, keep)
    BY <1>3, <1>8, <2>1
  <2>4. c \in Conv /\ c.subs = a.subs /\ c.inbox = a.inbox
    BY ONLY <2>1, <2>2, <2>3, AppendIs
  <2>5. r.subs = c.subs /\ r.inbox = c.inbox
    <3>1. <<id>> \in Seq(Nat)
      BY <1>3
    <3>2. PICK x \in Conv, us \in Seq(Nat), k \in BOOLEAN : x = c /\ us = one /\ k = keep
      BY ONLY <2>3, <2>4, <3>1
    <3>3. r = StartRun(x, us, k)
      BY <2>3, <3>2
    <3>4. r.inbox = x.inbox /\ r.subs = x.subs
      BY ONLY <3>3, StartRunIs
    <3> QED BY ONLY <3>2, <3>4
  <2> QED BY <2>2, <2>4, <2>5
<1>9. CASE Continues
  <2>1. PICK a : a = Admitted(s, d, "placed")
    OBVIOUS
  <2>2. a \in Conv /\ QueueSound(a) /\ Entered(s, a)
    BY <1>1, <2>1, AdmittedTurned
  <2>3. PICK b : b = ApplyBoundary(a, "final") /\ r = StartRun(b.conv, Append(b.users, id), FALSE)
    BY <1>3, <1>9, <2>1
  <2>4. PICK one \in Seq(Nat) : Accounted(a, one)
    BY <1>1, <1>2, <1>9, <2>1, ContinueAccounted
  <2>5. b.conv \in Conv /\ b.users \in Seq(Nat)
    BY ONLY <2>2, <2>3, <2>4, BoundaryKeeps
  <2>6. Turns(a, b.conv, {}, out) /\ NoneDropped(a, b.conv)
    BY ONLY <2>2, <2>3, <2>4, BoundaryTurns
  <2>7. Turned(s, b.conv)
    BY <1>4, <2>2, <2>6 DEF Turned
  <2>8. r.subs = b.conv.subs /\ r.inbox = b.conv.inbox
    <3>0. PICK x \in Seq(Nat), keep \in BOOLEAN : x = b.users /\ keep = FALSE
      BY <2>5
    <3>a. Append(x, id) \in Seq(Nat)
      BY <1>3
    <3>1. PICK c \in Conv, us \in Seq(Nat) : c = b.conv /\ us = Append(x, id)
      BY ONLY <2>5, <3>a
    <3>2. r = StartRun(c, us, keep)
      BY <2>3, <3>0, <3>1
    <3>3. r.inbox = c.inbox /\ r.subs = c.subs
      BY <3>2, StartRunIs
    <3> QED BY <3>1, <3>3
  <2> QED BY <2>7, <2>8, TurnedTo
<1>10. d.kind = "continue" => ~Busy(s)
  BY DEF Rejected
<1>11. Shown \/ Continues \/ Waits \/ Begins \/ Writes \/ Runs
  <2>1. AdmitsAs(s, d, r)
    BY <1>10, AdmitCases
  <2> QED BY ONLY <2>1 DEF AdmitsAs
<1> HIDE DEF Shown, Continues, Waits, Begins, Writes, Runs
<1> QED BY <1>5, <1>6, <1>7, <1>8, <1>9, <1>11

\* The conversation that a submission leaves, and a compaction may end in.
LEMMA TakenInputs ==
  ASSUME ConvInv, InputsInv, NEW r, Taken(conv, r), Turned(conv, r), conv' \in Conv, conv'.run = r.run, conv'.gens = r.gens,
         conv'.subs = r.subs, conv'.inbox = r.inbox, conv'.entries = r.entries
  PROVE  InputsKept
<1>1. PICK c : c = conv' /\ c.run = r.run /\ c.gens = r.gens /\ c.subs = r.subs /\ c.inbox = r.inbox
               /\ c.entries = r.entries
  OBVIOUS
<1>2. Sound(r)
  BY DEF Taken, Fresh
<1>3. Sound(c)
  BY <1>1, <1>2, AccountedSame DEF Sound
<1>4. AnsweredHeld'
  BY DEF Taken, Fresh, InputsInv, AnsweredHeld
<1>5. Turned(conv, c)
  BY <1>1, TurnedTo
<1> QED BY <1>1, <1>3, <1>4, <1>5 DEF InputsInv, Sound, InputsKept

LEMMA SubmitInputs == ASSUME ConvInv, InputsInv, ConvInv', NEW d \in Drafts, Submit(d) PROVE InputsKept
<1>1. PICK r : r = Admit(conv, d) /\ conv' = r /\ ~Rejected(conv, d)
  BY DEF Submit
<1>2. d \in Draft /\ conv \in Conv /\ Sound(conv) /\ conv' \in Conv
  BY DraftsAssumption, InvFacts DEF InputsInv, Sound, ConvInv, TypeOK
<1>3. Taken(conv, r) /\ Turned(conv, r)
  BY <1>1, <1>2, AdmitKeeps, AdmitTurned
<1> QED BY <1>1, <1>2, <1>3, TakenInputs

LEMMA CompPlaceInputs ==
  ASSUME ConvInv, InputsInv, ConvInv', NEW k \in Comps, CompPlace(k)
  PROVE  InputsKept
<1> DEFINE t == conv.comps[k]
           e == Entry("summary", 0, t.cut)
<1>1. PICK d : d = [kind |-> "summary", busy |-> "followUp", idle |-> "run", cut |-> t.cut, req |-> 0]
  OBVIOUS
<1>2. conv' = IF t.owner # 0 THEN EndComp(AppendEntry(conv, e), k, "summary")
              ELSE EndComp(Admit(conv, d), k, "summary")
  BY <1>1 DEF CompPlace
<1>3. conv \in Conv /\ t.cut \in Nat /\ k \in DOMAIN conv.comps /\ "summary" \in Outs /\ conv' \in Conv
  <2>1. conv \in Conv /\ conv' \in Conv
    BY InvFacts DEF ConvInv, TypeOK
  <2>2. t \in Comp
    BY <2>1 DEF Conv, Comps
  <2> QED BY <2>1, <2>2 DEF Comp, Comps, Outs
<1>4. Sound(conv)
  BY DEF InputsInv, Sound
<1>5. CASE t.owner # 0
  <2>1. e \in EntryType /\ e.kind = "summary"
    <3>1. 0 \in Nat /\ "summary" \in SaidKinds \cup {"user", "result", "handoff", "continuation"} \cup WriteKinds
      BY DEF WriteKinds
    <3> HIDE DEF t
    <3> QED BY <1>3, <3>1, EntryTyped
  <2> HIDE DEF e
  <2>2. PICK a : a = AppendEntry(conv, e)
    OBVIOUS
  <2>3. Quietly(conv, a) /\ a.run = conv.run
    BY <1>3, <2>1, <2>2, AppendQuiet
  <2>4. a \in Conv /\ a.gens = conv.gens /\ a.comps = conv.comps
    BY ONLY <1>3, <2>1, <2>2, AppendIs
  <2>5. PICK r : r = EndComp(a, k, "summary") /\ conv' = r
    BY <1>2, <1>5, <2>2
  <2>6. r \in Conv /\ r.gens = a.gens /\ r.entries = a.entries /\ r.run = a.run
        /\ r.inbox = a.inbox /\ r.subs = a.subs
    <3>1. a \in Conv /\ k \in DOMAIN a.comps /\ "summary" \in Outs
      BY <1>3, <2>4
    <3> QED BY ONLY <3>1, <2>5, EndCompIs
  <2>7. Quietly(conv, r)
    BY <1>3, <2>3, <2>4, <2>6, SameQuiet, QuietTrans
  <2> QED BY <2>3, <2>4, <2>5, <2>6, <2>7, QuietInputs
<1>6. CASE t.owner = 0
  <2>1. d \in Draft /\ ~Rejected(conv, d)
    <3> HIDE DEF t
    <3>1. d.kind = "summary" /\ d.req = 0 /\ d.cut = t.cut /\ d \in Draft
      BY <1>1, <1>3 DEF Draft, WriteKinds
    <3> QED BY <3>1 DEF Rejected
  <2>2. PICK b : b = Admit(conv, d)
    OBVIOUS
  <2>3. Taken(conv, b) /\ Turned(conv, b)
    BY <1>3, <1>4, <2>1, <2>2, AdmitKeeps, AdmitTurned
  <2>4. b \in Conv /\ b.comps = conv.comps
    <3>1. Opens(conv, b)
      BY <1>3, <2>1, <2>2, AdmitOpens DEF Rejected
    <3> QED BY <3>1 DEF Opens, Framed, Created
  <2>5. PICK r : r = EndComp(b, k, "summary") /\ conv' = r
    BY <1>2, <1>6, <2>2
  <2>6. r \in Conv /\ r.gens = b.gens /\ r.entries = b.entries /\ r.run = b.run
        /\ r.inbox = b.inbox /\ r.subs = b.subs
    <3>1. b \in Conv /\ k \in DOMAIN b.comps /\ "summary" \in Outs
      BY <1>3, <2>4
    <3> QED BY ONLY <3>1, <2>5, EndCompIs
  <2> QED BY <1>3, <2>3, <2>5, <2>6, TakenInputs
<1> QED BY <1>5, <1>6

-----------------------------------------------------------------------------
(* The theorems of the inputs                                               *)

LEMMA MarkedInputs ==
  ASSUME ConvInv, InputsInv, ConvInv',
         \/ \E g \in Gens : AbortTask(g) \/ Cascade(g)
         \/ \E C, K : AbortWork(C, K)
         \/ Crash \/ Close
  PROVE  InputsKept
<1>1. CASE \E g \in Gens : AbortTask(g)
  <2>1. PICK g \in Gens : AbortTask(g)
    BY <1>1
  <2>2. Lulled(conv, conv')
    BY <2>1, AbortTaskLulls
  <2>3. conv'.subs = conv.subs /\ conv'.inbox = conv.inbox
    <3>1. conv \in Conv /\ conv' = MarkGens(conv, {g})
      BY <2>1, InvFacts DEF AbortTask
    <3> QED BY <3>1, MarkGensLulled
  <2> QED BY <2>2, <2>3, LulledInputs
<1>2. CASE \E g \in Gens : Cascade(g)
  BY <1>2, CascadeLulls, LulledInputs
<1>3. CASE Crash \/ Close
  BY <1>3, ReopenedLulls, LulledInputs
<1>4. CASE \E C, K : AbortWork(C, K)
  BY <1>4, AbortWorkLulls, LulledInputs
<1> QED BY <1>1, <1>2, <1>3, <1>4

LEMMA InitInputs == Init => InputsInv
<1> SUFFICES ASSUME Init PROVE InputsInv
  OBVIOUS
<1>1. conv.subs = <<>> /\ conv.entries = <<>> /\ conv.inbox = <<>> /\ conv.run = NoRun
  BY DEF Init
<1>2. DOMAIN <<>> = {}
  OBVIOUS
<1>3. conv.run.inputs = <<>> /\ ~conv.run.answered
  BY <1>1 DEF NoRun
<1>4. SubsSound(conv)
  BY <1>1, <1>2 DEF SubsSound
<1>5. QueueSound(conv)
  BY <1>1, <1>2 DEF QueueSound
<1>6. Holds(conv, <<>>)
  BY <1>1, <1>2 DEF Holds, ToSet
<1> QED BY <1>3, <1>4, <1>5, <1>6, NothingUncut DEF InputsInv, Accounted, AnsweredHeld

LEMMA GenerationInputs ==
  ASSUME ConvInv, InputsInv, ConvInv', NEW g \in Gens,
         \/ Generation(g) \/ Reply(g) \/ Deferred(g) \/ ShowPartial(g) \/ NoModel(g)
         \/ AbortTask(g) \/ Faults(g)
  PROVE  InputsKept
<1>1. CASE \/ PrepareFails(g) \/ NoModel(g) \/ Drain(g) \/ EndAnsweredCutOff(g) \/ EndCutOff(g)
           \/ Aborts(g) \/ Faults(g) \/ SchedulerEnds(g)
  BY <1>1, EndsInputs
<1>2. CASE \/ PrepareReads(g) \/ PrepareBlocks(g) \/ PrepareCommits(g) \/ Request(g) \/ Deferred(g)
           \/ NextCall(g) \/ ShowPartial(g)
  BY <1>2, RequestInputs
<1>3. CASE Reserve(g) \/ AfterRunTaskEnds(g)
  BY <1>3, ReserveInputs
<1>4. CASE Retry(g)
  BY <1>4, RequestInputs, RetryInputs
<1>5. CASE Interrupted(g) \/ \E permanent \in BOOLEAN : ModelError(g, permanent)
  BY <1>5, ErrorInputs
<1>6. CASE Overflow(g)
  BY <1>6, OverflowInputs
<1>7. CASE \E n \in 1..MaxCalls : StartToolRound(g, n)
  BY <1>7, StartToolRoundInputs
<1>8. CASE Finish(g)
  BY <1>8, FinishInputs
<1>9. CASE \E continuation \in BOOLEAN : Answer(g, continuation)
  BY <1>9, AnswerInputs
<1>10. CASE FinishToolRound(g)
  BY <1>10, FinishToolRoundInputs
<1>11. CASE AbortTask(g) \/ Cascade(g)
  BY <1>11, MarkedInputs
<1> QED BY <1>1, <1>2, <1>3, <1>4, <1>5, <1>6, <1>7, <1>8, <1>9, <1>10, <1>11 DEF Generation, Reply

LEMMA NextKeeps == ConvInv /\ ConvInv' /\ InputsInv /\ [Next]_vars => InputsKept
<1> SUFFICES ASSUME ConvInv, ConvInv', InputsInv, [Next]_vars PROVE InputsKept
  OBVIOUS
<1>1. CASE UNCHANGED vars
  <2>1. conv' = conv /\ conv \in Conv
    BY <1>1, InvFacts DEF vars
  <2>2. Quietly(conv, conv)
    BY <2>1, SameQuiet
  <2> QED BY <2>1, <2>2, QuietInputs
<1>2. CASE Client
  BY <1>2, SubmitInputs, WithdrawnInputs, StorePartialInputs DEF Client
<1>3. CASE \E g \in Gens : \/ Generation(g) \/ Reply(g) \/ Deferred(g) \/ ShowPartial(g) \/ NoModel(g)
                           \/ AbortTask(g) \/ Faults(g)
  BY <1>3, GenerationInputs
<1>4. CASE StorePartial
  BY <1>4, StorePartialInputs
<1>5. CASE \E c \in DOMAIN conv.slots : Tool(c) \/ ToolFaults(c)
  BY <1>5, ToolInputs
<1>6. CASE \E k \in Comps : Compaction(k) \/ CompFaults(k)
  <2>1. PICK k \in Comps : Compaction(k) \/ CompFaults(k)
    BY <1>6
  <2>2. CASE CompPlace(k)
    BY <2>2, CompPlaceInputs
  <2>3. CASE ~CompPlace(k)
    <3>1. Stays(conv, conv') /\ conv'.gens = conv.gens
      BY <2>1, <2>3, CompactionStays
    <3>2. conv \in Conv /\ conv' \in Conv
      BY InvFacts DEF ConvInv, TypeOK
    <3> QED BY <3>1, <3>2, StaysQuiet, QuietInputs DEF Stays
  <2> QED BY <2>2, <2>3
<1>7. CASE AbortConversation
  BY <1>7, WithdrawnInputs
<1>8. CASE \/ \E c \in DOMAIN conv.slots : AbortWork({c}, {})
           \/ \E k \in Comps : AbortWork({}, {k})
           \/ Crash \/ Close
  BY <1>8, MarkedInputs
<1> QED BY <1>1, <1>2, <1>3, <1>4, <1>5, <1>6, <1>7, <1>8 DEF Next

LEMMA NextInputs == ConvInv /\ ConvInv' /\ InputsInv /\ [Next]_vars => InputsInv'
  BY NextKeeps DEF InputsKept

\* The submissions and the runs that hold them agree in every reachable state:
\* each submission is where its status says, an input of the run stands behind
\* every reset, and a run that has answered has settled its inputs.
THEOREM InputsInvariant == Spec => []InputsInv
<1>1. Init => InputsInv
  BY InitInputs
<1>2. ConvInv /\ ConvInv' /\ InputsInv /\ [Next]_vars => InputsInv'
  BY NextInputs
<1> QED BY <1>1, <1>2, ConversationInvariant, PTL DEF Spec

\* An input never runs in a context that a reset cut it out of (applyBoundary,
\* finishToolRound).
THEOREM NoResetCutsARun == Spec => []ResetNeverCutsRun
<1>1. InputsInv => ResetNeverCutsRun
  <2> SUFFICES ASSUME InputsInv, NEW i \in ToSet(conv.run.inputs),
                      NEW p \in DOMAIN conv.entries, NEW r \in DOMAIN conv.entries,
                      conv.entries[p].kind = "user", conv.entries[p].n = i, conv.entries[r].kind = "reset"
               PROVE  r < p
    BY DEF ResetNeverCutsRun
  <2>1. PICK k \in DOMAIN conv.run.inputs : conv.run.inputs[k] = i
    BY DEF ToSet
  <2> QED BY <2>1 DEF InputsInv, Uncut
<1> QED BY <1>1, InputsInvariant, PTL

LEMMA OneOrNone ==
  ASSUME NEW S, \A j, k \in S : j = k
  PROVE  /\ S = {} => Cardinality(S) = 0
         /\ S # {} => Cardinality(S) = 1
<1>1. S = {} => Cardinality(S) = 0
  BY FS_EmptySet
<1>2. ASSUME S # {} PROVE Cardinality(S) = 1
  <2>1. PICK x : x \in S
    BY <1>2
  <2>2. S = {x}
    BY <2>1
  <2> QED BY <2>2, FS_Singleton
<1> QED BY <1>1, <1>2

\* Every submission is in one place, the one its status says: in the inbox while
\* it is queued, among the inputs of the run while it is placed, and an input has
\* one entry in the transcript once it left the queue for a run; a request ID
\* names one submission, and the inbox is in the order of arrival
\* (admitSubmission, applyBoundary, endRun, withdraw).
THEOREM InputsAreAccounted == Spec => []InputsAccounted
<1>1. ConvInv /\ InputsInv => InputsAccounted
  <2> SUFFICES ASSUME ConvInv, InputsInv PROVE InputsAccounted
    OBVIOUS
  <2> DEFINE Box(i) == {k \in DOMAIN conv.inbox : conv.inbox[k].id = i}
             InRun(i) == {k \in DOMAIN conv.run.inputs : conv.run.inputs[k] = i}
             Users(i) == {k \in DOMAIN conv.entries : conv.entries[k].kind = "user" /\ conv.entries[k].n = i}
             Asked(i) == {k \in DOMAIN conv.subs : conv.subs[k].req = conv.subs[i].req}
  <2>1. conv \in Conv /\ SubsSound(conv) /\ QueueSound(conv) /\ Holds(conv, conv.run.inputs)
    BY InvFacts DEF InputsInv, Accounted
  <2>2. /\ DOMAIN conv.inbox \subseteq Nat
        /\ \A i \in DOMAIN conv.subs : conv.subs[i] \in Sub
        /\ \A k \in DOMAIN conv.inbox : conv.inbox[k].id \in Nat
    <3>1. conv.inbox \in Seq(Item) /\ conv.subs \in Seq(Sub)
      BY <2>1 DEF Conv
    <3>2. \A it \in Item : it.id \in Nat
      BY DEF Item
    <3> QED BY <3>1, <3>2
  <2>3. \A j, k \in DOMAIN conv.inbox : j < k => conv.inbox[j].id < conv.inbox[k].id
    BY <2>1 DEF QueueSound
  <2>4. ASSUME NEW i \in DOMAIN conv.subs
        PROVE  Cardinality(Box(i)) = IF conv.subs[i].status = "queued" THEN 1 ELSE 0
    <3>1. \A j, k \in Box(i) : j = k
      BY <2>2, <2>3
    <3>2. Box(i) # {} <=> conv.subs[i].status = "queued"
      BY <2>1 DEF QueueSound
    <3> HIDE DEF Box
    <3> QED BY <3>1, <3>2, OneOrNone
  <2>5. ASSUME NEW i \in DOMAIN conv.subs
        PROVE  Cardinality(InRun(i)) = IF conv.subs[i].status = "placed" THEN 1 ELSE 0
    <3>1. \A j, k \in InRun(i) : j = k
      BY <2>1 DEF Holds
    <3>2. InRun(i) # {} <=> i \in ToSet(conv.run.inputs)
      BY DEF ToSet
    <3>3. i \in ToSet(conv.run.inputs) <=> conv.subs[i].status = "placed"
      BY <2>1 DEF Holds
    <3> HIDE DEF InRun
    <3> QED BY <3>1, <3>2, <3>3, OneOrNone
  <2>6. ASSUME NEW i \in DOMAIN conv.subs, conv.subs[i].kind = "input"
        PROVE  \/ Cardinality(Users(i)) = 0 /\ conv.subs[i].status \in {"queued", "unanswered"}
               \/ Cardinality(Users(i)) = 1 /\ conv.subs[i].status # "queued"
    <3>1. \A j, k \in Users(i) : j = k
      BY <2>1 DEF SubsSound
    <3>2. Users(i) # {} => conv.subs[i].status # "queued"
      BY <2>1 DEF SubsSound
    <3>3. Users(i) = {} => conv.subs[i].status \notin {"placed", "done"}
      BY <2>1, <2>6 DEF SubsSound
    <3>4. conv.subs[i].status \in {"queued", "placed", "done", "unanswered"}
      BY <2>2 DEF Sub, SubStatus
    <3> HIDE DEF Users
    <3> QED BY <3>1, <3>2, <3>3, <3>4, OneOrNone
  <2>7. ASSUME NEW i \in DOMAIN conv.subs, conv.subs[i].req # 0
        PROVE  Cardinality(Asked(i)) = 1
    <3>1. \A j, k \in Asked(i) : j = k
      BY <2>1, <2>7 DEF SubsSound
    <3>2. i \in Asked(i)
      OBVIOUS
    <3> HIDE DEF Asked
    <3> QED BY <3>1, <3>2, OneOrNone
  <2> QED BY <2>3, <2>4, <2>5, <2>6, <2>7 DEF InputsAccounted
<1> QED BY <1>1, ConversationInvariant, InputsInvariant, PTL

-----------------------------------------------------------------------------
(* The conversation implements InputContract                                *)

\* What a step does to the submissions, whether one arrived or not.
LEMMA TurnedIs ==
  ASSUME NEW s \in Conv, QueueSound(s), NEW r \in Conv, Turned(s, r), ToSet(s.run.inputs) \subseteq DOMAIN s.subs
  PROVE  /\ Len(r.subs) \in {Len(s.subs), Len(s.subs) + 1}
         /\ \E ended \in {{}, ToSet(s.run.inputs)}, out \in {"done", "unanswered"} :
              \A i \in DOMAIN s.subs : FaresAs(s, r, i, ended, out)
         /\ \A i \in DOMAIN r.subs \ DOMAIN s.subs :
              r.subs[i].kind \notin WriteKinds => r.subs[i].status \in {"queued", "placed"}
         /\ QueuesKept(s, r)
<1>1. PICK n \in Conv, ended \in {{}, ToSet(s.run.inputs)}, out \in {"done", "unanswered"} :
        /\ QueueSound(n) /\ Entered(s, n) /\ Turns(n, r, ended, out)
        /\ n.subs # s.subs => NoneDropped(n, r)
  BY DEF Turned
<1>2. /\ DOMAIN r.subs = DOMAIN n.subs /\ QueuesKept(n, r)
      /\ \A i \in DOMAIN n.subs : FaresAs(n, r, i, ended, out)
  BY <1>1 DEF Turns, Fared
<1>3. /\ s.subs \in Seq(Sub) /\ s.inbox \in Seq(Item) /\ r.subs \in Seq(Sub) /\ n.subs \in Seq(Sub)
      /\ n.inbox \in Seq(Item)
  BY EntriesAre
<1>4. Len(r.subs) = Len(n.subs)
  BY <1>2, <1>3
<1>5. \/ n.subs = s.subs
      \/ \E sub \in Sub : n.subs = Append(s.subs, sub) /\ (sub.kind \in WriteKinds \/ sub.status \in {"queued", "placed"})
  BY <1>1 DEF Entered
<1>6. n.inbox = s.inbox \/ \E it \in Item : it.id = Len(s.subs) + 1 /\ n.inbox = Append(s.inbox, it)
  BY <1>1 DEF Entered
<1>7. /\ Len(n.subs) \in {Len(s.subs), Len(s.subs) + 1}
      /\ \A i \in DOMAIN s.subs : i \in DOMAIN n.subs /\ n.subs[i] = s.subs[i]
      /\ \A i \in DOMAIN n.subs \ DOMAIN s.subs :
           n.subs[i].kind \in WriteKinds \/ n.subs[i].status \in {"queued", "placed"}
  BY SMTT(30), <1>3, <1>5
<1>8. \A k \in DOMAIN s.inbox : k \in DOMAIN n.inbox /\ n.inbox[k] = s.inbox[k]
  <2>1. ASSUME NEW it \in Item, n.inbox = Append(s.inbox, it), NEW k \in DOMAIN s.inbox
        PROVE  k \in DOMAIN n.inbox /\ n.inbox[k] = s.inbox[k]
    BY ONLY <1>3, <2>1
  <2> QED BY <1>6, <2>1
<1>9. \A k \in DOMAIN n.inbox : k \in DOMAIN s.inbox \/ n.inbox[k].id \notin DOMAIN s.subs
  <2>1. Len(s.subs) + 1 \notin DOMAIN s.subs
    BY <1>3
  <2> QED BY <1>3, <1>6, <2>1
<1>10. \A i \in DOMAIN s.subs : FaresAs(s, r, i, ended, out)
  BY <1>2, <1>7 DEF FaresAs
<1>11. ASSUME NEW i \in DOMAIN r.subs \ DOMAIN s.subs, r.subs[i].kind \notin WriteKinds
       PROVE  r.subs[i].status \in {"queued", "placed"}
  <2>1. i \in DOMAIN n.subs \ DOMAIN s.subs /\ i \notin ended /\ n.subs # s.subs
    BY <1>1, <1>2, <1>11
  <2>2. FaresAs(n, r, i, ended, out) /\ n.subs[i].kind \notin WriteKinds
    BY <1>2, <1>11, <2>1 DEF FaresAs
  <2>3. n.subs[i].status \in {"queued", "placed"} /\ NoneDropped(n, r)
    BY <1>1, <1>7, <2>1, <2>2
  <2> QED BY <2>1, <2>2, <2>3 DEF FaresAs, NoneDropped
<1>12. QueuesKept(s, r)
  <2>1. ASSUME NEW k \in DOMAIN r.inbox, r.inbox[k].id \in DOMAIN s.subs
        PROVE  \E j \in DOMAIN s.inbox : r.inbox[k] = s.inbox[j]
    <3>1. PICK j \in DOMAIN n.inbox : r.inbox[k] = n.inbox[j]
      BY <1>2, <1>7, <2>1 DEF QueuesKept
    <3> QED BY <1>8, <1>9, <2>1, <3>1
  <2>2. ASSUME NEW j \in DOMAIN s.inbox, NEW k \in DOMAIN s.inbox, j < k,
               s.inbox[j].mode = s.inbox[k].mode, s.inbox[k].mode \notin WriteKinds,
               r.subs[s.inbox[k].id].status = "placed"
        PROVE  r.subs[s.inbox[j].id].status # "queued"
    <3>1. j \in DOMAIN n.inbox /\ k \in DOMAIN n.inbox /\ n.inbox[j] = s.inbox[j] /\ n.inbox[k] = s.inbox[k]
      BY <1>8
    <3> QED BY <1>2, <2>2, <3>1 DEF QueuesKept
  <2> QED BY <2>1, <2>2 DEF QueuesKept
<1>13. Len(r.subs) \in {Len(s.subs), Len(s.subs) + 1}
  BY <1>4, <1>7
<1> QED BY <1>1, <1>10, <1>11, <1>12, <1>13

LEMMA FateIs ==
  ASSUME NEW sub \in Sub
  PROVE  /\ sub.kind \in WriteKinds => FateOf(sub) = "write"
         /\ sub.kind \notin WriteKinds /\ sub.status = "queued" => FateOf(sub) = "waiting"
         /\ sub.kind \notin WriteKinds /\ sub.status = "placed" => FateOf(sub) = "held"
         /\ sub.kind \notin WriteKinds /\ sub.status = "done" => FateOf(sub) = "done"
         /\ sub.kind \notin WriteKinds /\ sub.status = "unanswered" => FateOf(sub) = "unanswered"
         /\ sub.status \in {"queued", "placed", "done", "unanswered"}
<1>1. sub.kind \in WriteKinds => FateOf(sub) = "write"
  BY DEF FateOf
<1>2. sub.kind \notin WriteKinds /\ sub.status = "queued" => FateOf(sub) = "waiting"
  BY DEF FateOf
<1>3. sub.kind \notin WriteKinds /\ sub.status = "placed" => FateOf(sub) = "held"
  BY DEF FateOf
<1>4. sub.kind \notin WriteKinds /\ sub.status = "done" => FateOf(sub) = "done"
  BY DEF FateOf
<1>5. sub.kind \notin WriteKinds /\ sub.status = "unanswered" => FateOf(sub) = "unanswered"
  BY DEF FateOf
<1>6. sub.status \in {"queued", "placed", "done", "unanswered"}
  BY DEF Sub
<1> QED BY <1>1, <1>2, <1>3, <1>4, <1>5, <1>6

LEMMA FatesAre ==
  ASSUME NEW s \in Conv, NEW f, f = Fates(s)
  PROVE  /\ DOMAIN f = DOMAIN s.subs /\ DOMAIN f = 1..Len(f) /\ Len(f) = Len(s.subs) /\ Len(f) \in Nat
         /\ \A i \in DOMAIN s.subs : s.subs[i] \in Sub /\ f[i] = FateOf(s.subs[i])
<1>1. s.subs \in Seq(Sub) /\ DOMAIN s.subs = 1..Len(s.subs) /\ Len(s.subs) \in Nat
  BY EntriesAre
<1>2. DOMAIN f = DOMAIN s.subs /\ \A i \in DOMAIN s.subs : s.subs[i] \in Sub /\ f[i] = FateOf(s.subs[i])
  BY <1>1 DEF Fates
<1>3. f = [i \in 1..Len(s.subs) |-> FateOf(s.subs[i])]
  BY <1>1 DEF Fates
<1>4. Len(f) = Len(s.subs)
  BY <1>1, <1>3
<1> QED BY <1>1, <1>2, <1>4

\* The inputs of s that wait in the mode, in order.
QueueOf(s, mode, q) ==
  /\ DOMAIN q \subseteq Nat
  /\ \A k \in DOMAIN q : \E x \in DOMAIN s.inbox : s.inbox[x].id = q[k] /\ s.inbox[x].mode = mode
  /\ \A x \in DOMAIN s.inbox : s.inbox[x].mode = mode => \E k \in DOMAIN q : q[k] = s.inbox[x].id
  /\ \A j, k \in DOMAIN q : q[j] \in Nat /\ (j < k <=> q[j] < q[k])

LEMMA WaitsAre ==
  ASSUME NEW s \in Conv, QueueSound(s), NEW mode, NEW q, q = WaitingIn(s, mode)
  PROVE  QueueOf(s, mode, q)
<1>1. PICK S, items : S = {k \in DOMAIN s.inbox : s.inbox[k].mode = mode} /\ items = At(s.inbox, S)
  OBVIOUS
<1>2. s.inbox \in Seq(Item)
  BY EntriesAre
<1>3. items \in Seq(Item) /\ Takes(items, s.inbox, S)
  BY ONLY <1>1, <1>2, AtIs
<1>4. q = [k \in DOMAIN items |-> items[k].id]
  BY <1>1 DEF WaitingIn
<1>5. /\ \A k \in DOMAIN items : \E j \in DOMAIN s.inbox : j \in S /\ items[k] = s.inbox[j]
      /\ \A j \in DOMAIN s.inbox : j \in S => \E k \in DOMAIN items : items[k] = s.inbox[j]
      /\ \A x, y \in DOMAIN items : x < y =>
           \E i, j \in DOMAIN s.inbox : i < j /\ items[x] = s.inbox[i] /\ items[y] = s.inbox[j]
  BY <1>3 DEF Takes
<1>6. DOMAIN items \subseteq Nat /\ \A k \in DOMAIN items : items[k].id \in Nat
  <2>1. \A it \in Item : it.id \in Nat
    BY DEF Item
  <2> QED BY <1>3, <2>1
<1>7. \A x, y \in DOMAIN items : x < y => items[x].id < items[y].id
  BY <1>5 DEF QueueSound
<1>8. \A x, y \in DOMAIN items : x < y <=> items[x].id < items[y].id
  <2> SUFFICES ASSUME NEW x \in DOMAIN items, NEW y \in DOMAIN items PROVE x < y <=> items[x].id < items[y].id
    OBVIOUS
  <2>1. x \in Nat /\ y \in Nat /\ items[x].id \in Nat /\ items[y].id \in Nat
    BY <1>6
  <2>2. (x < y => items[x].id < items[y].id) /\ (y < x => items[y].id < items[x].id)
    BY <1>7
  <2> QED BY <2>1, <2>2
<1>9. DOMAIN q = DOMAIN items /\ \A k \in DOMAIN q : q[k] = items[k].id
  BY <1>4
<1>10. \A k \in DOMAIN q : \E x \in DOMAIN s.inbox : s.inbox[x].id = q[k] /\ s.inbox[x].mode = mode
  BY <1>1, <1>5, <1>9
<1>11. \A x \in DOMAIN s.inbox : s.inbox[x].mode = mode => \E k \in DOMAIN q : q[k] = s.inbox[x].id
  BY <1>1, <1>5, <1>9
<1>12. \A j, k \in DOMAIN q : q[j] \in Nat /\ (j < k <=> q[j] < q[k])
  BY <1>6, <1>8, <1>9
<1> QED BY <1>6, <1>9, <1>10, <1>11, <1>12 DEF QueueOf

LEMMA FatesMove ==
  ASSUME NEW s \in Conv, QueueSound(s), Holds(s, s.run.inputs), NEW r \in Conv, Turned(s, r),
         NEW f, f = Fates(s), NEW g, g = Fates(r)
  PROVE  /\ Len(g) \in {Len(f), Len(f) + 1}
         /\ \A i \in DOMAIN f : <<f[i], g[i]>> \in Contract!Moves
         /\ \A i \in DOMAIN g \ DOMAIN f : g[i] \in {"write", "waiting", "held"}
         /\ \/ \A i \in DOMAIN f : f[i] = "held" => g[i] = "held"
            \/ \E out \in {"done", "unanswered"} : \A i \in DOMAIN f : f[i] = "held" => g[i] = out
<1>1. /\ DOMAIN f = DOMAIN s.subs /\ Len(f) = Len(s.subs) /\ DOMAIN f = 1..Len(f) /\ Len(f) \in Nat
      /\ \A i \in DOMAIN s.subs : s.subs[i] \in Sub /\ f[i] = FateOf(s.subs[i])
  BY FatesAre
<1>2. /\ DOMAIN g = DOMAIN r.subs /\ Len(g) = Len(r.subs) /\ DOMAIN g = 1..Len(g)
      /\ \A i \in DOMAIN r.subs : r.subs[i] \in Sub /\ g[i] = FateOf(r.subs[i])
  BY FatesAre
<1>3. PICK held : /\ held = ToSet(s.run.inputs)
                  /\ held = {i \in DOMAIN s.subs : s.subs[i].status = "placed"}
  BY DEF Holds
<1>4. /\ Len(r.subs) \in {Len(s.subs), Len(s.subs) + 1}
      /\ \E ended \in {{}, ToSet(s.run.inputs)}, out \in {"done", "unanswered"} :
           \A i \in DOMAIN s.subs : FaresAs(s, r, i, ended, out)
      /\ \A i \in DOMAIN r.subs \ DOMAIN s.subs :
           r.subs[i].kind \notin WriteKinds => r.subs[i].status \in {"queued", "placed"}
  <2>1. ToSet(s.run.inputs) \subseteq DOMAIN s.subs
    BY <1>3
  <2> QED BY <2>1, TurnedIs
<1>5. PICK ended \in {{}, held}, out \in {"done", "unanswered"} :
        \A i \in DOMAIN s.subs : FaresAs(s, r, i, ended, out)
  BY <1>3, <1>4
<1>6. DOMAIN f \subseteq DOMAIN g /\ Len(g) \in {Len(f), Len(f) + 1}
  BY <1>1, <1>2, <1>4
<1>7. ASSUME NEW i \in DOMAIN f
      PROVE  /\ f[i] = "held" => i \in held /\ g[i] = IF i \in ended THEN out ELSE "held"
             /\ \/ f[i] = g[i] /\ f[i] \in {"write", "waiting", "held", "done", "unanswered"}
                \/ f[i] = "waiting" /\ g[i] \in {"held", "unanswered"}
                \/ f[i] = "held" /\ g[i] \in {"done", "unanswered"}
  <2>1. PICK a \in Sub, b \in Sub : a = s.subs[i] /\ b = r.subs[i] /\ f[i] = FateOf(a) /\ g[i] = FateOf(b)
    BY <1>1, <1>2, <1>6
  <2>2. /\ b.kind = a.kind
        /\ a.kind \notin WriteKinds =>
             IF i \in ended THEN b.status = out
             ELSE \/ b.status = a.status
                  \/ a.status = "queued" /\ b.status = "placed"
                  \/ a.status = "queued" /\ b.status = "unanswered"
    BY <1>1, <1>5, <2>1 DEF FaresAs
  <2>3. i \in held <=> a.status = "placed"
    BY <1>1, <1>3, <2>1
  <2>4. i \in ended => i \in held
    BY <1>5
  <2>5. CASE a.kind \in WriteKinds
    BY <2>1, <2>2, <2>5, FateIs
  <2>6. CASE a.kind \notin WriteKinds
    <3>1. b.kind \notin WriteKinds
      BY <2>2, <2>6
    <3>2. /\ a.status = "queued" => FateOf(a) = "waiting"
          /\ a.status = "placed" => FateOf(a) = "held"
          /\ a.status = "done" => FateOf(a) = "done"
          /\ a.status = "unanswered" => FateOf(a) = "unanswered"
          /\ a.status \in {"queued", "placed", "done", "unanswered"}
      BY <2>6, FateIs
    <3>3. /\ b.status = "queued" => FateOf(b) = "waiting"
          /\ b.status = "placed" => FateOf(b) = "held"
          /\ b.status = "done" => FateOf(b) = "done"
          /\ b.status = "unanswered" => FateOf(b) = "unanswered"
      BY <3>1, FateIs
    <3> QED BY <2>1, <2>2, <2>3, <2>4, <2>6, <3>2, <3>3
  <2> QED BY <2>5, <2>6
<1>8. \A i \in DOMAIN f : <<f[i], g[i]>> \in Contract!Moves
  BY <1>7 DEF Contract!Moves, Contract!Fates
<1>9. ASSUME NEW i \in DOMAIN g \ DOMAIN f PROVE g[i] \in {"write", "waiting", "held"}
  <2>1. PICK b \in Sub : b = r.subs[i] /\ g[i] = FateOf(b)
    BY <1>2
  <2>2. b.kind \notin WriteKinds => b.status \in {"queued", "placed"}
    BY <1>1, <1>2, <1>4, <1>9, <2>1
  <2> QED BY <2>1, <2>2, FateIs
<1>10. \/ \A i \in DOMAIN f : f[i] = "held" => g[i] = "held"
       \/ \E x \in {"done", "unanswered"} : \A i \in DOMAIN f : f[i] = "held" => g[i] = x
  <2>1. CASE ended = {}
    BY <1>7, <2>1
  <2>2. CASE ended = held
    BY <1>7, <2>2
  <2> QED BY <2>1, <2>2
<1> QED BY <1>6, <1>8, <1>9, <1>10

LEMMA QueueMoves ==
  ASSUME NEW s \in Conv, QueueSound(s), Holds(s, s.run.inputs), NEW r \in Conv, QueueSound(r), Turned(s, r),
         NEW f, f = Fates(s), NEW g, g = Fates(r),
         NEW mode, mode \notin WriteKinds, NEW q, QueueOf(s, mode, q), NEW next, QueueOf(r, mode, next)
  PROVE  /\ \A k \in DOMAIN q : g[q[k]] = "waiting" => \E j \in DOMAIN next : next[j] = q[k]
         /\ \A k \in DOMAIN next : /\ g[next[k]] = "waiting"
                                   /\ next[k] \in DOMAIN f => \E j \in DOMAIN q : q[j] = next[k]
         /\ \A j, k \in DOMAIN next : j < k =>
              IF next[k] \in DOMAIN f
              THEN \E a, b \in DOMAIN q : a < b /\ q[a] = next[j] /\ q[b] = next[k]
              ELSE next[j] # next[k]
         /\ \A j, k \in DOMAIN q : j < k /\ g[q[k]] = "held" => g[q[j]] # "waiting"
<1>1. /\ DOMAIN f = DOMAIN s.subs /\ DOMAIN f = 1..Len(f) /\ Len(f) \in Nat
      /\ \A i \in DOMAIN s.subs : s.subs[i] \in Sub /\ f[i] = FateOf(s.subs[i])
  BY FatesAre
<1>2. /\ DOMAIN g = DOMAIN r.subs /\ DOMAIN g = 1..Len(g) /\ Len(g) \in Nat
      /\ \A i \in DOMAIN r.subs : r.subs[i] \in Sub /\ g[i] = FateOf(r.subs[i])
  BY FatesAre
<1>3. DOMAIN f \subseteq DOMAIN g
  <2>1. ToSet(s.run.inputs) \subseteq DOMAIN s.subs
    BY DEF Holds
  <2>2. Len(r.subs) \in {Len(s.subs), Len(s.subs) + 1}
    BY <2>1, TurnedIs
  <2>3. Len(f) = Len(s.subs) /\ Len(g) = Len(r.subs)
    BY FatesAre
  <2> QED BY <1>1, <1>2, <2>2, <2>3
<1>4. /\ QueuesKept(s, r)
      /\ \A i \in DOMAIN s.subs : r.subs[i].kind = s.subs[i].kind
  <2>1. ToSet(s.run.inputs) \subseteq DOMAIN s.subs
    BY DEF Holds
  <2>2. \E ended \in {{}, ToSet(s.run.inputs)}, out \in {"done", "unanswered"} :
          \A i \in DOMAIN s.subs : FaresAs(s, r, i, ended, out)
    BY <2>1, TurnedIs
  <2>3. QueuesKept(s, r)
    BY <2>1, TurnedIs
  <2> QED BY <2>2, <2>3 DEF FaresAs
\* An input waits, is held or neither, as its status says.
<1>5. ASSUME NEW i \in DOMAIN g, r.subs[i].kind \notin WriteKinds
      PROVE  /\ g[i] = "waiting" <=> r.subs[i].status = "queued"
             /\ g[i] = "held" <=> r.subs[i].status = "placed"
  <2>1. PICK b \in Sub : b = r.subs[i] /\ g[i] = FateOf(b)
    BY <1>2
  <2> QED BY <1>5, <2>1, FateIs
<1>6. ASSUME NEW x \in DOMAIN s.inbox, s.inbox[x].mode = mode
      PROVE  /\ s.inbox[x].id \in DOMAIN f /\ s.inbox[x].id \in DOMAIN g
             /\ s.subs[s.inbox[x].id].kind \notin WriteKinds /\ r.subs[s.inbox[x].id].kind \notin WriteKinds
  BY <1>1, <1>3, <1>4, <1>6, QueuedAre
<1>7. ASSUME NEW x \in DOMAIN r.inbox, r.inbox[x].mode = mode
      PROVE  /\ r.inbox[x].id \in DOMAIN g /\ r.subs[r.inbox[x].id].kind \notin WriteKinds
             /\ r.subs[r.inbox[x].id].status = "queued"
  BY <1>2, <1>7, QueuedAre
\* What was there and waits in r is the item it was.
<1>8. ASSUME NEW x \in DOMAIN s.inbox, NEW y \in DOMAIN r.inbox, r.inbox[y].id = s.inbox[x].id
      PROVE  r.inbox[y] = s.inbox[x]
  <2>1. r.inbox[y].id \in DOMAIN s.subs
    BY <1>8, QueuedAre
  <2>2. PICK z \in DOMAIN s.inbox : r.inbox[y] = s.inbox[z]
    BY <1>4, <2>1 DEF QueuesKept
  <2>3. z = x
    BY <1>8, <2>2, QueueOrder
  <2> QED BY <2>2, <2>3
<1>9. ASSUME NEW k \in DOMAIN q, g[q[k]] = "waiting" PROVE \E j \in DOMAIN next : next[j] = q[k]
  <2>1. PICK x \in DOMAIN s.inbox : s.inbox[x].id = q[k] /\ s.inbox[x].mode = mode
    BY DEF QueueOf
  <2>2. q[k] \in DOMAIN r.subs /\ r.subs[q[k]].status = "queued"
    BY <1>2, <1>5, <1>6, <1>9, <2>1
  <2>3. PICK y \in DOMAIN r.inbox : r.inbox[y].id = q[k]
    BY <2>2, QueuedAre
  <2>4. r.inbox[y].mode = mode
    BY <1>8, <2>1, <2>3
  <2> QED BY <2>3, <2>4 DEF QueueOf
<1>10. ASSUME NEW k \in DOMAIN next
       PROVE  /\ g[next[k]] = "waiting"
              /\ next[k] \in DOMAIN f => \E j \in DOMAIN q : q[j] = next[k]
  <2>1. PICK y \in DOMAIN r.inbox : r.inbox[y].id = next[k] /\ r.inbox[y].mode = mode
    BY DEF QueueOf
  <2>2. g[next[k]] = "waiting"
    BY <1>5, <1>7, <2>1
  <2>3. ASSUME next[k] \in DOMAIN f PROVE \E j \in DOMAIN q : q[j] = next[k]
    <3>1. PICK x \in DOMAIN s.inbox : r.inbox[y] = s.inbox[x]
      BY <1>1, <1>4, <2>1, <2>3 DEF QueuesKept
    <3> QED BY <2>1, <3>1 DEF QueueOf
  <2> QED BY <2>2, <2>3
<1>11. ASSUME NEW j \in DOMAIN next, NEW k \in DOMAIN next, j < k
       PROVE  IF next[k] \in DOMAIN f
              THEN \E a, b \in DOMAIN q : a < b /\ q[a] = next[j] /\ q[b] = next[k]
              ELSE next[j] # next[k]
  <2>1. next[j] \in Nat /\ next[k] \in Nat /\ next[j] < next[k]
    BY <1>11 DEF QueueOf
  <2>2. ASSUME next[k] \in DOMAIN f
        PROVE  \E a, b \in DOMAIN q : a < b /\ q[a] = next[j] /\ q[b] = next[k]
    <3>1. next[j] \in DOMAIN f
      <4>1. PICK y \in DOMAIN r.inbox : r.inbox[y].id = next[j] /\ r.inbox[y].mode = mode
        BY DEF QueueOf
      <4>2. next[j] \in 1..Len(g)
        BY <1>2, <1>7, <4>1
      <4> QED BY <1>1, <1>2, <2>1, <2>2, <4>2
    <3>2. PICK a, b \in DOMAIN q : q[a] = next[j] /\ q[b] = next[k]
      BY <1>10, <2>2, <3>1
    <3>3. a < b
      BY <2>1, <3>2 DEF QueueOf
    <3> QED BY <3>2, <3>3
  <2>3. next[j] # next[k]
    BY <2>1
  <2> QED BY <2>2, <2>3
<1>12. ASSUME NEW j \in DOMAIN q, NEW k \in DOMAIN q, j < k, g[q[k]] = "held" PROVE g[q[j]] # "waiting"
  <2>1. PICK x, y \in DOMAIN s.inbox : /\ s.inbox[x].id = q[j] /\ s.inbox[x].mode = mode
                                      /\ s.inbox[y].id = q[k] /\ s.inbox[y].mode = mode
    BY DEF QueueOf
  <2>2. q[j] < q[k]
    BY <1>12 DEF QueueOf
  <2>3. x < y
    BY <2>1, <2>2, QueueOrder
  <2>4. r.subs[s.inbox[y].id].status = "placed"
    BY <1>5, <1>6, <1>12, <2>1
  <2>5. r.subs[s.inbox[x].id].status # "queued"
    BY <1>4, <2>1, <2>3, <2>4 DEF QueuesKept
  <2> QED BY <1>5, <1>6, <2>1, <2>5
<1> QED BY <1>9, <1>10, <1>11, <1>12

\* A step of the conversation is one of the contract.
LEMMA ContractStep ==
  ASSUME ConvInv, ConvInv', InputsInv, InputsInv', Turned(conv, conv')
  PROVE  Contract!Next
<1>1. PICK s \in Conv, r \in Conv : s = conv /\ r = conv' /\ Turned(s, r)
  BY InvFacts DEF ConvInv, TypeOK
<1>2. PICK f, g, sq, fq, sn, fn :
        /\ f = Fates(s) /\ g = Fates(r)
        /\ sq = WaitingIn(s, "steer") /\ fq = WaitingIn(s, "followUp")
        /\ sn = WaitingIn(r, "steer") /\ fn = WaitingIn(r, "followUp")
  OBVIOUS
<1>3. QueueSound(s) /\ Holds(s, s.run.inputs)
  BY <1>1 DEF InputsInv, Accounted
<1>4. QueueSound(r)
  BY <1>1 DEF InputsInv, Accounted
<1>5. Contract!Arrives /\ Contract!Together
  <2>1. /\ Len(g) \in {Len(f), Len(f) + 1}
        /\ \A i \in DOMAIN f : <<f[i], g[i]>> \in Contract!Moves
        /\ \A i \in DOMAIN g \ DOMAIN f : g[i] \in {"write", "waiting", "held"}
        /\ \/ \A i \in DOMAIN f : f[i] = "held" => g[i] = "held"
           \/ \E out \in {"done", "unanswered"} : \A i \in DOMAIN f : f[i] = "held" => g[i] = out
    BY <1>1, <1>2, <1>3, FatesMove
  <2>2. f = Fates(conv) /\ g = Fates(conv')
    BY <1>1, <1>2
  <2> QED BY <2>1, <2>2 DEF Contract!Arrives, Contract!Together, Contract!Held
<1>6. /\ QueueOf(s, "steer", sq) /\ QueueOf(s, "followUp", fq)
      /\ QueueOf(r, "steer", sn) /\ QueueOf(r, "followUp", fn)
  BY <1>2, <1>3, <1>4, WaitsAre
<1>7. Contract!InTurn(sq, sn) /\ Contract!InTurn(fq, fn)
  <2>1. ASSUME NEW mode, mode \notin WriteKinds, NEW q, QueueOf(s, mode, q), NEW next, QueueOf(r, mode, next)
        PROVE  Contract!InTurn(q, next)
    <3>1. /\ \A k \in DOMAIN q : g[q[k]] = "waiting" => \E j \in DOMAIN next : next[j] = q[k]
          /\ \A k \in DOMAIN next : /\ g[next[k]] = "waiting"
                                    /\ next[k] \in DOMAIN f => \E j \in DOMAIN q : q[j] = next[k]
          /\ \A j, k \in DOMAIN next : j < k =>
               IF next[k] \in DOMAIN f
               THEN \E a, b \in DOMAIN q : a < b /\ q[a] = next[j] /\ q[b] = next[k]
               ELSE next[j] # next[k]
          /\ \A j, k \in DOMAIN q : j < k /\ g[q[k]] = "held" => g[q[j]] # "waiting"
      BY <1>1, <1>2, <1>3, <1>4, <2>1, QueueMoves
    <3>2. f = Fates(conv) /\ g = Fates(conv')
      BY <1>1, <1>2
    <3> QED BY <3>1, <3>2 DEF Contract!InTurn
  <2>2. "steer" \notin WriteKinds /\ "followUp" \notin WriteKinds
    BY DEF WriteKinds
  <2> QED BY <1>6, <2>1, <2>2
<1>8. /\ sq = WaitingIn(conv, "steer") /\ fq = WaitingIn(conv, "followUp")
      /\ sn = WaitingIn(conv', "steer") /\ fn = WaitingIn(conv', "followUp")
  BY <1>1, <1>2
<1> QED BY <1>5, <1>7, <1>8 DEF Contract!Next

LEMMA InitContract == Init => Contract!Init
<1> SUFFICES ASSUME Init PROVE Contract!Init
  OBVIOUS
<1>1. conv.subs = <<>> /\ conv.inbox = <<>>
  BY DEF Init
<1>2. Fates(conv) = <<>>
  BY <1>1 DEF Fates
<1>3. ASSUME NEW mode PROVE WaitingIn(conv, mode) = <<>>
  <2>1. PICK S : S = {k \in DOMAIN conv.inbox : conv.inbox[k].mode = mode}
    OBVIOUS
  <2>2. conv.inbox \in Seq(Item)
    BY <1>1
  <2>3. PICK items : items = At(conv.inbox, S) /\ items \in Seq(Item) /\ Takes(items, conv.inbox, S)
    BY ONLY <2>2, AtIs
  <2>4. DOMAIN items = {}
    <3>1. DOMAIN conv.inbox = {}
      BY <1>1
    <3> QED BY <2>3, <3>1 DEF Takes
  <2>5. WaitingIn(conv, mode) = [k \in {} |-> items[k].id]
    BY <2>1, <2>3, <2>4 DEF WaitingIn
  <2> QED BY <2>5
<1> QED BY <1>2, <1>3 DEF Contract!Init

\* The conversation keeps what it promises for the inputs given to it, through
\* runs, tool rounds, aborts, faults and crashes: an input waits in the queue of
\* its mode until a run takes it in turn, the inputs of a run are settled
\* together and alike, and a settled input stays settled (admitSubmission,
\* applyBoundary, endRun, withdraw).
THEOREM InputsRefinement == Spec => KeepsInputs
<1>1. Init => Contract!Init
  BY InitContract
<1>2. ConvInv /\ ConvInv' /\ InputsInv /\ InputsInv' /\ [Next]_vars => [Contract!Next]_(Contract!vars)
  BY NextKeeps, ContractStep DEF InputsKept
<1> QED
  BY <1>1, <1>2, ConversationInvariant, InputsInvariant, PTL DEF Spec, KeepsInputs, Contract!Spec

=============================================================================
