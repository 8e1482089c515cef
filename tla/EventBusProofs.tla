--------------------------- MODULE EventBusProofs ---------------------------
(***************************************************************************)
(* Proofs about the event bus, for any number of accounts and goroutines,  *)
(* any capacity and any bound on the events.  IInv of EventBus is the      *)
(* inductive invariant.  What is on its way to the client is one sequence, *)
(* Pipeline; a step puts an event behind it, takes one out of it, or       *)
(* leaves it as it is.  Read as a NumberedStream, what the handler has in  *)
(* hand is the front of the way to the client.                             *)
(***************************************************************************)
EXTENDS EventBus, FiniteSetTheorems, SequenceTheorems, TLAPS

(* q without its n-th element is r.                                        *)
Cut(q, r, n) ==
    /\ n \in 1..Len(q)
    /\ Len(r) = Len(q) - 1
    /\ \A i \in 1..Len(r) : i < n => r[i] = q[i]
    /\ \A i \in 1..Len(r) : i >= n => r[i] = q[i + 1]

(* q with e behind it is r.                                                *)
Longer(q, r, e) ==
    /\ Len(r) = Len(q) + 1
    /\ \A i \in 1..Len(q) : r[i] = q[i]
    /\ r[Len(q) + 1] = e

(* The numbers on a pipeline q, when the goroutines in st have numbered    *)
(* the head of their todo td, and top is the last number given.            *)
Numbered(q, st, td, top) ==
    /\ \A i, j \in 1..Len(q) : q[i].seq = q[j].seq => i = j
    /\ \A i \in 1..Len(q) : q[i].seq \in 1..top
    /\ \A i, j \in 1..Len(q) : i < j /\ q[i].from = q[j].from => q[i].seq < q[j].seq
    /\ \A i \in 1..Len(q) : \A p \in st : q[i].seq # Head(td[p]).seq
    /\ \A i \in 1..Len(q) : \A p \in st : q[i].from = p => q[i].seq < Head(td[p]).seq

(* The numbers that goroutines hold.                                       *)
Held(st, td, top) ==
    /\ IsFiniteSet(st)
    /\ \A p \in st : td[p] # <<>> /\ Head(td[p]).seq \in 1..top
    /\ \A p, q \in st : Head(td[p]).seq = Head(td[q]).seq => p = q

(* The parts of the invariant that speak of numbers.                       *)
LEMMA NumberParts ==
  Accounting /\ GoroutineOrder /\ NumberFacts /\ Held(stamped, todo, seq)
    <=> /\ Numbered(Pipeline, stamped, todo, seq) /\ Held(stamped, todo, seq)
        /\ seq = Cardinality(stamped) + Len(Pipeline) + dropCount + lost
BY DEF Accounting, GoroutineOrder, NumberFacts, Numbered, Held

-----------------------------------------------------------------------------
(* Sequences.                                                              *)

(* q is a, b and c in a row.                                               *)
Row(q, a, b, c) ==
    /\ Len(q) = Len(a) + Len(b) + Len(c)
    /\ \A i \in 1..Len(a) : q[i] = a[i]
    /\ \A i \in 1..Len(b) : q[Len(a) + i] = b[i]
    /\ \A i \in 1..Len(c) : q[Len(a) + Len(b) + i] = c[i]

(* Three sequences in a row.                                               *)
LEMMA ThreeInARow ==
  ASSUME NEW S, NEW a \in Seq(S), NEW b \in Seq(S), NEW c \in Seq(S)
  PROVE  a \o b \o c \in Seq(S) /\ Row(a \o b \o c, a, b, c)
<1> DEFINE ab == a \o b
           q == ab \o c
<1>1. /\ Len(a) \in Nat /\ Len(b) \in Nat /\ Len(c) \in Nat
      /\ ab \in Seq(S) /\ Len(ab) = Len(a) + Len(b)
      /\ \A i \in 1..(Len(a) + Len(b)) : ab[i] = IF i <= Len(a) THEN a[i] ELSE b[i - Len(a)]
  BY ConcatProperties
<1>8. ab \in Seq(S)
  BY ConcatProperties
<1> HIDE DEF ab
<1>2. /\ Len(q) = Len(ab) + Len(c)
      /\ \A i \in 1..(Len(ab) + Len(c)) : q[i] = IF i <= Len(ab) THEN ab[i] ELSE c[i - Len(ab)]
  BY <1>8, ConcatProperties
<1>7. q \in Seq(S)
  BY <1>8, ConcatProperties
<1> HIDE DEF q
<1>3. ASSUME NEW i \in 1..Len(a) PROVE q[i] = a[i]
  BY <1>1, <1>2
<1>4. ASSUME NEW i \in 1..Len(b) PROVE q[Len(a) + i] = b[i]
  <2>1. /\ Len(a) + i \in 1..(Len(ab) + Len(c)) /\ Len(a) + i <= Len(ab)
        /\ ~(Len(a) + i <= Len(a)) /\ (Len(a) + i) - Len(a) = i
    BY <1>1
  <2> QED BY <1>1, <1>2, <2>1
<1>5. ASSUME NEW i \in 1..Len(c) PROVE q[Len(a) + Len(b) + i] = c[i]
  <2>1. /\ Len(ab) + i \in 1..(Len(ab) + Len(c))
        /\ ~(Len(ab) + i <= Len(ab)) /\ (Len(ab) + i) - Len(ab) = i
    BY <1>1
  <2> QED BY <1>1, <1>2, <2>1
<1>6. Len(q) = Len(a) + Len(b) + Len(c)
  BY <1>1, <1>2
<1>9. Row(q, a, b, c)
  BY <1>3, <1>4, <1>5, <1>6 DEF Row
<1> QED BY <1>7, <1>9 DEF q, ab

(* A buffer that gets an event makes the row longer.                       *)
LEMMA RowGrows ==
  ASSUME NEW S, NEW a \in Seq(S), NEW b \in Seq(S), NEW c \in Seq(S), NEW e \in S
  PROVE  Longer(a \o b \o c, a \o b \o Append(c, e), e)
<1> DEFINE ab == a \o b
           d == Append(c, e)
           q == ab \o c
           r == ab \o d
<1>1. /\ ab \in Seq(S) /\ Len(ab) \in Nat
      /\ d \in Seq(S) /\ Len(c) \in Nat /\ Len(d) = Len(c) + 1
      /\ \A i \in 1..Len(c) : d[i] = c[i]
      /\ d[Len(c) + 1] = e
  BY ConcatProperties, AppendProperties
<1> HIDE DEF ab, d
<1>2. /\ Len(q) = Len(ab) + Len(c)
      /\ \A i \in 1..(Len(ab) + Len(c)) : q[i] = IF i <= Len(ab) THEN ab[i] ELSE c[i - Len(ab)]
      /\ Len(r) = Len(ab) + Len(d)
      /\ \A i \in 1..(Len(ab) + Len(d)) : r[i] = IF i <= Len(ab) THEN ab[i] ELSE d[i - Len(ab)]
  BY <1>1, ConcatProperties
<1> HIDE DEF q, r
<1>3. Len(r) = Len(q) + 1 /\ r[Len(q) + 1] = e
  <2>1. /\ Len(q) + 1 \in 1..(Len(ab) + Len(d)) /\ ~(Len(q) + 1 <= Len(ab))
        /\ (Len(q) + 1) - Len(ab) = Len(c) + 1
    BY <1>1, <1>2
  <2> QED BY <1>1, <1>2, <2>1
<1>4. ASSUME NEW i \in 1..Len(q) PROVE r[i] = q[i]
  <2>1. i \in 1..(Len(ab) + Len(c)) /\ i \in 1..(Len(ab) + Len(d))
    BY <1>1, <1>2
  <2>2. CASE i <= Len(ab)
    BY <1>2, <2>1, <2>2
  <2>3. CASE ~(i <= Len(ab))
    <3>1. i - Len(ab) \in 1..Len(c)
      BY <1>1, <2>1, <2>3
    <3> QED BY <1>1, <1>2, <2>1, <2>3, <3>1
  <2> QED BY <2>2, <2>3
<1> QED BY <1>3, <1>4 DEF q, r, ab, d, Longer

(* Taking the one element of b, or the first of c, out of the row.         *)
LEMMA RowLoses ==
  ASSUME NEW S, NEW a \in Seq(S), NEW b \in Seq(S), NEW c \in Seq(S), Len(b) = 1
  PROVE  Cut(a \o b \o c, a \o c, Len(a) + 1)
<1> DEFINE q == a \o b \o c
           r == a \o c
<1>0. Row(q, a, b, c)
  BY ThreeInARow
<1> HIDE DEF q
<1>1. /\ Len(a) \in Nat /\ Len(c) \in Nat
      /\ Len(q) = Len(a) + 1 + Len(c)
      /\ \A i \in 1..Len(a) : q[i] = a[i]
      /\ \A i \in 1..Len(c) : q[Len(a) + 1 + i] = c[i]
  <2>1. Len(a) \in Nat /\ Len(c) \in Nat
    BY LenProperties
  <2>2. Len(q) = Len(a) + 1 + Len(c) /\ \A i \in 1..Len(a) : q[i] = a[i]
    BY <1>0 DEF Row
  <2>3. ASSUME NEW i \in 1..Len(c) PROVE q[Len(a) + 1 + i] = c[i]
    <3>1. q[Len(a) + Len(b) + i] = c[i]
      BY <1>0 DEF Row
    <3> QED BY <3>1
  <2> QED BY <2>1, <2>2, <2>3
<1>2. /\ Len(r) = Len(a) + Len(c)
      /\ \A i \in 1..(Len(a) + Len(c)) : r[i] = IF i <= Len(a) THEN a[i] ELSE c[i - Len(a)]
  BY ConcatProperties
<1> HIDE DEF r
<1>3. Len(a) + 1 \in 1..Len(q) /\ Len(r) = Len(q) - 1
  BY <1>1, <1>2
<1>4. ASSUME NEW i \in 1..Len(r), i < Len(a) + 1 PROVE r[i] = q[i]
  <2>1. i \in 1..(Len(a) + Len(c)) /\ i <= Len(a) /\ i \in 1..Len(a)
    BY <1>1, <1>2, <1>4
  <2> QED BY <1>1, <1>2, <2>1
<1>5. ASSUME NEW i \in 1..Len(r), i >= Len(a) + 1 PROVE r[i] = q[i + 1]
  <2>1. /\ i \in 1..(Len(a) + Len(c)) /\ ~(i <= Len(a)) /\ i - Len(a) \in 1..Len(c)
        /\ Len(a) + 1 + (i - Len(a)) = i + 1
    BY <1>1, <1>2, <1>5
  <2>2. q[Len(a) + 1 + (i - Len(a))] = c[i - Len(a)]
    BY <1>1, <2>1
  <2> QED BY <1>2, <2>1, <2>2
<1> QED BY <1>3, <1>4, <1>5 DEF q, r, Cut

-----------------------------------------------------------------------------
(* The numbers along a pipeline.                                           *)

(* Taking an event out of the pipeline leaves the others numbered.         *)
LEMMA CutKeepsNumbers ==
  ASSUME NEW q, NEW r, NEW n, NEW st, NEW td, NEW top,
         Len(q) \in Nat, Cut(q, r, n), Numbered(q, st, td, top)
  PROVE  Numbered(r, st, td, top)
<1> DEFINE old(i) == IF i < n THEN i ELSE i + 1
<1>1. ASSUME NEW i \in 1..Len(r)
      PROVE  old(i) \in 1..Len(q) /\ r[i] = q[old(i)]
  <2>1. n \in Nat /\ Len(r) = Len(q) - 1 /\ i \in Nat
    BY <1>1 DEF Cut
  <2>2. CASE i < n
    BY <2>1, <2>2, <1>1 DEF Cut
  <2>3. CASE i >= n
    BY <2>1, <2>3, <1>1 DEF Cut
  <2>4. i < n \/ i >= n
    BY <2>1
  <2> QED BY <2>2, <2>3, <2>4
<1>2. ASSUME NEW i \in 1..Len(r), NEW j \in 1..Len(r)
      PROVE  (i < j => old(i) < old(j)) /\ (old(i) = old(j) => i = j)
  <2>1. n \in Nat /\ i \in Nat /\ j \in Nat
    BY DEF Cut
  <2> QED BY <2>1
<1> HIDE DEF old
<1>3. ASSUME NEW i \in 1..Len(r), NEW j \in 1..Len(r), r[i].seq = r[j].seq PROVE i = j
  BY <1>1, <1>2, <1>3 DEF Numbered
<1>4. ASSUME NEW i \in 1..Len(r) PROVE r[i].seq \in 1..top
  BY <1>1 DEF Numbered
<1>5. ASSUME NEW i \in 1..Len(r), NEW j \in 1..Len(r), i < j, r[i].from = r[j].from
      PROVE  r[i].seq < r[j].seq
  BY <1>1, <1>2, <1>5 DEF Numbered
<1>6. ASSUME NEW i \in 1..Len(r), NEW p \in st PROVE r[i].seq # Head(td[p]).seq
  BY <1>1 DEF Numbered
<1>7. ASSUME NEW i \in 1..Len(r), NEW p \in st, r[i].from = p
      PROVE  r[i].seq < Head(td[p]).seq
  BY <1>1, <1>7 DEF Numbered
<1> QED BY <1>3, <1>4, <1>5, <1>6, <1>7 DEF Numbered

(* A goroutine that lets go of its number: the others hold theirs.         *)
LEMMA LetGo ==
  ASSUME NEW q, NEW st, NEW td, NEW ud, NEW top, NEW p,
         Numbered(q, st, td, top), Held(st, td, top),
         \A o \in st \ {p} : ud[o] = td[o]
  PROVE  Numbered(q, st \ {p}, ud, top) /\ Held(st \ {p}, ud, top)
<1>1. IsFiniteSet(st \ {p})
  BY FS_Subset DEF Held
<1> QED BY <1>1 DEF Numbered, Held

(* An event that its goroutine puts behind the pipeline has a number that  *)
(* nothing else on it has, and is the latest of its goroutine.             *)
LEMMA AppendKeepsNumbers ==
  ASSUME NEW q, NEW r, NEW st, NEW td, NEW ud, NEW top, NEW p \in st,
         Len(q) \in Nat, Longer(q, r, Head(td[p])), Head(td[p]).from = p,
         Numbered(q, st, td, top), Held(st, td, top),
         \A o \in st \ {p} : ud[o] = td[o]
  PROVE  Numbered(r, st \ {p}, ud, top)
<1> DEFINE n == Len(q) + 1
           e == Head(td[p])
<1>1. /\ n \in Nat /\ Len(r) = n /\ r[n] = e
      /\ \A i \in 1..Len(r) : i = n \/ (i \in 1..Len(q) /\ r[i] = q[i])
  BY DEF Longer
<1>2. e.seq \in 1..top /\ e.from = p
  BY DEF Held
<1>3. /\ \A i \in 1..Len(q) : q[i].seq # e.seq
      /\ \A i \in 1..Len(q) : q[i].from = p => q[i].seq < e.seq
  BY DEF Numbered
<1>4. \A o \in st \ {p} : Head(ud[o]).seq # e.seq
  BY DEF Held
<1> HIDE DEF n, e
<1>5. ASSUME NEW i \in 1..Len(r), NEW j \in 1..Len(r), r[i].seq = r[j].seq PROVE i = j
  BY <1>1, <1>3, <1>5 DEF Numbered
<1>6. ASSUME NEW i \in 1..Len(r) PROVE r[i].seq \in 1..top
  BY <1>1, <1>2 DEF Numbered
<1>7. ASSUME NEW i \in 1..Len(r), NEW j \in 1..Len(r), i < j, r[i].from = r[j].from
      PROVE  r[i].seq < r[j].seq
  <2>1. i \in 1..Len(q) /\ r[i] = q[i]
    <3>1. i # n
      BY <1>1, <1>7
    <3> QED BY <1>1, <3>1
  <2>2. CASE j = n
    BY <1>1, <1>2, <1>3, <1>7, <2>1, <2>2
  <2>3. CASE j # n
    BY <1>1, <1>7, <2>1, <2>3 DEF Numbered
  <2> QED BY <2>2, <2>3
<1>8. ASSUME NEW i \in 1..Len(r), NEW o \in st \ {p} PROVE r[i].seq # Head(ud[o]).seq
  BY <1>1, <1>4 DEF Numbered
<1>9. ASSUME NEW i \in 1..Len(r), NEW o \in st \ {p}, r[i].from = o
      PROVE  r[i].seq < Head(ud[o]).seq
  BY <1>1, <1>2, <1>9 DEF Numbered
<1> QED BY <1>5, <1>6, <1>7, <1>8, <1>9 DEF Numbered

(* A number that is one above all given is new.                            *)
LEMMA StampKeepsNumbers ==
  ASSUME NEW q, NEW st, NEW td, NEW ud, NEW top \in Nat, NEW p, p \notin st,
         Numbered(q, st, td, top), Held(st, td, top),
         \A o \in st : ud[o] = td[o],
         ud[p] # <<>>, Head(ud[p]).seq = top + 1
  PROVE  Numbered(q, st \cup {p}, ud, top + 1) /\ Held(st \cup {p}, ud, top + 1)
<1>1. IsFiniteSet(st \cup {p})
  BY FS_AddElement DEF Held
<1>2. \A o \in st : /\ ud[o] # <<>> /\ Head(ud[o]).seq \in 1..top
                    /\ Head(ud[o]).seq \in 1..(top + 1) /\ Head(ud[o]).seq # top + 1
  BY DEF Held
<1>3. \A i \in 1..Len(q) : /\ q[i].seq \in 1..top /\ q[i].seq \in 1..(top + 1)
                           /\ q[i].seq < top + 1
  BY DEF Numbered
<1>4. Held(st \cup {p}, ud, top + 1)
  BY <1>1, <1>2 DEF Held
<1>5. ASSUME NEW i \in 1..Len(q), NEW o \in st \cup {p}
      PROVE  /\ q[i].seq # Head(ud[o]).seq
             /\ q[i].from = o => q[i].seq < Head(ud[o]).seq
  BY <1>3 DEF Numbered
<1>6. Numbered(q, st \cup {p}, ud, top + 1)
  BY <1>3, <1>5 DEF Numbered
<1> QED BY <1>4, <1>6

-----------------------------------------------------------------------------
(* The invariant in the terms of the lemmas.                               *)

(* The numbers, and the count of those that are not on their way.          *)
Numbers ==
    /\ Numbered(Pipeline, stamped, todo, seq)
    /\ Held(stamped, todo, seq)
    /\ seq = Cardinality(stamped) + Len(Pipeline) + dropCount + lost

(* Every goroutine emits its own events.                                   *)
OwnEvents == \A p \in Producers : \A i \in 1..Len(todo[p]) : todo[p][i].from = p

(* IInv consists of these parts, before a step and after it.               *)
LEMMA InvariantParts ==
  /\ IInv <=> TypeOK /\ Numbers /\ OwnEvents /\ JidFacts
  /\ IInv' <=> TypeOK' /\ Numbers' /\ OwnEvents' /\ JidFacts'
<1>1. IInv <=> TypeOK /\ Numbers /\ OwnEvents /\ JidFacts
  BY DEF IInv, Accounting, GoroutineOrder, NumberFacts, PendingFacts, Numbers, Numbered,
         Held, OwnEvents
<1>2. IInv' <=> TypeOK' /\ Numbers' /\ OwnEvents' /\ JidFacts'
  BY DEF IInv, Accounting, GoroutineOrder, NumberFacts, PendingFacts, Numbers, Numbered,
         Held, OwnEvents
<1> QED BY <1>1, <1>2

(* What the parts say of a goroutine that has numbered an event.           *)
LEMMA StampedFacts ==
  ASSUME TypeOK, Numbers, NEW p \in stamped
  PROVE  /\ p \in Producers /\ todo[p] \in Seq(Events) /\ todo[p] # <<>>
         /\ Head(todo[p]) \in Events /\ Tail(todo[p]) \in Seq(Events)
<1>1. p \in Producers /\ todo[p] \in Seq(Events) /\ todo[p] # <<>>
  BY DEF TypeOK, Numbers, Held
<1> QED BY <1>1, HeadTailProperties

(* The pipeline is a sequence of events.                                   *)
LEMMA PipelineType ==
  ASSUME TypeOK
  PROVE  /\ sent \in Seq(Events) /\ inHand \in Seq(Events) /\ buffer \in Seq(Events)
         /\ Pipeline \in Seq(Events)
         /\ Len(Pipeline) \in Nat
         /\ Len(Pipeline) = Len(sent) + Len(inHand) + Len(buffer)
<1>1. /\ sent \in Seq(Events) /\ inHand \in Seq(Events) /\ buffer \in Seq(Events)
  BY DEF TypeOK
<1>2. Pipeline \in Seq(Events) /\ Row(Pipeline, sent, inHand, buffer)
  BY <1>1, ThreeInARow DEF Pipeline
<1> QED BY <1>1, <1>2 DEF Row

(* A new event has its type.                                               *)
LEMMA EventType ==
  ASSUME NEW p \in Producers, NEW kind \in Kinds, NEW jid \in Jids \cup {NoJid}
  PROVE  /\ Event(p, kind, jid) \in Events
         /\ <<Event(p, kind, jid)>> \in Seq(Events) /\ Len(<<Event(p, kind, jid)>>) = 1
BY DEF Event, Events

(* The events that Sink makes of a batch.                                  *)
LEMMA BatchType ==
  ASSUME NEW a \in Accounts, NEW batch \in Batches
  PROVE  LET new == [i \in 1..Len(batch) |-> Event(<<a, "dispatch">>, batch[i], NoJid)]
         IN  new \in Seq(Events) /\ Len(new) = Len(batch) /\ Len(batch) \in Nat
<1> DEFINE new == [i \in 1..Len(batch) |-> Event(<<a, "dispatch">>, batch[i], NoJid)]
<1>1. Len(batch) \in Nat
  BY BatchesAssumption
<1>2. ASSUME NEW i \in 1..Len(batch) PROVE Event(<<a, "dispatch">>, batch[i], NoJid) \in Events
  <2>1. batch[i] \in Kinds
    BY DEF Kinds
  <2>2. <<a, "dispatch">> \in Producers
    BY DEF Producers
  <2> QED BY <2>1, <2>2, EventType
<1>3. new \in [1..Len(batch) -> Events]
  BY <1>2
<1>4. new \in Seq(Events)
  BY <1>1, <1>3, IsASeq
<1>5. Len(new) = Len(batch)
  <2>1. DOMAIN new = 1..Len(batch) /\ DOMAIN new = 1..Len(new) /\ Len(new) \in Nat
    BY <1>4, LenProperties
  <2> QED BY <1>1, <2>1
<1> QED BY <1>1, <1>4, <1>5

-----------------------------------------------------------------------------
(* Types.                                                                  *)

(* A sequence with another first element.                                  *)
LEMMA NewHead ==
  ASSUME NEW s \in Seq(Events), s # <<>>, NEW e \in Events
  PROVE  /\ <<e>> \o Tail(s) \in Seq(Events)
         /\ <<e>> \o Tail(s) # <<>>
         /\ Head(<<e>> \o Tail(s)) = e
         /\ Len(<<e>> \o Tail(s)) = Len(s)
         /\ (<<e>> \o Tail(s))[1] = e
         /\ \A i \in 2..Len(s) : (<<e>> \o Tail(s))[i] = s[i]
<1> DEFINE t == Tail(s)
           r == <<e>> \o t
<1>1. /\ t \in Seq(Events) /\ Len(t) = Len(s) - 1 /\ Len(s) \in Nat /\ Len(t) \in Nat
      /\ \A i \in 1..Len(t) : t[i] = s[i + 1]
  BY HeadTailProperties
<1>2. <<e>> \in Seq(Events) /\ Len(<<e>>) = 1 /\ <<e>>[1] = e
  OBVIOUS
<1> HIDE DEF t
<1>3. /\ r \in Seq(Events) /\ Len(r) = 1 + Len(t)
      /\ \A i \in 1..(1 + Len(t)) : r[i] = IF i <= 1 THEN <<e>>[i] ELSE t[i - 1]
  BY <1>1, <1>2, ConcatProperties
<1> HIDE DEF r
<1>4. r # <<>> /\ r[1] = e /\ Len(r) = Len(s)
  BY <1>1, <1>2, <1>3
<1>5. ASSUME NEW i \in 2..Len(s) PROVE r[i] = s[i]
  <2>1. i \in 1..(1 + Len(t)) /\ ~(i <= 1) /\ i - 1 \in 1..Len(t) /\ (i - 1) + 1 = i
    BY <1>1
  <2>2. t[i - 1] = s[(i - 1) + 1]
    BY <1>1, <2>1
  <2> QED BY <1>3, <2>1, <2>2
<1>6. Head(r) = r[1]
  BY <1>3, <1>4
<1> QED BY <1>3, <1>4, <1>5, <1>6 DEF r, t

(* What Stamp puts in front of the list of a goroutine.                    *)
StampedEvent(p) ==
    [Head(todo[p]) EXCEPT
        !.seq = seq + 1,
        !.jid = IF Head(todo[p]).jid = NoJid THEN jids[AccountOf(p)] ELSE Head(todo[p]).jid]

(* Stamp changes the head of one list, and the counter.                    *)
LEMMA StampEffect ==
  ASSUME TypeOK, NEW p \in Producers, Stamp(p)
  PROVE  /\ todo[p] \in Seq(Events) /\ todo[p] # <<>> /\ p \notin stamped
         /\ stamped' = stamped \cup {p} /\ seq' = seq + 1
         /\ StampedEvent(p) \in Events
         /\ todo' = [todo EXCEPT ![p] = <<StampedEvent(p)>> \o Tail(todo[p])]
         /\ todo' \in [Producers -> Seq(Events)]
         /\ StampedEvent(p).seq = seq + 1 /\ StampedEvent(p).from = Head(todo[p]).from
         /\ StampedEvent(p).jid
              = IF Head(todo[p]).jid = NoJid THEN jids[AccountOf(p)] ELSE Head(todo[p]).jid
<1>1. /\ todo[p] \in Seq(Events) /\ todo[p] # <<>> /\ p \notin stamped
      /\ stamped' = stamped \cup {p} /\ seq' = seq + 1
      /\ todo' = [todo EXCEPT ![p] = <<StampedEvent(p)>> \o Tail(todo[p])]
  BY DEF TypeOK, Stamp, StampedEvent
<1>2. Head(todo[p]) \in Events
  BY <1>1, HeadTailProperties
<1>3. AccountOf(p) \in Accounts
  BY DEF Producers, AccountOf
<1>4. jids[AccountOf(p)] \in Jids \cup {NoJid} /\ seq + 1 \in Nat
  BY <1>3 DEF TypeOK
<1> DEFINE e == Head(todo[p])
           jid == IF e.jid = NoJid THEN jids[AccountOf(p)] ELSE e.jid
<1>5. jid \in Jids \cup {NoJid}
  BY <1>2, <1>4 DEF Events
<1> HIDE DEF jid
<1>6. /\ [e EXCEPT !.seq = seq + 1, !.jid = jid] \in Events
      /\ [e EXCEPT !.seq = seq + 1, !.jid = jid].seq = seq + 1
      /\ [e EXCEPT !.seq = seq + 1, !.jid = jid].from = e.from
      /\ [e EXCEPT !.seq = seq + 1, !.jid = jid].jid = jid
  <2> HIDE DEF e
  <2>1. e \in Events
    BY <1>2 DEF e
  <2> QED BY <2>1, <1>4, <1>5 DEF Events
<1>7. /\ StampedEvent(p) \in Events
      /\ StampedEvent(p).seq = seq + 1 /\ StampedEvent(p).from = Head(todo[p]).from
      /\ StampedEvent(p).jid = jid
  BY <1>6 DEF StampedEvent, jid
<1>8. <<StampedEvent(p)>> \o Tail(todo[p]) \in Seq(Events)
  BY <1>1, <1>7, NewHead
<1>9. todo' \in [Producers -> Seq(Events)]
  BY <1>1, <1>8 DEF TypeOK
<1> QED BY <1>1, <1>7, <1>9 DEF jid

(* The number of events to emit grows within its bound.                    *)
LEMMA BeginEffect ==
  ASSUME TypeOK, NEW p \in Producers, NEW events \in Seq(Events), Begin(p, events)
  PROVE  /\ todo[p] = <<>> /\ stamped' = stamped
         /\ todo' = [todo EXCEPT ![p] = events]
         /\ todo' \in [Producers -> Seq(Events)]
         /\ begun' \in 0..MaxEvents
<1>1. Len(events) \in Nat
  BY LenProperties
<1> QED BY <1>1, BoundsAssumption DEF TypeOK, Begin

(* The initial state has its type.                                         *)
LEMMA InitType == ASSUME Init PROVE TypeOK
<1>1. /\ <<>> \in Seq(Events) /\ Len(<<>>) = 0
  BY EmptySeq
<1>2. /\ todo \in [Producers -> Seq(Events)]
      /\ jids \in [Accounts -> Jids \cup {NoJid}]
  BY <1>1 DEF Init
<1>3. /\ Len(buffer) <= BufferSize /\ begun \in 0..MaxEvents /\ pairings \in 0..MaxPairings
      /\ Len(inHand) <= 1
  BY <1>1, BufferSizeAssumption, BoundsAssumption DEF Init
<1> QED BY <1>1, <1>2, <1>3 DEF Init, TypeOK, Phases

(* The history of what the app was told keeps its type.                    *)
LEMMA ToldType ==
  ASSUME told \in [Accounts -> {"no", "yes", "overtaken"}], NEW a \in Accounts, Told(a)
  PROVE  told' \in [Accounts -> {"no", "yes", "overtaken"}]
BY DEF Told

(* Every step of a goroutine that emits keeps the types.                   *)
LEMMA ProducerTypeStep == ASSUME TypeOK, Numbers, ProducerStep PROVE TypeOK'
<1>1. ASSUME NEW a \in Accounts, NEW batch \in Batches, Sink(a, batch) PROVE TypeOK'
  <2> DEFINE new == [i \in 1..Len(batch) |-> Event(<<a, "dispatch">>, batch[i], NoJid)]
  <2>1. new \in Seq(Events) /\ <<a, "dispatch">> \in Producers
    BY BatchType DEF Producers
  <2>2. Begin(<<a, "dispatch">>, new)
    BY <1>1 DEF Sink
  <2> HIDE DEF new
  <2>3. /\ stamped' = stamped /\ todo' \in [Producers -> Seq(Events)] /\ begun' \in 0..MaxEvents
    BY <2>1, <2>2, BeginEffect
  <2> QED BY <1>1, <2>3
      DEF TypeOK, Sink, busVars, accountVars, jidVars, streamVars, mainVars
<1>2. ASSUME NEW a \in Accounts, NEW jid \in Jids, SinkPairSuccess(a, jid) PROVE TypeOK'
  <2> DEFINE new == <<Event(<<a, "dispatch">>, "pair_success", jid)>>
  <2>1. new \in Seq(Events) /\ <<a, "dispatch">> \in Producers
    <3>1. "pair_success" \in Kinds /\ jid \in Jids \cup {NoJid} /\ <<a, "dispatch">> \in Producers
      BY DEF Kinds, Producers
    <3> QED BY <3>1, EventType
  <2>2. Begin(<<a, "dispatch">>, new)
    BY <1>2 DEF SinkPairSuccess
  <2> HIDE DEF new
  <2>3. /\ stamped' = stamped /\ todo' \in [Producers -> Seq(Events)] /\ begun' \in 0..MaxEvents
    BY <2>1, <2>2, BeginEffect
  <2>4. /\ jids' \in [Accounts -> Jids \cup {NoJid}]
        /\ pairSuccess' \subseteq Accounts \X Jids
    BY <1>2 DEF TypeOK, SinkPairSuccess
  <2>5. told' \in [Accounts -> {"no", "yes", "overtaken"}]
    BY <1>2, ToldType DEF TypeOK, SinkPairSuccess
  <2> QED BY <1>2, <2>3, <2>4, <2>5
      DEF TypeOK, SinkPairSuccess, busVars, streamVars, mainVars
<1>8. ASSUME NEW a \in Accounts, NEW jid \in Jids, Pair(a, jid) PROVE TypeOK'
  <2>1. /\ pairings' \in 0..MaxPairings
        /\ paired' \in [Accounts -> Jids \cup {NoJid}]
        /\ pairSuccess' \subseteq Accounts \X Jids
    BY <1>8, BoundsAssumption DEF TypeOK, Pair
  <2> QED BY <1>8, <2>1 DEF TypeOK, Pair, busVars, producerVars, streamVars, mainVars
<1>3. ASSUME NEW a \in Accounts, PumpItem(a) PROVE TypeOK'
  <2> DEFINE new == <<Event(<<a, "pump">>, "qr", NoJid)>>
  <2>1. new \in Seq(Events) /\ <<a, "pump">> \in Producers
    <3>1. "qr" \in Kinds /\ NoJid \in Jids \cup {NoJid} /\ <<a, "pump">> \in Producers
      BY DEF Kinds, Producers
    <3> QED BY <3>1, EventType
  <2>2. Begin(<<a, "pump">>, new)
    BY <1>3 DEF PumpItem
  <2> HIDE DEF new
  <2>3. /\ stamped' = stamped /\ todo' \in [Producers -> Seq(Events)] /\ begun' \in 0..MaxEvents
    BY <2>1, <2>2, BeginEffect
  <2> QED BY <1>3, <2>3
      DEF TypeOK, PumpItem, busVars, accountVars, jidVars, streamVars, mainVars
<1>4. ASSUME NEW a \in Accounts, PumpEnds(a) PROVE TypeOK'
  BY <1>4 DEF TypeOK, PumpEnds, busVars, jidVars, producerVars, streamVars, mainVars
<1>5. ASSUME NEW p \in Producers, Stamp(p) PROVE TypeOK'
  <2>1. /\ todo' \in [Producers -> Seq(Events)] /\ stamped' = stamped \cup {p}
        /\ seq' = seq + 1
    BY <1>5, StampEffect
  <2>2. seq' \in Nat
    BY <2>1 DEF TypeOK
  <2> QED BY <1>5, <2>1, <2>2 DEF TypeOK, Stamp, accountVars, jidVars, streamVars, mainVars
<1>6. ASSUME NEW p \in Producers, Send(p) PROVE TypeOK'
  <2>1. p \in stamped
    BY <1>6 DEF Send, Ready
  <2>2. Head(todo[p]) \in Events /\ Tail(todo[p]) \in Seq(Events)
    BY <2>1, StampedFacts
  <2>3. todo' \in [Producers -> Seq(Events)]
    BY <1>6, <2>2 DEF TypeOK, Send, Sent
  <2>4. /\ buffer' \in Seq(Events) /\ Len(buffer') <= BufferSize
        /\ dropCount' \in Nat
    <3>1. /\ Append(buffer, Head(todo[p])) \in Seq(Events)
          /\ Len(Append(buffer, Head(todo[p]))) = Len(buffer) + 1
          /\ Len(buffer) \in Nat /\ BufferSize \in Nat
      BY <2>2, AppendProperties, LenProperties, BufferSizeAssumption DEF TypeOK
    <3>2. buffer \in Seq(Events) /\ Len(buffer) <= BufferSize /\ dropCount \in Nat
      BY DEF TypeOK
    <3>3. CASE Len(buffer) < BufferSize /\ buffer' = Append(buffer, Head(todo[p]))
               /\ dropCount' = dropCount
      <4> DEFINE grown == Append(buffer, Head(todo[p]))
      <4> HIDE DEF grown
      <4>1. grown \in Seq(Events) /\ Len(grown) = Len(buffer) + 1 /\ buffer' = grown
        BY <3>1, <3>3 DEF grown
      <4> QED BY <3>1, <3>2, <3>3, <4>1
    <3>4. CASE buffer' = buffer /\ dropCount' = dropCount + 1
      BY <3>2, <3>4
    <3> QED BY <1>6, <3>3, <3>4 DEF Send
  <2> QED BY <1>6, <2>3, <2>4
      DEF TypeOK, Send, Sent, accountVars, jidVars, streamVars, mainVars
<1>7. ASSUME NEW p \in Producers, SendOnClosed(p) PROVE TypeOK'
  <2>1. todo' \in [Producers -> Seq(Events)]
    BY <1>7, EmptySeq DEF TypeOK, SendOnClosed
  <2>2. lost' \in Nat
    BY <1>7 DEF TypeOK, SendOnClosed
  <2>3. crashed' \in BOOLEAN
    BY <1>7 DEF SendOnClosed
  <2> QED BY <1>7, <2>1, <2>2, <2>3
      DEF TypeOK, SendOnClosed, busVars, accountVars, jidVars, streamVars
<1> QED BY <1>1, <1>2, <1>3, <1>4, <1>5, <1>6, <1>7, <1>8 DEF ProducerStep

(* So does every other step.                                               *)
LEMMA TypeStep == ASSUME TypeOK, Numbers, [Next]_vars PROVE TypeOK'
<1>1. CASE ProducerStep
  BY <1>1, ProducerTypeStep
<1>2. CASE AccountStep
  <2>1. ASSUME NEW a \in Accounts, EnsureAccount(a) PROVE TypeOK'
    <3>1. seeding' \subseteq Accounts \X Jids /\ clients' \subseteq Accounts
      BY <2>1 DEF TypeOK, EnsureAccount
    <3> QED BY <2>1, <3>1
        DEF TypeOK, EnsureAccount, busVars, producerVars, streamVars, mainVars
  <2>2. ASSUME NEW a \in Accounts, Connect(a) PROVE TypeOK'
    BY <2>2 DEF TypeOK, Connect, busVars, jidVars, producerVars, streamVars, mainVars
  <2>3. ASSUME NEW a \in Accounts, Logout(a) PROVE TypeOK'
    <3>1. /\ told' \in [Accounts -> {"no", "yes", "overtaken"}]
          /\ paired' \in [Accounts -> Jids \cup {NoJid}]
      BY <2>3 DEF TypeOK, Logout
    <3> QED BY <2>3, <3>1 DEF TypeOK, Logout, busVars, producerVars, streamVars, mainVars
  <2>4. ASSUME NEW a \in Accounts, NEW jid \in Jids, SetAccountJID(a, jid) PROVE TypeOK'
    <3>1. /\ jids' \in [Accounts -> Jids \cup {NoJid}]
          /\ seeding' \subseteq Accounts \X Jids
      BY <2>4 DEF TypeOK, SetAccountJID
    <3>2. told' \in [Accounts -> {"no", "yes", "overtaken"}]
      BY <2>4, ToldType DEF TypeOK, SetAccountJID
    <3> QED BY <2>4, <3>1, <3>2
        DEF TypeOK, SetAccountJID, busVars, producerVars, streamVars, mainVars
  <2> QED BY <1>2, <2>1, <2>2, <2>3, <2>4 DEF AccountStep
<1>3. CASE StreamStep
  <2>0. /\ inHand \in Seq(Events) /\ buffer \in Seq(Events) /\ sent \in Seq(Events)
        /\ Len(inHand) \in Nat /\ lost \in Nat
        /\ <<>> \in Seq(Events) /\ Len(<<>>) = 0
    BY LenProperties, EmptySeq DEF TypeOK
  <2>1. ASSUME NEW soft \in BOOLEAN, StreamEvents(soft) PROVE TypeOK'
    BY <2>1 DEF TypeOK, StreamEvents, busVars, accountVars, jidVars, producerVars, mainVars
  <2>2. CASE StreamReceive
    <3>1. /\ Head(buffer) \in Events /\ Tail(buffer) \in Seq(Events)
          /\ Len(Tail(buffer)) = Len(buffer) - 1 /\ Len(buffer) \in Nat
      BY <2>0, <2>2, HeadTailProperties, LenProperties DEF StreamReceive
    <3>2. buffer' \in Seq(Events) /\ Len(buffer') <= BufferSize
      BY <2>2, <3>1, BufferSizeAssumption DEF TypeOK, StreamReceive
    <3>3. <<Head(buffer)>> \in Seq(Events) /\ Len(<<Head(buffer)>>) = 1
      BY <3>1
    <3>4. inHand' \in Seq(Events) /\ Len(inHand') <= 1 /\ lost' \in Nat
      <4>1. (inHand' = inHand /\ Len(inHand) <= 1) \/ inHand' = <<Head(buffer)>>
        BY <2>2 DEF TypeOK, StreamReceive
      <4>2. lost' = lost \/ lost' = lost + 1
        BY <2>2 DEF StreamReceive
      <4>3. inHand' \in Seq(Events) /\ Len(inHand') <= 1
        <5>1. CASE inHand' = <<Head(buffer)>>
          <6> DEFINE new == <<Head(buffer)>>
          <6>1. new \in Seq(Events) /\ Len(new) <= 1 /\ inHand' = new
            BY <3>3, <5>1
          <6> HIDE DEF new
          <6> QED BY <6>1
        <5>2. CASE inHand' = inHand /\ Len(inHand) <= 1
          BY <2>0, <5>2
        <5> QED BY <4>1, <5>1, <5>2
      <4> QED BY <2>0, <4>2, <4>3
    <3> QED BY <2>2, <3>2, <3>4
        DEF TypeOK, StreamReceive, accountVars, jidVars, producerVars, mainVars
  <2>3. CASE StreamSend
    <3>1. sent' \in Seq(Events)
      BY <2>0, <2>3, ConcatProperties DEF StreamSend
    <3> QED BY <2>0, <2>3, <3>1
        DEF TypeOK, StreamSend, busVars, accountVars, jidVars, producerVars, mainVars
  <2>4. CASE StreamBreaks
    <3>1. lost' \in Nat
      BY <2>0, <2>4 DEF StreamBreaks
    <3> QED BY <2>0, <2>4, <3>1
        DEF TypeOK, StreamBreaks, busVars, accountVars, jidVars, producerVars, mainVars
  <2>5. CASE StreamEof
    BY <2>5 DEF TypeOK, StreamEof, busVars, accountVars, jidVars, producerVars, mainVars
  <2> QED BY <1>3, <2>1, <2>2, <2>3, <2>4, <2>5 DEF StreamStep
<1>4. CASE MainStep
  <2>0. /\ Len(inHand) \in Nat /\ lost \in Nat
        /\ <<>> \in Seq(Events) /\ Len(<<>>) = 0
    BY LenProperties, EmptySeq DEF TypeOK
  <2>1. CASE DisconnectClients
    BY <2>1 DEF TypeOK, DisconnectClients, busVars, jidVars, producerVars, streamVars, Phases
  <2>2. CASE CloseBus
    BY <2>2 DEF TypeOK, CloseBus, accountVars, jidVars, producerVars, streamVars, Phases
  <2>3. CASE StopServer
    <3>1. lost' \in Nat /\ stream' \in {"none", "open", "ended"}
      BY <2>0, <2>3 DEF TypeOK, StopServer
    <3> QED BY <2>0, <2>3, <3>1
        DEF TypeOK, StopServer, busVars, accountVars, jidVars, producerVars, Phases
  <2> QED BY <1>4, <2>1, <2>2, <2>3 DEF MainStep
<1>5. CASE UNCHANGED vars
  BY <1>5 DEF TypeOK, vars, busVars, accountVars, jidVars, producerVars, streamVars, mainVars
<1> QED BY <1>1, <1>2, <1>3, <1>4, <1>5 DEF Next, Exited

-----------------------------------------------------------------------------
(* Numbers.                                                                *)

(* What the numbers depend on.                                             *)
LEMMA NumbersFrame ==
  ASSUME Numbers, Pipeline' = Pipeline, stamped' = stamped, seq' = seq,
         dropCount' = dropCount, lost' = lost,
         \A p \in stamped : todo'[p] = todo[p]
  PROVE  Numbers'
BY DEF Numbers, Numbered, Held

(* A new list is put in place of an empty one, which has no number.        *)
LEMMA BeginKeepsNumbers ==
  ASSUME TypeOK, Numbers, NEW p \in Producers, NEW events \in Seq(Events), Begin(p, events),
         UNCHANGED <<busVars, streamVars, lost>>
  PROVE  Numbers'
<1>1. /\ todo[p] = <<>> /\ stamped' = stamped /\ todo' = [todo EXCEPT ![p] = events]
  BY BeginEffect
<1>2. p \notin stamped
  BY <1>1 DEF Numbers, Held
<1>3. \A o \in stamped : todo'[o] = todo[o]
  BY <1>1, <1>2 DEF TypeOK
<1>4. Pipeline' = Pipeline
  BY DEF Pipeline, busVars, streamVars
<1> QED BY <1>1, <1>3, <1>4, NumbersFrame DEF busVars, streamVars

(* Stamp gives a new number.                                               *)
LEMMA StampStep ==
  ASSUME TypeOK, Numbers, NEW p \in Producers, Stamp(p)
  PROVE  Numbers'
<1>1. /\ todo[p] \in Seq(Events) /\ todo[p] # <<>> /\ p \notin stamped
      /\ stamped' = stamped \cup {p} /\ seq' = seq + 1
      /\ todo' = [todo EXCEPT ![p] = <<StampedEvent(p)>> \o Tail(todo[p])]
      /\ StampedEvent(p) \in Events /\ StampedEvent(p).seq = seq + 1
  BY StampEffect
<1>2. /\ <<StampedEvent(p)>> \o Tail(todo[p]) # <<>>
      /\ Head(<<StampedEvent(p)>> \o Tail(todo[p])) = StampedEvent(p)
  BY <1>1, NewHead
<1>3. /\ todo'[p] # <<>> /\ Head(todo'[p]).seq = seq + 1
      /\ \A o \in stamped : todo'[o] = todo[o]
  <2> DEFINE new == <<StampedEvent(p)>> \o Tail(todo[p])
  <2>1. new # <<>> /\ Head(new) = StampedEvent(p) /\ todo' = [todo EXCEPT ![p] = new]
    BY <1>1, <1>2
  <2> HIDE DEF new
  <2>2. todo'[p] = new /\ \A o \in stamped : todo'[o] = todo[o]
    BY <1>1, <2>1 DEF TypeOK
  <2> QED BY <1>1, <2>1, <2>2
<1>4. Pipeline' = Pipeline /\ dropCount' = dropCount /\ lost' = lost
  BY DEF Stamp, Pipeline, streamVars
<1>5. seq \in Nat
  BY DEF TypeOK
<1>6. /\ Numbered(Pipeline, stamped \cup {p}, todo', seq + 1)
      /\ Held(stamped \cup {p}, todo', seq + 1)
  BY <1>1, <1>3, <1>5, StampKeepsNumbers DEF Numbers
<1>7. Cardinality(stamped \cup {p}) = Cardinality(stamped) + 1 /\ Cardinality(stamped) \in Nat
  BY <1>1, FS_AddElement, FS_CardinalityType DEF Numbers, Held
<1>8. seq + 1 = Cardinality(stamped \cup {p}) + Len(Pipeline) + dropCount + lost
  <2>1. Len(Pipeline) \in Nat /\ dropCount \in Nat /\ lost \in Nat
    BY PipelineType DEF TypeOK
  <2>2. seq = Cardinality(stamped) + Len(Pipeline) + dropCount + lost
    BY DEF Numbers
  <2> QED BY <1>7, <2>1, <2>2
<1> QED BY <1>1, <1>4, <1>6, <1>8 DEF Numbers

(* The pipeline and the number of the events that are not on it, when a    *)
(* goroutine lets go of its number.                                        *)
LEMMA OneFewerHeld ==
  ASSUME TypeOK, Numbers, NEW p \in stamped
  PROVE  /\ Cardinality(stamped \ {p}) = Cardinality(stamped) - 1
         /\ Cardinality(stamped) \in Nat
         /\ Len(Pipeline) \in Nat /\ dropCount \in Nat /\ lost \in Nat
         /\ seq = Cardinality(stamped) + Len(Pipeline) + dropCount + lost
<1>1. IsFiniteSet(stamped)
  BY DEF Numbers, Held
<1>2. /\ Cardinality(stamped \ {p}) = Cardinality(stamped) - 1
      /\ Cardinality(stamped) \in Nat
  BY <1>1, FS_RemoveElement, FS_CardinalityType
<1> QED BY <1>2, PipelineType DEF TypeOK, Numbers

(* Send moves a number to the pipeline, or to the drops.                   *)
LEMMA SendStep ==
  ASSUME TypeOK, Numbers, OwnEvents, NEW p \in Producers, Send(p)
  PROVE  Numbers'
<1> DEFINE e == Head(todo[p])
<1>1. p \in stamped /\ stamped' = stamped \ {p} /\ seq' = seq /\ lost' = lost
  BY DEF Send, Ready, Sent
<1>2. /\ todo[p] \in Seq(Events) /\ todo[p] # <<>> /\ e \in Events
  BY <1>1, StampedFacts
<1>3. e.from = p
  <2>1. e = todo[p][1] /\ 1 \in 1..Len(todo[p])
    BY <1>2
  <2> QED BY <2>1 DEF OwnEvents
<1>4. \A o \in stamped \ {p} : todo'[o] = todo[o]
  BY DEF TypeOK, Send, Sent
<1>5. /\ Numbered(Pipeline, stamped \ {p}, todo', seq)
      /\ Held(stamped \ {p}, todo', seq)
  BY <1>4, LetGo DEF Numbers
<1>6. /\ Cardinality(stamped \ {p}) = Cardinality(stamped) - 1
      /\ Cardinality(stamped) \in Nat
      /\ Len(Pipeline) \in Nat /\ dropCount \in Nat /\ lost \in Nat
      /\ seq = Cardinality(stamped) + Len(Pipeline) + dropCount + lost
  BY <1>1, OneFewerHeld
<1>7. CASE buffer' = Append(buffer, e) /\ dropCount' = dropCount
  <2>1. Pipeline' = sent \o inHand \o Append(buffer, e)
    BY <1>7 DEF Pipeline, Send, Sent, streamVars
  <2>2. Longer(Pipeline, Pipeline', e)
    BY <1>2, <2>1, PipelineType, RowGrows DEF Pipeline
  <2>3. Numbered(Pipeline', stamped \ {p}, todo', seq)
    BY <1>1, <1>3, <1>4, <1>6, <2>2, AppendKeepsNumbers DEF Numbers
  <2>4. Len(Pipeline') = Len(Pipeline) + 1
    BY <2>2 DEF Longer
  <2>5. seq = Cardinality(stamped \ {p}) + Len(Pipeline') + dropCount + lost
    BY <1>6, <2>4
  <2> QED BY <1>1, <1>5, <1>7, <2>3, <2>5 DEF Numbers
<1>8. CASE buffer' = buffer /\ dropCount' = dropCount + 1
  <2>1. Pipeline' = Pipeline
    BY <1>8 DEF Pipeline, Send, Sent, streamVars
  <2>2. seq = Cardinality(stamped \ {p}) + Len(Pipeline) + (dropCount + 1) + lost
    BY <1>6
  <2> QED BY <1>1, <1>5, <1>8, <2>1, <2>2 DEF Numbers
<1> QED BY <1>7, <1>8 DEF Send

(* A panic loses one number.                                               *)
LEMMA SendOnClosedStep ==
  ASSUME TypeOK, Numbers, NEW p \in Producers, SendOnClosed(p)
  PROVE  Numbers'
<1>1. /\ p \in stamped /\ stamped' = stamped \ {p} /\ seq' = seq /\ lost' = lost + 1
      /\ dropCount' = dropCount
  BY DEF SendOnClosed, Ready, busVars
<1>2. \A o \in stamped \ {p} : todo'[o] = todo[o]
  BY DEF TypeOK, SendOnClosed
<1>3. /\ Numbered(Pipeline, stamped \ {p}, todo', seq)
      /\ Held(stamped \ {p}, todo', seq)
  BY <1>2, LetGo DEF Numbers
<1>4. Pipeline' = Pipeline
  BY DEF SendOnClosed, Pipeline, busVars, streamVars
<1>5. /\ Cardinality(stamped \ {p}) = Cardinality(stamped) - 1
      /\ Cardinality(stamped) \in Nat
      /\ Len(Pipeline) \in Nat /\ dropCount \in Nat /\ lost \in Nat
      /\ seq = Cardinality(stamped) + Len(Pipeline) + dropCount + lost
  BY <1>1, OneFewerHeld
<1>6. seq = Cardinality(stamped \ {p}) + Len(Pipeline) + dropCount + (lost + 1)
  BY <1>5
<1> QED BY <1>1, <1>3, <1>4, <1>6 DEF Numbers

(* An event that leaves the pipeline is counted as lost.                   *)
LEMMA CutStep ==
  ASSUME TypeOK, Numbers, NEW n, Cut(Pipeline, Pipeline', n), lost' = lost + 1,
         UNCHANGED <<stamped, todo, seq, dropCount>>
  PROVE  Numbers'
<1>1. Len(Pipeline) \in Nat /\ Len(Pipeline') = Len(Pipeline) - 1
  BY PipelineType DEF Cut
<1>2. Numbered(Pipeline', stamped, todo, seq)
  BY <1>1, CutKeepsNumbers DEF Numbers
<1>3. seq = Cardinality(stamped) + Len(Pipeline') + dropCount + (lost + 1)
  <2> DEFINE before == Len(Pipeline)
             after == Len(Pipeline')
  <2>1. Cardinality(stamped) \in Nat /\ dropCount \in Nat /\ lost \in Nat
    BY FS_CardinalityType DEF TypeOK, Numbers, Held
  <2>2. seq = Cardinality(stamped) + before + dropCount + lost
    BY DEF Numbers
  <2>3. before \in Nat /\ after = before - 1
    BY <1>1
  <2> HIDE DEF before, after
  <2>4. seq = Cardinality(stamped) + after + dropCount + (lost + 1)
    BY <2>1, <2>2, <2>3
  <2> QED BY <2>4 DEF after
<1> QED BY <1>2, <1>3 DEF Numbers, Held

(* The event in the hand of the handler is lost with the stream.           *)
LEMMA HandLost ==
  ASSUME TypeOK, Numbers, inHand' = <<>>, lost' = lost + Len(inHand),
         UNCHANGED <<sent, buffer, stamped, todo, seq, dropCount>>
  PROVE  Numbers'
<1>1. /\ sent \in Seq(Events) /\ inHand \in Seq(Events) /\ buffer \in Seq(Events)
      /\ Len(inHand) \in Nat /\ Len(inHand) <= 1 /\ lost \in Nat
  BY LenProperties DEF TypeOK
<1>2. CASE Len(inHand) = 0
  <2>1. inHand = <<>> /\ lost' = lost
    BY <1>1, <1>2
  <2> QED BY <2>1, NumbersFrame DEF Pipeline
<1>3. CASE Len(inHand) = 1
  <2>1. sent \o <<>> = sent
    BY <1>1, ConcatEmptySeq
  <2>2. Pipeline' = sent \o buffer
    BY <2>1 DEF Pipeline
  <2>3. Cut(Pipeline, Pipeline', Len(sent) + 1)
    BY <1>1, <1>3, <2>2, RowLoses DEF Pipeline
  <2>4. lost' = lost + 1
    BY <1>3
  <2> QED BY <2>3, <2>4, CutStep
<1>4. Len(inHand) = 0 \/ Len(inHand) = 1
  <2> DEFINE k == Len(inHand)
  <2>1. k \in Nat /\ k <= 1
    BY <1>1
  <2> HIDE DEF k
  <2>2. k = 0 \/ k = 1
    BY <2>1
  <2> QED BY <2>2 DEF k
<1> QED BY <1>2, <1>3, <1>4

(* The handler of the stream takes an event off the channel.               *)
LEMMA ReceiveStep ==
  ASSUME TypeOK, Numbers, StreamReceive
  PROVE  Numbers'
<1> DEFINE e == <<Head(buffer)>>
           rest == Tail(buffer)
<1>1. /\ sent \in Seq(Events) /\ buffer \in Seq(Events) /\ buffer # <<>> /\ inHand = <<>>
      /\ sent' = sent /\ buffer' = rest
      /\ UNCHANGED <<stamped, todo, seq, dropCount>>
  BY DEF TypeOK, StreamReceive, producerVars
<1>2. /\ rest \in Seq(Events) /\ e \in Seq(Events) /\ Len(e) = 1 /\ e \o rest = buffer
  <2>1. Head(buffer) \in Events /\ rest \in Seq(Events)
    BY <1>1, HeadTailProperties
  <2>2. e \in Seq(Events) /\ Len(e) = 1
    BY <2>1
  <2>3. e \o rest = buffer
    BY <1>1, NewHead, SeqEqual, <2>1
  <2> QED BY <2>1, <2>2, <2>3
<1> HIDE DEF e, rest
<1>3. sent \o inHand = sent
  BY <1>1, ConcatEmptySeq
<1>4. Pipeline = sent \o e \o rest
  <2>1. Pipeline = sent \o (e \o rest)
    BY <1>2, <1>3 DEF Pipeline
  <2>2. e \in Seq(Events) /\ rest \in Seq(Events)
    BY <1>2
  <2>3. (sent \o e) \o rest = sent \o (e \o rest)
    BY <1>1, <2>2, ConcatAssociative
  <2> QED BY <2>1, <2>3
<1>5. CASE inHand' = e /\ lost' = lost
  <2>1. Pipeline' = Pipeline
    BY <1>1, <1>4, <1>5 DEF Pipeline
  <2> QED BY <1>1, <1>5, <2>1, NumbersFrame
<1>6. CASE inHand' = inHand /\ lost' = lost + 1
  <2>1. Pipeline' = sent \o rest
    BY <1>1, <1>3, <1>6 DEF Pipeline
  <2>2. Cut(Pipeline, Pipeline', Len(sent) + 1)
    BY <1>1, <1>2, <1>4, <2>1, RowLoses
  <2> QED BY <1>1, <1>6, <2>2, CutStep
<1> QED BY <1>5, <1>6 DEF StreamReceive, e

(* Every step keeps the numbers.                                           *)
LEMMA NumbersStep ==
  ASSUME TypeOK, Numbers, OwnEvents, [Next]_vars
  PROVE  Numbers'
<1>1. CASE AccountStep
  <2>1. UNCHANGED <<busVars, producerVars, streamVars, lost>>
    BY <1>1 DEF AccountStep, EnsureAccount, SetAccountJID, Connect, Logout
  <2> QED BY <2>1, NumbersFrame DEF Pipeline, busVars, producerVars, streamVars
<1>2. CASE ProducerStep
  <2>1. ASSUME NEW a \in Accounts, NEW batch \in Batches, Sink(a, batch) PROVE Numbers'
    <3> DEFINE new == [i \in 1..Len(batch) |-> Event(<<a, "dispatch">>, batch[i], NoJid)]
    <3>1. new \in Seq(Events) /\ <<a, "dispatch">> \in Producers
      BY BatchType DEF Producers
    <3>2. Begin(<<a, "dispatch">>, new) /\ UNCHANGED <<busVars, streamVars, lost>>
      BY <2>1 DEF Sink
    <3> HIDE DEF new
    <3> QED BY <3>1, <3>2, BeginKeepsNumbers
  <2>2. ASSUME NEW a \in Accounts, NEW jid \in Jids, SinkPairSuccess(a, jid) PROVE Numbers'
    <3> DEFINE new == <<Event(<<a, "dispatch">>, "pair_success", jid)>>
    <3>1. new \in Seq(Events) /\ <<a, "dispatch">> \in Producers
      <4>1. "pair_success" \in Kinds /\ <<a, "dispatch">> \in Producers
        BY DEF Kinds, Producers
      <4> QED BY <4>1, EventType
    <3>2. Begin(<<a, "dispatch">>, new) /\ UNCHANGED <<busVars, streamVars, lost>>
      BY <2>2 DEF SinkPairSuccess
    <3> HIDE DEF new
    <3> QED BY <3>1, <3>2, BeginKeepsNumbers
  <2>3. ASSUME NEW a \in Accounts, PumpItem(a) PROVE Numbers'
    <3> DEFINE new == <<Event(<<a, "pump">>, "qr", NoJid)>>
    <3>1. new \in Seq(Events) /\ <<a, "pump">> \in Producers
      <4>1. "qr" \in Kinds /\ <<a, "pump">> \in Producers
        BY DEF Kinds, Producers
      <4> QED BY <4>1, EventType
    <3>2. Begin(<<a, "pump">>, new) /\ UNCHANGED <<busVars, streamVars, lost>>
      BY <2>3 DEF PumpItem
    <3> HIDE DEF new
    <3> QED BY <3>1, <3>2, BeginKeepsNumbers
  <2>4. ASSUME NEW a \in Accounts, PumpEnds(a) \/ \E jid \in Jids : Pair(a, jid)
        PROVE  Numbers'
    <3>1. UNCHANGED <<busVars, producerVars, streamVars, lost>>
      BY <2>4 DEF PumpEnds, Pair
    <3> QED BY <3>1, NumbersFrame DEF Pipeline, busVars, producerVars, streamVars
  <2>5. ASSUME NEW p \in Producers, Stamp(p) \/ Send(p) \/ SendOnClosed(p) PROVE Numbers'
    BY <2>5, StampStep, SendStep, SendOnClosedStep
  <2> QED BY <1>2, <2>1, <2>2, <2>3, <2>4, <2>5 DEF ProducerStep
<1>3. CASE StreamStep
  <2>1. ASSUME NEW soft \in BOOLEAN, StreamEvents(soft) PROVE Numbers'
    BY <2>1, NumbersFrame DEF StreamEvents, Pipeline, busVars, producerVars
  <2>2. CASE StreamReceive
    BY <2>2, ReceiveStep
  <2>3. CASE StreamSend
    <3>1. sent \o inHand \in Seq(Events)
      BY ConcatProperties DEF TypeOK
    <3>2. (sent \o inHand) \o <<>> = sent \o inHand
      BY <3>1, ConcatEmptySeq
    <3>3. Pipeline' = Pipeline
      BY <2>3, <3>2 DEF StreamSend, Pipeline, busVars
    <3> QED BY <2>3, <3>3, NumbersFrame DEF StreamSend, busVars, producerVars
  <2>4. CASE StreamBreaks
    BY <2>4, HandLost DEF StreamBreaks, busVars, producerVars
  <2>5. CASE StreamEof
    BY <2>5, NumbersFrame DEF StreamEof, Pipeline, busVars, producerVars
  <2> QED BY <1>3, <2>1, <2>2, <2>3, <2>4, <2>5 DEF StreamStep
<1>4. CASE MainStep
  <2>1. CASE DisconnectClients
    BY <2>1, NumbersFrame DEF DisconnectClients, Pipeline, busVars, producerVars, streamVars
  <2>2. CASE CloseBus
    BY <2>2, NumbersFrame DEF CloseBus, Pipeline, producerVars, streamVars
  <2>3. CASE StopServer
    BY <2>3, HandLost DEF StopServer, busVars, producerVars
  <2> QED BY <1>4, <2>1, <2>2, <2>3 DEF MainStep
<1>5. CASE UNCHANGED vars
  BY <1>5, NumbersFrame DEF vars, Pipeline, busVars, producerVars, streamVars
<1> QED BY <1>1, <1>2, <1>3, <1>4, <1>5 DEF Next, Exited

-----------------------------------------------------------------------------
(* The events of a goroutine, and the JIDs they carry.                     *)

(* What a step does to the list of a goroutine: a new list when it was     *)
(* empty, a new head when it is numbered, the rest when the head is sent,  *)
(* nothing when the send panics.                                           *)
Tailed(p) ==
    /\ todo'[p] = Tail(todo[p]) \/ todo'[p] = <<>>
    /\ p \in stamped /\ stamped' = stamped \ {p}

(* The list of a goroutine whose head leaves it.                           *)
LEMMA TailedFacts ==
  ASSUME TypeOK, Numbers, NEW p \in Producers, Tailed(p)
  PROVE  \A i \in 1..Len(todo'[p]) : i + 1 \in 2..Len(todo[p]) /\ todo'[p][i] = todo[p][i + 1]
<1>1. todo[p] \in Seq(Events) /\ todo[p] # <<>>
  BY StampedFacts DEF Tailed
<1>2. CASE todo'[p] = <<>>
  BY <1>2
<1>3. CASE todo'[p] = Tail(todo[p])
  <2>1. /\ Len(todo'[p]) = Len(todo[p]) - 1 /\ Len(todo[p]) \in Nat
        /\ \A i \in 1..Len(todo'[p]) : todo'[p][i] = todo[p][i + 1]
    BY <1>1, <1>3, HeadTailProperties, LenProperties
  <2> QED BY <2>1
<1> QED BY <1>2, <1>3 DEF Tailed

(* Send and SendOnClosed take the head off one list.                       *)
LEMMA SendEffect ==
  ASSUME TypeOK, NEW p \in Producers, Send(p) \/ SendOnClosed(p)
  PROVE  /\ Tailed(p) /\ \A o \in Producers \ {p} : todo'[o] = todo[o]
         /\ UNCHANGED accountVars
<1>1. CASE Send(p)
  BY <1>1 DEF TypeOK, Send, Sent, Ready, Tailed
<1>2. CASE SendOnClosed(p)
  BY <1>2 DEF TypeOK, SendOnClosed, Ready, Tailed
<1> QED BY <1>1, <1>2

(* A goroutine of account a begins to emit.                                *)
Begins(a) ==
    \/ \E batch \in Batches : Sink(a, batch)
    \/ \E jid \in Jids : SinkPairSuccess(a, jid)
    \/ PumpItem(a)

(* Every step of the system leaves the lists as they are, or is a step of  *)
(* one goroutine.                                                          *)
LEMMA ListStep ==
  ASSUME TypeOK, [Next]_vars
  PROVE  \/ UNCHANGED producerVars
         \/ \E a \in Accounts : Begins(a)
         \/ \E p \in Producers : Stamp(p) \/ Send(p) \/ SendOnClosed(p)
<1>1. CASE AccountStep
  BY <1>1 DEF AccountStep, EnsureAccount, SetAccountJID, Connect, Logout
<1>2. CASE ProducerStep
  <2>1. ASSUME NEW a \in Accounts, PumpEnds(a) \/ \E jid \in Jids : Pair(a, jid)
        PROVE  UNCHANGED producerVars
    BY <2>1 DEF PumpEnds, Pair
  <2>2. \/ \E p \in Producers : Stamp(p) \/ Send(p) \/ SendOnClosed(p)
        \/ \E a \in Accounts : \/ Begins(a) \/ PumpEnds(a)
                                \/ \E jid \in Jids : Pair(a, jid)
    BY <1>2 DEF ProducerStep, Begins
  <2> QED BY <2>1, <2>2
<1>3. CASE StreamStep
  BY <1>3 DEF StreamStep, StreamEvents, StreamReceive, StreamSend, StreamBreaks, StreamEof
<1>4. CASE MainStep
  BY <1>4 DEF MainStep, DisconnectClients, CloseBus, StopServer
<1>5. CASE UNCHANGED vars
  BY <1>5 DEF vars
<1> QED BY <1>1, <1>2, <1>3, <1>4, <1>5 DEF Next, Exited

(* Every goroutine goes on emitting its own events.                        *)
LEMMA OwnEventsStep ==
  ASSUME TypeOK, Numbers, OwnEvents, [Next]_vars
  PROVE  OwnEvents'
<1>1. CASE UNCHANGED producerVars
  BY <1>1 DEF OwnEvents, producerVars
<1>2. ASSUME NEW p \in Producers, NEW events \in Seq(Events), Begin(p, events),
             \A i \in 1..Len(events) : events[i].from = p
      PROVE  OwnEvents'
  <2>1. todo'[p] = events /\ \A o \in Producers \ {p} : todo'[o] = todo[o]
    BY <1>2, BeginEffect DEF TypeOK
  <2> QED BY <1>2, <2>1 DEF OwnEvents
<1>3. ASSUME NEW a \in Accounts, NEW batch \in Batches, Sink(a, batch) PROVE OwnEvents'
  <2> DEFINE new == [i \in 1..Len(batch) |-> Event(<<a, "dispatch">>, batch[i], NoJid)]
  <2>1. new \in Seq(Events) /\ Len(new) = Len(batch) /\ <<a, "dispatch">> \in Producers
    BY BatchType DEF Producers
  <2>2. \A i \in 1..Len(batch) : new[i].from = <<a, "dispatch">>
    BY DEF Event
  <2>3. Begin(<<a, "dispatch">>, new)
    BY <1>3 DEF Sink
  <2> HIDE DEF new
  <2> QED BY <1>2, <2>1, <2>2, <2>3
<1>4. ASSUME NEW a \in Accounts, NEW jid \in Jids, SinkPairSuccess(a, jid) PROVE OwnEvents'
  <2> DEFINE new == <<Event(<<a, "dispatch">>, "pair_success", jid)>>
  <2>1. new \in Seq(Events) /\ Len(new) = 1 /\ <<a, "dispatch">> \in Producers
    <3>1. "pair_success" \in Kinds /\ <<a, "dispatch">> \in Producers
      BY DEF Kinds, Producers
    <3> QED BY <3>1, EventType
  <2>2. new[1].from = <<a, "dispatch">>
    BY DEF Event
  <2>3. Begin(<<a, "dispatch">>, new)
    BY <1>4 DEF SinkPairSuccess
  <2> HIDE DEF new
  <2>4. \A i \in 1..Len(new) : new[i].from = <<a, "dispatch">>
    BY <2>1, <2>2
  <2> QED BY <1>2, <2>1, <2>3, <2>4
<1>5. ASSUME NEW a \in Accounts, PumpItem(a) PROVE OwnEvents'
  <2> DEFINE new == <<Event(<<a, "pump">>, "qr", NoJid)>>
  <2>1. new \in Seq(Events) /\ Len(new) = 1 /\ <<a, "pump">> \in Producers
    <3>1. "qr" \in Kinds /\ <<a, "pump">> \in Producers
      BY DEF Kinds, Producers
    <3> QED BY <3>1, EventType
  <2>2. new[1].from = <<a, "pump">>
    BY DEF Event
  <2>3. Begin(<<a, "pump">>, new)
    BY <1>5 DEF PumpItem
  <2> HIDE DEF new
  <2>4. \A i \in 1..Len(new) : new[i].from = <<a, "pump">>
    BY <2>1, <2>2
  <2> QED BY <1>2, <2>1, <2>3, <2>4
<1>6. ASSUME NEW p \in Producers, Stamp(p) PROVE OwnEvents'
  <2> DEFINE new == <<StampedEvent(p)>> \o Tail(todo[p])
  <2>1. /\ todo[p] \in Seq(Events) /\ todo[p] # <<>>
        /\ todo' = [todo EXCEPT ![p] = new]
        /\ StampedEvent(p) \in Events /\ StampedEvent(p).from = Head(todo[p]).from
    BY <1>6, StampEffect
  <2>2. /\ Len(new) = Len(todo[p]) /\ new[1] = StampedEvent(p)
        /\ \A i \in 2..Len(todo[p]) : new[i] = todo[p][i]
    BY <2>1, NewHead
  <2> HIDE DEF new
  <2>3. Head(todo[p]) = todo[p][1] /\ Len(todo[p]) \in Nat /\ 1 \in 1..Len(todo[p])
    BY <2>1, LenProperties
  <2>4. \A i \in 1..Len(new) : new[i].from = p
    BY <2>1, <2>2, <2>3 DEF OwnEvents
  <2>5. todo'[p] = new /\ \A o \in Producers \ {p} : todo'[o] = todo[o]
    BY <2>1 DEF TypeOK
  <2> QED BY <2>4, <2>5 DEF OwnEvents
<1>7. ASSUME NEW p \in Producers, Send(p) \/ SendOnClosed(p) PROVE OwnEvents'
  <2>1. Tailed(p) /\ \A o \in Producers \ {p} : todo'[o] = todo[o]
    BY <1>7, SendEffect
  <2>2. \A i \in 1..Len(todo'[p]) : /\ i + 1 \in 1..Len(todo[p])
                                    /\ todo'[p][i] = todo[p][i + 1]
    BY <2>1, TailedFacts
  <2> QED BY <2>1, <2>2 DEF OwnEvents
<1>8. ASSUME NEW a \in Accounts, Begins(a) PROVE OwnEvents'
  BY <1>3, <1>4, <1>5, <1>8 DEF Begins
<1> QED BY <1>1, <1>6, <1>7, <1>8, ListStep

(* What a step does to the cache and to the JIDs on their way to it.       *)
LEMMA CacheStep ==
  ASSUME TypeOK, CacheFacts, [Next]_vars
  PROVE  CacheFacts'
<1>1. CASE UNCHANGED <<paired, jidVars>>
  BY <1>1 DEF CacheFacts, jidVars
<1>2. ASSUME NEW a \in Accounts, EnsureAccount(a) PROVE CacheFacts'
  <2>1. UNCHANGED <<jids, told, paired, pairSuccess>>
    BY <1>2 DEF EnsureAccount
  <2>2. ASSUME NEW b \in Accounts, NEW jid \in Jids, <<b, jid>> \in seeding'
        PROVE  <<b, jid>> \in seeding \/ jid = paired[b]
    BY <1>2, <2>2 DEF EnsureAccount
  <2> QED BY <2>1, <2>2 DEF CacheFacts
<1>3. ASSUME NEW a \in Accounts, NEW jid \in Jids,
             <<a, jid>> \in seeding \cup pairSuccess,
             jids' = [jids EXCEPT ![a] = jid], Told(a), UNCHANGED paired,
             seeding' \subseteq seeding, pairSuccess' \subseteq pairSuccess
      PROVE  CacheFacts'
  <2>1. /\ told[a] # "overtaken" => jid = paired[a]
        /\ jid # NoJid
    BY <1>3, NoJidAssumption DEF CacheFacts
  <2>2. /\ jids'[a] = jid /\ \A b \in Accounts \ {a} : jids'[b] = jids[b]
        /\ told[a] = "overtaken" => told'[a] = "overtaken"
        /\ \A b \in Accounts \ {a} : told'[b] = told[b]
    BY <1>3 DEF TypeOK, Told
  <2>3. ASSUME NEW b \in Accounts, told'[b] = "yes"
        PROVE  paired'[b] # NoJid /\ jids'[b] = paired'[b]
    BY <1>3, <2>1, <2>2, <2>3 DEF CacheFacts
  <2>4. ASSUME NEW b \in Accounts, NEW j \in Jids, told'[b] # "overtaken",
               <<b, j>> \in seeding' \cup pairSuccess'
        PROVE  j = paired'[b]
    BY <1>3, <2>2, <2>4 DEF CacheFacts
  <2> QED BY <2>3, <2>4 DEF CacheFacts
<1>4. ASSUME NEW a \in Accounts, NEW jid \in Jids, Pair(a, jid) PROVE CacheFacts'
  <2>1. /\ paired[a] = NoJid /\ paired' = [paired EXCEPT ![a] = jid]
        /\ pairSuccess' = pairSuccess \cup {<<a, jid>>}
        /\ UNCHANGED <<jids, seeding, told>>
    BY <1>4 DEF Pair
  <2>2. paired'[a] = jid /\ \A b \in Accounts \ {a} : paired'[b] = paired[b]
    BY <2>1 DEF TypeOK
  <2>3. told[a] # "yes"
    BY <2>1 DEF CacheFacts
  <2>4. ASSUME NEW j \in Jids, told[a] # "overtaken" PROVE <<a, j>> \notin seeding \cup pairSuccess
    BY <2>1, <2>4, NoJidAssumption DEF CacheFacts
  <2>5. ASSUME NEW b \in Accounts, told'[b] = "yes"
        PROVE  paired'[b] # NoJid /\ jids'[b] = paired'[b]
    BY <2>1, <2>2, <2>3, <2>5 DEF CacheFacts
  <2>6. ASSUME NEW b \in Accounts, NEW j \in Jids, told'[b] # "overtaken",
               <<b, j>> \in seeding' \cup pairSuccess'
        PROVE  j = paired'[b]
    <3>1. CASE b = a
      BY <2>1, <2>2, <2>4, <2>6, <3>1
    <3>2. CASE b # a
      BY <2>1, <2>2, <2>6, <3>2 DEF CacheFacts
    <3> QED BY <3>1, <3>2
  <2> QED BY <2>5, <2>6 DEF CacheFacts
<1>5. ASSUME NEW a \in Accounts, Logout(a) PROVE CacheFacts'
  <2>1. /\ UNCHANGED <<jids, seeding, pairSuccess>>
        /\ told'[a] \in {"no", "overtaken"}
        /\ Arriving(a) => told'[a] = "overtaken"
        /\ told[a] = "overtaken" => told'[a] = "overtaken"
        /\ \A b \in Accounts \ {a} : told'[b] = told[b] /\ paired'[b] = paired[b]
    BY <1>5 DEF Logout, TypeOK
  <2>2. ASSUME NEW b \in Accounts, told'[b] = "yes"
        PROVE  paired'[b] # NoJid /\ jids'[b] = paired'[b]
    BY <2>1, <2>2 DEF CacheFacts
  <2>3. ASSUME NEW b \in Accounts, NEW j \in Jids, told'[b] # "overtaken",
               <<b, j>> \in seeding' \cup pairSuccess'
        PROVE  j = paired'[b]
    <3>1. b # a
      BY <2>1, <2>3 DEF Arriving
    <3> QED BY <2>1, <2>3, <3>1 DEF CacheFacts
  <2> QED BY <2>2, <2>3 DEF CacheFacts
<1>6. CASE AccountStep
  <2>1. ASSUME NEW a \in Accounts, NEW jid \in Jids, SetAccountJID(a, jid) PROVE CacheFacts'
    BY <1>3, <2>1 DEF SetAccountJID
  <2>2. ASSUME NEW a \in Accounts, Connect(a) PROVE CacheFacts'
    BY <1>1, <2>2 DEF Connect
  <2> QED BY <1>2, <1>5, <1>6, <2>1, <2>2 DEF AccountStep
<1>7. CASE ProducerStep
  <2>1. ASSUME NEW a \in Accounts, NEW jid \in Jids, SinkPairSuccess(a, jid) PROVE CacheFacts'
    BY <1>3, <2>1 DEF SinkPairSuccess
  <2>2. ASSUME NEW a \in Accounts, (\E batch \in Batches : Sink(a, batch)) \/ PumpItem(a) \/ PumpEnds(a)
        PROVE  CacheFacts'
    BY <1>1, <2>2 DEF Sink, PumpItem, PumpEnds, accountVars
  <2>3. ASSUME NEW p \in Producers, Stamp(p) \/ Send(p) \/ SendOnClosed(p) PROVE CacheFacts'
    BY <1>1, <2>3 DEF Stamp, Send, Sent, SendOnClosed, accountVars
  <2> QED BY <1>4, <1>7, <2>1, <2>2, <2>3 DEF ProducerStep
<1>8. CASE StreamStep
  BY <1>1, <1>8
     DEF StreamStep, StreamEvents, StreamReceive, StreamSend, StreamBreaks, StreamEof, accountVars
<1>9. CASE MainStep
  BY <1>1, <1>9 DEF MainStep, DisconnectClients, CloseBus, StopServer, accountVars
<1>10. CASE UNCHANGED vars
  BY <1>1, <1>10 DEF vars, accountVars
<1> QED BY <1>6, <1>7, <1>8, <1>9, <1>10 DEF Next, Exited

(* The list of p has no JID but on the event of a pairing, and on its head *)
(* once that is numbered.                                                  *)
Plain(p) ==
    \A i \in 1..Len(todo[p]) :
        todo[p][i].kind # "pair_success" /\ (p \notin stamped \/ i # 1)
            => todo[p][i].jid = NoJid

(* A list that a step leaves alone keeps its facts.                        *)
LEMMA PlainFrame ==
  ASSUME NEW p, Plain(p), todo'[p] = todo[p], p \in stamped' <=> p \in stamped
  PROVE  Plain(p)'
BY DEF Plain

(* Every step keeps what is known of JIDs.                                 *)
LEMMA JidStep ==
  ASSUME TypeOK, Numbers, JidFacts, [Next]_vars
  PROVE  JidFacts'
<1>0. CacheFacts' /\ \A o \in Producers : Plain(o)
  BY CacheStep DEF JidFacts, PlainFacts, Plain
<1>1. SUFFICES \A o \in Producers : Plain(o)'
  BY <1>0 DEF JidFacts, PlainFacts, Plain
<1>2. CASE UNCHANGED producerVars
  BY <1>0, <1>2, PlainFrame DEF producerVars
<1>3. ASSUME NEW p \in Producers, NEW events \in Seq(Events), Begin(p, events),
             \A i \in 1..Len(events) : events[i].kind = "pair_success" \/ events[i].jid = NoJid
      PROVE  \A o \in Producers : Plain(o)'
  <2>1. /\ todo'[p] = events /\ stamped' = stamped
        /\ \A o \in Producers \ {p} : todo'[o] = todo[o]
    BY <1>3, BeginEffect DEF TypeOK
  <2>2. Plain(p)'
    BY <1>3, <2>1 DEF Plain
  <2>3. ASSUME NEW o \in Producers \ {p} PROVE Plain(o)'
    BY <1>0, <2>1, <2>3, PlainFrame
  <2> QED BY <2>2, <2>3
<1>4. ASSUME NEW p \in Producers, NEW kind \in Kinds, NEW jid \in Jids \cup {NoJid},
             Begin(p, <<Event(p, kind, jid)>>), kind = "pair_success" \/ jid = NoJid
      PROVE  \A o \in Producers : Plain(o)'
  <2> DEFINE new == <<Event(p, kind, jid)>>
  <2>1. new \in Seq(Events) /\ Len(new) = 1
    BY EventType
  <2>2. new[1].kind = kind /\ new[1].jid = jid
    BY DEF Event
  <2> HIDE DEF new
  <2>3. \A i \in 1..Len(new) : new[i].kind = "pair_success" \/ new[i].jid = NoJid
    BY <1>4, <2>1, <2>2
  <2>4. Begin(p, new)
    BY <1>4 DEF new
  <2> QED BY <1>3, <2>1, <2>3, <2>4
<1>5. ASSUME NEW a \in Accounts, Begins(a) PROVE \A o \in Producers : Plain(o)'
  <2>1. /\ <<a, "dispatch">> \in Producers /\ <<a, "pump">> \in Producers
        /\ "pair_success" \in Kinds /\ "qr" \in Kinds
    BY DEF Producers, Kinds
  <2>2. ASSUME NEW batch \in Batches, Sink(a, batch) PROVE \A o \in Producers : Plain(o)'
    <3> DEFINE new == [i \in 1..Len(batch) |-> Event(<<a, "dispatch">>, batch[i], NoJid)]
    <3>1. new \in Seq(Events) /\ Len(new) = Len(batch)
      BY BatchType
    <3>2. \A i \in 1..Len(batch) : new[i].jid = NoJid
      BY DEF Event
    <3>3. Begin(<<a, "dispatch">>, new)
      BY <2>2 DEF Sink
    <3> HIDE DEF new
    <3> QED BY <1>3, <2>1, <3>1, <3>2, <3>3
  <2>3. ASSUME NEW jid \in Jids, SinkPairSuccess(a, jid) PROVE \A o \in Producers : Plain(o)'
    <3>1. Begin(<<a, "dispatch">>, <<Event(<<a, "dispatch">>, "pair_success", jid)>>)
      BY <2>3 DEF SinkPairSuccess
    <3> QED BY <1>4, <2>1, <3>1
  <2>4. ASSUME PumpItem(a) PROVE \A o \in Producers : Plain(o)'
    <3>1. Begin(<<a, "pump">>, <<Event(<<a, "pump">>, "qr", NoJid)>>)
      BY <2>4 DEF PumpItem
    <3> QED BY <1>4, <2>1, <3>1
  <2> QED BY <1>5, <2>2, <2>3, <2>4 DEF Begins
<1>6. ASSUME NEW p \in Producers, Stamp(p) PROVE \A o \in Producers : Plain(o)'
  <2> DEFINE new == <<StampedEvent(p)>> \o Tail(todo[p])
  <2>1. /\ todo[p] \in Seq(Events) /\ todo[p] # <<>>
        /\ p \notin stamped /\ stamped' = stamped \cup {p}
        /\ todo' = [todo EXCEPT ![p] = new]
        /\ StampedEvent(p) \in Events
    BY <1>6, StampEffect
  <2>2. /\ Len(new) = Len(todo[p])
        /\ \A i \in 2..Len(todo[p]) : new[i] = todo[p][i]
    BY <2>1, NewHead
  <2> HIDE DEF new
  <2>3. todo'[p] = new /\ \A o \in Producers \ {p} : todo'[o] = todo[o]
    BY <2>1 DEF TypeOK
  <2>4. ASSUME NEW i \in 1..Len(new), i # 1, new[i].kind # "pair_success"
        PROVE  new[i].jid = NoJid
    <3>1. i \in 2..Len(todo[p]) /\ i \in 1..Len(todo[p])
      BY <2>2, <2>4
    <3>2. new[i] = todo[p][i]
      BY <2>2, <3>1
    <3> QED BY <1>0, <2>1, <2>4, <3>1, <3>2 DEF Plain
  <2>5. Plain(p)'
    BY <2>1, <2>3, <2>4 DEF Plain
  <2>6. ASSUME NEW o \in Producers \ {p} PROVE Plain(o)'
    BY <1>0, <2>1, <2>3, <2>6, PlainFrame
  <2> QED BY <2>5, <2>6
<1>7. ASSUME NEW p \in Producers, Send(p) \/ SendOnClosed(p)
      PROVE  \A o \in Producers : Plain(o)'
  <2>1. /\ Tailed(p) /\ \A o \in Producers \ {p} : todo'[o] = todo[o]
    BY <1>7, SendEffect
  <2>2. p \in stamped /\ stamped' = stamped \ {p}
    BY <2>1 DEF Tailed
  <2>3. \A i \in 1..Len(todo'[p]) : i + 1 \in 2..Len(todo[p]) /\ todo'[p][i] = todo[p][i + 1]
    BY <2>1, TailedFacts
  <2>4. ASSUME NEW i \in 1..Len(todo'[p]), todo'[p][i].kind # "pair_success"
        PROVE  todo'[p][i].jid = NoJid
    <3>1. i + 1 \in 1..Len(todo[p]) /\ i + 1 # 1
      BY <2>3
    <3> QED BY <1>0, <2>3, <2>4, <3>1 DEF Plain
  <2>5. Plain(p)'
    BY <2>4 DEF Plain
  <2>6. ASSUME NEW o \in Producers \ {p} PROVE Plain(o)'
    BY <1>0, <2>1, <2>2, <2>6, PlainFrame
  <2> QED BY <2>5, <2>6
<1> QED BY <1>2, <1>5, <1>6, <1>7, ListStep

-----------------------------------------------------------------------------
(* The inductive invariant, and what follows from it.                      *)

(* The invariant holds in the initial states.                              *)
LEMMA InitInvariant == ASSUME Init PROVE IInv
<1>1. TypeOK
  BY InitType
<1>2. Pipeline = <<>> /\ Len(Pipeline) = 0
  BY DEF Init, Pipeline
<1>3. Cardinality(stamped) = 0 /\ IsFiniteSet(stamped) /\ stamped = {}
  BY FS_EmptySet DEF Init
<1>4. Numbers
  BY <1>2, <1>3 DEF Init, Numbers, Numbered, Held
<1>5. \A p \in Producers : todo[p] = <<>> /\ Len(todo[p]) = 0
  BY DEF Init
<1>6. OwnEvents
  BY <1>5 DEF OwnEvents
<1>7. JidFacts
  BY <1>5 DEF Init, JidFacts, CacheFacts, PlainFacts
<1> QED BY <1>1, <1>4, <1>6, <1>7, InvariantParts

(* Every step keeps the invariant.                                         *)
LEMMA InvariantStep == ASSUME IInv, [Next]_vars PROVE IInv'
<1>1. TypeOK /\ Numbers /\ OwnEvents /\ JidFacts
  BY InvariantParts
<1>2. TypeOK'
  BY <1>1, TypeStep
<1>3. Numbers' /\ OwnEvents' /\ JidFacts'
  BY <1>1, <1>2, NumbersStep, OwnEventsStep, JidStep
<1> QED BY <1>2, <1>3, InvariantParts

(* The invariant holds in every state.                                     *)
LEMMA Invariance == Spec => []IInv
BY InitInvariant, InvariantStep, PTL DEF Spec

(* Every variable of the bus and of its users keeps its type; in           *)
(* particular the channel never holds more than its capacity.              *)
THEOREM TypeSafety == Spec => []TypeOK
<1>1. IInv => TypeOK
  BY DEF IInv
<1> QED BY <1>1, Invariance, PTL

(* For any number of goroutines that emit at once: a number is never given *)
(* twice, and every number is waiting, delivered, lost downstream or       *)
(* counted in dropCount, so a gap the client sees is a loss the sidecar    *)
(* can account for.                                                        *)
THEOREM NumbersAccount == Spec => []Accounting
<1>1. IInv => Accounting
  BY DEF IInv
<1> QED BY <1>1, Invariance, PTL

(* The events of each goroutine stay in the order of their numbers on the  *)
(* way to the client, whatever the other goroutines do in between.         *)
THEOREM OrderOfGoroutines == Spec => []GoroutineOrder
<1>1. IInv => GoroutineOrder
  BY DEF IInv
<1> QED BY <1>1, Invariance, PTL

(* Once its JID has reached the cache, an event of an account is numbered  *)
(* with the JID the account is paired with, for any number of              *)
(* EnsureAccount calls and pairings under way: until a logout, and unless  *)
(* a logout has overtaken a JID on its way to the cache.                   *)
THEOREM JidsAreStamped == Spec => PairedEventsCarryJid
<1> DEFINE Stamped(p) ==
      /\ p \in stamped' \ stamped
      /\ told[AccountOf(p)] = "yes"
      /\ Head(todo[p]).kind # "pair_success"
      => paired[AccountOf(p)] # NoJid /\ Head(todo'[p]).jid = paired[AccountOf(p)]
<1>1. ASSUME IInv, [Next]_vars, NEW p \in Producers, p \in stamped' \ stamped
      PROVE  Stamp(p)
  <2>1. CASE UNCHANGED producerVars
    BY <1>1, <2>1 DEF producerVars
  <2>2. ASSUME NEW a \in Accounts, Begins(a) PROVE UNCHANGED stamped
    BY <2>2 DEF Begins, Sink, SinkPairSuccess, PumpItem, Begin
  <2>3. ASSUME NEW o \in Producers, Stamp(o) PROVE stamped' = stamped \cup {o}
    BY <2>3 DEF Stamp
  <2>4. ASSUME NEW o \in Producers, Send(o) \/ SendOnClosed(o) PROVE stamped' = stamped \ {o}
    BY <2>4 DEF Send, Sent, SendOnClosed
  <2>5. TypeOK
    BY <1>1 DEF IInv
  <2> QED BY <1>1, <2>1, <2>2, <2>3, <2>4, <2>5, ListStep
<1>2. ASSUME IInv, NEW p \in Producers, Stamp(p), told[AccountOf(p)] = "yes",
             Head(todo[p]).kind # "pair_success"
      PROVE  paired[AccountOf(p)] # NoJid /\ Head(todo'[p]).jid = paired[AccountOf(p)]
  <2> DEFINE new == <<StampedEvent(p)>> \o Tail(todo[p])
  <2>1. TypeOK /\ Numbers /\ CacheFacts /\ PlainFacts
    BY <1>2, InvariantParts DEF JidFacts
  <2>2. /\ todo[p] \in Seq(Events) /\ todo[p] # <<>> /\ p \notin stamped
        /\ StampedEvent(p) \in Events
        /\ todo' = [todo EXCEPT ![p] = new]
        /\ StampedEvent(p).jid
             = IF Head(todo[p]).jid = NoJid THEN jids[AccountOf(p)] ELSE Head(todo[p]).jid
    BY <1>2, <2>1, StampEffect
  <2>3. Head(new) = StampedEvent(p)
    BY <2>2, NewHead
  <2> HIDE DEF new
  <2>4. Head(todo'[p]).jid = StampedEvent(p).jid
    BY <2>1, <2>2, <2>3 DEF TypeOK
  <2>5. AccountOf(p) \in Accounts
    BY DEF Producers, AccountOf
  <2>6. paired[AccountOf(p)] # NoJid /\ jids[AccountOf(p)] = paired[AccountOf(p)]
    BY <1>2, <2>1, <2>5 DEF CacheFacts
  <2>7. Head(todo[p]) = todo[p][1] /\ 1 \in 1..Len(todo[p])
    BY <2>2, LenProperties
  <2>8. Head(todo[p]).jid = NoJid
    BY <1>2, <2>1, <2>2, <2>7 DEF PlainFacts
  <2> QED BY <2>2, <2>4, <2>6, <2>8
<1>3. IInv /\ [Next]_vars => [\A p \in Producers : Stamped(p)]_vars
  BY <1>1, <1>2
<1> QED BY <1>3, Invariance, PTL DEF Spec, PairedEventsCarryJid

-----------------------------------------------------------------------------
(* Refinement.                                                             *)

(* What one goroutine more, or one fewer, has in hand.                     *)
LEMMA HoldingPuts ==
  ASSUME NEW p \in Producers, stamped' = stamped \cup {p},
         \A o \in Producers \ {p} : todo'[o] = todo[o]
  PROVE  Holding' = [Holding EXCEPT ![p] = <<Head(todo'[p])>>]
BY DEF Holding

LEMMA HoldingTakes ==
  ASSUME NEW p \in Producers, stamped' = stamped \ {p},
         \A o \in Producers \ {p} : todo'[o] = todo[o]
  PROVE  Holding' = [Holding EXCEPT ![p] = <<>>]
BY DEF Holding

(* A step that touches neither a numbered event nor the way to the client. *)
LEMMA StreamFrame ==
  ASSUME stamped' = stamped, \A p \in stamped : todo'[p] = todo[p],
         UNCHANGED <<seq, buffer, dropCount, inHand, sent, lost>>
  PROVE  UNCHANGED Stream!vars
<1>1. Holding' = Holding
  BY DEF Holding
<1>2. Way' = Way
  BY DEF Way
<1> QED BY <1>1, <1>2 DEF Stream!vars

(* Begin gives events to a goroutine that has none.                        *)
LEMMA BeginStutters ==
  ASSUME TypeOK, Numbers, NEW p \in Producers, NEW events \in Seq(Events), Begin(p, events),
         UNCHANGED <<busVars, streamVars, lost>>
  PROVE  UNCHANGED Stream!vars
<1>1. /\ todo[p] = <<>> /\ stamped' = stamped /\ todo' = [todo EXCEPT ![p] = events]
  BY BeginEffect
<1>2. p \notin stamped
  BY <1>1 DEF Numbers, Held
<1>3. \A o \in stamped : todo'[o] = todo[o]
  BY <1>1, <1>2 DEF TypeOK
<1> QED BY <1>1, <1>3, StreamFrame DEF busVars, streamVars

(* Stamp takes the next number.                                            *)
LEMMA StampNumbers ==
  ASSUME TypeOK, Numbers, OwnEvents, NEW p \in Producers, Stamp(p)
  PROVE  Stream!Number(p)
<1> DEFINE e == StampedEvent(p)
           new == <<e>> \o Tail(todo[p])
<1>1. /\ todo[p] \in Seq(Events) /\ todo[p] # <<>> /\ p \notin stamped
      /\ stamped' = stamped \cup {p} /\ seq' = seq + 1
      /\ e \in Events /\ todo' = [todo EXCEPT ![p] = new]
      /\ e.seq = seq + 1 /\ e.from = Head(todo[p]).from
  BY StampEffect
<1>2. e.from = p
  <2>1. Head(todo[p]) = todo[p][1] /\ 1 \in 1..Len(todo[p])
    BY <1>1, LenProperties
  <2> QED BY <1>1, <2>1 DEF OwnEvents
<1> HIDE DEF e
<1>3. Head(new) = e
  BY <1>1, NewHead
<1> HIDE DEF new
<1>4. todo'[p] = new /\ \A o \in Producers \ {p} : todo'[o] = todo[o]
  BY <1>1 DEF TypeOK
<1>5. Holding' = [Holding EXCEPT ![p] = <<e>>]
  BY <1>1, <1>3, <1>4, HoldingPuts
<1>6. /\ e.kind \in Kinds /\ e.jid \in Jids \cup {NoJid}
      /\ e = [seq |-> seq + 1, from |-> p, kind |-> e.kind, jid |-> e.jid]
  BY <1>1, <1>2 DEF Events
<1>7. Holding[p] = <<>>
  BY <1>1 DEF Holding
<1>8. UNCHANGED <<Way, sent, dropCount + lost>>
  BY DEF Stamp, Way, streamVars
<1> QED BY <1>1, <1>5, <1>6, <1>7, <1>8 DEF Stream!Number

(* Send puts the event of a goroutine on the way or drops it.              *)
LEMMA SendPuts ==
  ASSUME TypeOK, Numbers, NEW p \in Producers, Send(p)
  PROVE  Stream!Put(p) \/ Stream!Discard(p)
<1> DEFINE e == Head(todo[p])
<1>1. /\ p \in stamped /\ stamped' = stamped \ {p}
      /\ UNCHANGED <<seq, sent, inHand, lost>>
  BY DEF Send, Ready, Sent, streamVars
<1>2. \A o \in Producers \ {p} : todo'[o] = todo[o]
  BY DEF TypeOK, Send, Sent
<1>3. Holding' = [Holding EXCEPT ![p] = <<>>]
  BY <1>1, <1>2, HoldingTakes
<1>4. Holding[p] = <<e>> /\ Holding[p] # <<>>
  BY <1>1 DEF Holding
<1>5. e \in Events
  BY <1>1, StampedFacts
<1> HIDE DEF e
<1>6. CASE buffer' = Append(buffer, e) /\ dropCount' = dropCount
  <2>1. inHand \in Seq(Events) /\ buffer \in Seq(Events) /\ <<e>> \in Seq(Events)
    BY <1>5 DEF TypeOK
  <2>2. Append(buffer, e) = buffer \o <<e>>
    BY <1>5, <2>1, AppendIsConcat
  <2>3. Way' = Way \o <<e>>
    BY <1>1, <1>6, <2>1, <2>2, ConcatAssociative DEF Way
  <2> QED BY <1>1, <1>3, <1>4, <1>6, <2>3 DEF Stream!Put
<1>7. CASE buffer' = buffer /\ dropCount' = dropCount + 1
  <2>1. Way' = Way
    BY <1>1, <1>7 DEF Way
  <2>2. dropCount' + lost' = (dropCount + lost) + 1
    BY <1>1, <1>7 DEF TypeOK
  <2> QED BY <1>1, <1>3, <1>4, <2>1, <2>2 DEF Stream!Discard
<1> QED BY <1>6, <1>7 DEF Send, e

(* A send on the closed channel loses the event.                           *)
LEMMA SendOnClosedDiscards ==
  ASSUME TypeOK, NEW p \in Producers, SendOnClosed(p)
  PROVE  Stream!Discard(p)
<1>1. /\ p \in stamped /\ stamped' = stamped \ {p}
      /\ UNCHANGED <<seq, sent, inHand, buffer, dropCount>> /\ lost' = lost + 1
  BY DEF SendOnClosed, Ready, busVars, streamVars
<1>2. \A o \in Producers \ {p} : todo'[o] = todo[o]
  BY DEF TypeOK, SendOnClosed
<1>3. Holding' = [Holding EXCEPT ![p] = <<>>]
  BY <1>1, <1>2, HoldingTakes
<1>4. Holding[p] # <<>>
  BY <1>1 DEF Holding
<1>5. Way' = Way
  BY <1>1 DEF Way
<1>6. dropCount' + lost' = (dropCount + lost) + 1
  BY <1>1 DEF TypeOK
<1> QED BY <1>1, <1>3, <1>4, <1>5, <1>6 DEF Stream!Discard

(* The front of the way is what the handler has in hand, or, when it has   *)
(* nothing, the head of the channel.                                       *)
LEMMA WayParts ==
  ASSUME TypeOK
  PROVE  /\ inHand = <<>> => Way = buffer
         /\ inHand # <<>> => /\ inHand = <<Head(inHand)>> /\ Len(inHand) = 1
                             /\ Way # <<>> /\ Head(Way) = Head(inHand) /\ Tail(Way) = buffer
<1>1. inHand \in Seq(Events) /\ Len(inHand) \in Nat /\ Len(inHand) <= 1 /\ buffer \in Seq(Events)
  BY LenProperties DEF TypeOK
<1>2. inHand = <<>> => Way = buffer
  BY <1>1, ConcatEmptySeq DEF Way
<1>3. ASSUME inHand # <<>>
      PROVE  /\ inHand = <<Head(inHand)>> /\ Len(inHand) = 1
             /\ Way # <<>> /\ Head(Way) = Head(inHand) /\ Tail(Way) = buffer
  <2> DEFINE e == Head(inHand)
  <2>1. Len(inHand) = 1 /\ e = inHand[1] /\ e \in Events
    <3> DEFINE k == Len(inHand)
    <3>1. k \in Nat /\ k <= 1 /\ k # 0
      BY <1>1, <1>3, EmptySeq
    <3> HIDE DEF k
    <3>2. k = 1
      BY <3>1
    <3>3. e \in Events
      BY <1>1, <1>3, HeadTailProperties
    <3> QED BY <3>2, <3>3 DEF k
  <2>2. inHand = <<e>>
    BY <1>1, <2>1
  <2> HIDE DEF e
  <2>3. Way = <<e>> \o buffer
    BY <2>2 DEF Way
  <2>4. /\ Way \in Seq(Events) /\ Len(Way) = 1 + Len(buffer) /\ Len(buffer) \in Nat
        /\ \A i \in 1..Len(Way) : Way[i] = IF i <= 1 THEN e ELSE buffer[i - 1]
    BY <1>1, <2>1, <2>3, ConcatProperties, LenProperties
  <2>5. Way # <<>> /\ Head(Way) = e
    BY <2>4
  <2>6. /\ Tail(Way) \in Seq(Events) /\ Len(Tail(Way)) = Len(buffer)
        /\ \A i \in 1..Len(Tail(Way)) : Tail(Way)[i] = Way[i + 1]
    BY <2>4, <2>5, HeadTailProperties
  <2>7. \A i \in 1..Len(buffer) : Tail(Way)[i] = buffer[i]
    BY <2>4, <2>6
  <2>8. Tail(Way) = buffer
    BY <1>1, <2>6, <2>7, SeqEqual
  <2> QED BY <2>1, <2>2, <2>5, <2>8 DEF e
<1> QED BY <1>2, <1>3

(* The handler takes an event off the channel, or loses a soft one.        *)
LEMMA ReceiveLoses ==
  ASSUME TypeOK, StreamReceive
  PROVE  UNCHANGED Stream!vars \/ Stream!Lose
<1>1. /\ buffer \in Seq(Events) /\ buffer # <<>> /\ inHand = <<>> /\ buffer' = Tail(buffer)
      /\ UNCHANGED <<stamped, todo, seq, dropCount, sent>>
  BY DEF TypeOK, StreamReceive, producerVars
<1>2. Way = buffer
  BY <1>1, WayParts
<1>3. Holding' = Holding
  BY <1>1 DEF Holding
<1>4. CASE inHand' = <<Head(buffer)>> /\ lost' = lost
  <2>1. Head(buffer) \in Events /\ Tail(buffer) \in Seq(Events)
    BY <1>1, HeadTailProperties
  <2>2. <<Head(buffer)>> \o Tail(buffer) = buffer
    BY <1>1, NewHead, SeqEqual, <2>1
  <2>3. Way' = Way
    BY <1>1, <1>2, <1>4, <2>2 DEF Way
  <2> QED BY <1>1, <1>3, <1>4, <2>3 DEF Stream!vars
<1>5. CASE inHand' = inHand /\ lost' = lost + 1
  <2>1. Way' = Tail(Way)
    <3>1. Tail(buffer) \in Seq(Events)
      BY <1>1, HeadTailProperties
    <3> QED BY <1>1, <1>2, <1>5, <3>1, ConcatEmptySeq DEF Way
  <2>2. dropCount' + lost' = (dropCount + lost) + 1
    BY <1>1, <1>5 DEF TypeOK
  <2> QED BY <1>1, <1>2, <1>3, <2>1, <2>2 DEF Stream!Lose
<1> QED BY <1>4, <1>5 DEF StreamReceive

(* The handler sends what it has in hand.                                  *)
LEMMA SendDelivers ==
  ASSUME TypeOK, StreamSend
  PROVE  Stream!Deliver
<1>1. /\ inHand # <<>> /\ inHand' = <<>> /\ sent' = sent \o inHand
      /\ UNCHANGED <<stamped, todo, seq, buffer, dropCount, lost>>
  BY DEF StreamSend, busVars, producerVars
<1>2. /\ inHand = <<Head(inHand)>> /\ Way # <<>> /\ Head(Way) = Head(inHand)
      /\ Tail(Way) = buffer
  BY <1>1, WayParts
<1>3. Head(inHand) \in Events /\ sent \in Seq(Events) /\ buffer \in Seq(Events)
  BY <1>1, HeadTailProperties DEF TypeOK
<1>4. sent' = Append(sent, Head(Way))
  BY <1>1, <1>2, <1>3, AppendIsConcat
<1>5. Way' = Tail(Way)
  BY <1>1, <1>2, <1>3, ConcatEmptySeq DEF Way
<1>6. Holding' = Holding
  BY <1>1 DEF Holding
<1> QED BY <1>1, <1>2, <1>4, <1>5, <1>6 DEF Stream!Deliver

(* The stream ends with an event in hand, or without.                      *)
LEMMA EndLoses ==
  ASSUME TypeOK, inHand' = <<>>, lost' = lost + Len(inHand),
         UNCHANGED <<sent, buffer, stamped, todo, seq, dropCount>>
  PROVE  UNCHANGED Stream!vars \/ Stream!Lose
<1>1. lost \in Nat /\ dropCount \in Nat /\ buffer \in Seq(Events)
  BY DEF TypeOK
<1>2. Holding' = Holding
  BY DEF Holding
<1>3. Way' = buffer
  BY <1>1, ConcatEmptySeq DEF Way
<1>4. CASE inHand = <<>>
  <2>1. Len(inHand) = 0
    BY <1>4
  <2>2. lost' = lost /\ Way' = Way
    BY <1>1, <1>3, <1>4, <2>1, WayParts
  <2> QED BY <1>2, <2>2 DEF Stream!vars
<1>5. CASE inHand # <<>>
  <2>1. Len(inHand) = 1 /\ Way # <<>> /\ Tail(Way) = buffer
    BY <1>5, WayParts
  <2>2. dropCount' + lost' = (dropCount + lost) + 1
    BY <1>1, <2>1
  <2> QED BY <1>2, <1>3, <2>1, <2>2 DEF Stream!Lose
<1> QED BY <1>4, <1>5

(* What numbers the events and brings them to the client implements a      *)
(* NumberedStream, for any number of goroutines and any capacity: an event *)
(* takes the next number, and is put on the way in one step or missed;     *)
(* the client gets what is on the way in that order, each event once, and  *)
(* every miss is counted once (bus.go 192-214, main.go 468-497).           *)
THEOREM StreamRefinement == Spec => ImplementsNumberedStream
<1>1. Init => Stream!Init
  <2> SUFFICES ASSUME Init PROVE Stream!Init
    OBVIOUS
  <2>1. Holding = [p \in Producers |-> <<>>]
    BY DEF Init, Holding
  <2>2. Way = <<>>
    BY ConcatEmptySeq, EmptySeq DEF Init, Way
  <2> QED BY <2>1, <2>2 DEF Init, Stream!Init
<1>2. IInv /\ [Next]_vars => [Stream!Next]_(Stream!vars)
  <2> SUFFICES ASSUME IInv, [Next]_vars PROVE Stream!Next \/ UNCHANGED Stream!vars
    BY DEF Stream!Next
  <2>1. TypeOK /\ Numbers /\ OwnEvents
    BY InvariantParts
  <2>2. CASE AccountStep
    <3>1. UNCHANGED <<busVars, producerVars, streamVars, lost>>
      BY <2>2 DEF AccountStep, EnsureAccount, SetAccountJID, Connect, Logout
    <3> QED BY <3>1, StreamFrame DEF busVars, producerVars, streamVars
  <2>3. ASSUME NEW a \in Accounts, Begins(a) PROVE UNCHANGED Stream!vars
    <3>1. ASSUME NEW batch \in Batches, Sink(a, batch) PROVE UNCHANGED Stream!vars
      <4> DEFINE new == [i \in 1..Len(batch) |-> Event(<<a, "dispatch">>, batch[i], NoJid)]
      <4>1. new \in Seq(Events) /\ <<a, "dispatch">> \in Producers
        BY BatchType DEF Producers
      <4>2. Begin(<<a, "dispatch">>, new) /\ UNCHANGED <<busVars, streamVars, lost>>
        BY <3>1 DEF Sink
      <4> HIDE DEF new
      <4> QED BY <2>1, <4>1, <4>2, BeginStutters
    <3>2. ASSUME NEW p \in Producers, NEW kind \in Kinds, NEW jid \in Jids \cup {NoJid},
                 Begin(p, <<Event(p, kind, jid)>>), UNCHANGED <<busVars, streamVars, lost>>
          PROVE  UNCHANGED Stream!vars
      <4>1. <<Event(p, kind, jid)>> \in Seq(Events)
        BY EventType
      <4> QED BY <2>1, <3>2, <4>1, BeginStutters
    <3>3. <<a, "dispatch">> \in Producers /\ <<a, "pump">> \in Producers
      BY DEF Producers
    <3>4. ASSUME NEW jid \in Jids, SinkPairSuccess(a, jid) PROVE UNCHANGED Stream!vars
      <4>1. /\ Begin(<<a, "dispatch">>, <<Event(<<a, "dispatch">>, "pair_success", jid)>>)
            /\ UNCHANGED <<busVars, streamVars, lost>> /\ "pair_success" \in Kinds
        BY <3>4 DEF SinkPairSuccess, Kinds
      <4> QED BY <3>2, <3>3, <4>1
    <3>5. ASSUME PumpItem(a) PROVE UNCHANGED Stream!vars
      <4>1. /\ Begin(<<a, "pump">>, <<Event(<<a, "pump">>, "qr", NoJid)>>)
            /\ UNCHANGED <<busVars, streamVars, lost>> /\ "qr" \in Kinds
        BY <3>5 DEF PumpItem, Kinds
      <4> QED BY <3>2, <3>3, <4>1
    <3> QED BY <2>3, <3>1, <3>4, <3>5 DEF Begins
  <2>4. ASSUME NEW a \in Accounts, PumpEnds(a) \/ \E jid \in Jids : Pair(a, jid)
        PROVE  UNCHANGED Stream!vars
    BY <2>4, StreamFrame DEF PumpEnds, Pair, busVars, producerVars, streamVars
  <2>5. ASSUME NEW p \in Producers, Stamp(p) \/ Send(p) \/ SendOnClosed(p)
        PROVE  Stream!Next
    <3>1. Stream!Number(p) \/ Stream!Put(p) \/ Stream!Discard(p)
      BY <2>1, <2>5, StampNumbers, SendPuts, SendOnClosedDiscards
    <3> QED BY <3>1 DEF Stream!Next
  <2>6. CASE StreamStep
    <3>1. ASSUME NEW soft \in BOOLEAN, StreamEvents(soft) PROVE UNCHANGED Stream!vars
      BY <3>1, StreamFrame DEF StreamEvents, busVars, producerVars
    <3>2. StreamReceive => UNCHANGED Stream!vars \/ Stream!Lose
      BY <2>1, ReceiveLoses
    <3>3. StreamSend => Stream!Deliver
      BY <2>1, SendDelivers
    <3>4. StreamBreaks => UNCHANGED Stream!vars \/ Stream!Lose
      BY <2>1, EndLoses DEF StreamBreaks, busVars, producerVars
    <3>5. StreamEof => UNCHANGED Stream!vars
      BY StreamFrame DEF StreamEof, busVars, producerVars
    <3>6. Stream!Lose \/ Stream!Deliver => Stream!Next
      BY DEF Stream!Next
    <3> QED BY <2>6, <3>1, <3>2, <3>3, <3>4, <3>5, <3>6 DEF StreamStep
  <2>7. CASE MainStep
    <3>1. DisconnectClients \/ CloseBus => UNCHANGED Stream!vars
      BY StreamFrame DEF DisconnectClients, CloseBus, busVars, producerVars, streamVars
    <3>2. StopServer => UNCHANGED Stream!vars \/ Stream!Lose
      BY <2>1, EndLoses DEF StopServer, busVars, producerVars
    <3>3. Stream!Lose => Stream!Next
      BY DEF Stream!Next
    <3> QED BY <2>7, <3>1, <3>2, <3>3 DEF MainStep
  <2>8. CASE UNCHANGED vars
    BY <2>8, StreamFrame DEF vars, busVars, producerVars, streamVars
  <2>9. CASE ProducerStep
    <3>1. \/ \E a \in Accounts : \/ Begins(a) \/ PumpEnds(a)
                                  \/ \E jid \in Jids : Pair(a, jid)
          \/ \E p \in Producers : Stamp(p) \/ Send(p) \/ SendOnClosed(p)
      BY <2>9 DEF ProducerStep, Begins
    <3> QED BY <2>3, <2>4, <2>5, <3>1
  <2> QED BY <2>2, <2>6, <2>7, <2>8, <2>9 DEF Next, Exited
<1> QED BY <1>1, <1>2, Invariance, PTL DEF Spec, ImplementsNumberedStream, Stream!Spec
=============================================================================
