------------------------- MODULE SubscriptionProofs -------------------------
(***************************************************************************)
(* What Subscription promises whatever the bounds and however many         *)
(* readers: its types, the order every reader sees, and what is still      *)
(* fanned out once the subscription is closed.                             *)
(***************************************************************************)
EXTENDS Subscription, SequenceTheorems, TLAPS

\* The socket and the promise of connect() go together; readers exist once it is resolved.
Handshake ==
  /\ connect \in {"idle", "fetching"} => socket = "none"
  /\ socket = "connecting" => connect = "pending"
  /\ connect # "resolved" => \A r \in Readers : stage[r] = "none"

\* A reader that has not been made has read nothing; nothing waits for a writer that is
\* ready; a reader hears from where it was made.
Fed ==
  \A r \in Readers : /\ stage[r] = "none" => got[r] = <<>>
                     /\ queue[r] = <<>> => waiting[r] = <<>>
                     /\ from[r] <= Len(fanned)

SubscriptionInv == TypeOK /\ Handshake /\ Fed /\ InOrder

-----------------------------------------------------------------------------
(* Sequences.                                                              *)

LEMMA PrefixIff ==
  ASSUME NEW S, NEW s \in Seq(S), NEW t \in Seq(S)
  PROVE  IsPrefix(s, t) <=> Len(s) <= Len(t) /\ \A i \in 1..Len(s) : s[i] = t[i]
<1>1. SubSeq(s, 1, Len(s)) = s
  BY SubSeqFull
<1>2. ASSUME Len(s) <= Len(t)
      PROVE  SubSeq(s, 1, Len(s)) = SubSeq(t, 1, Len(s)) <=> \A i \in 1..Len(s) : s[i] = t[i]
  <2>1. Len(s) \in Nat /\ Len(t) \in Nat
    OBVIOUS
  <2>2. \A i \in 1..Len(s) : t[i] \in S
    BY <1>2, <2>1, ElementOfSeq
  <2>3. /\ SubSeq(t, 1, Len(s)) \in Seq(S)
        /\ Len(SubSeq(t, 1, Len(s))) = Len(s)
        /\ \A i \in 1..Len(s) : SubSeq(t, 1, Len(s))[i] = t[i]
    BY <2>1, <2>2, SubSeqProperties
  <2>4. ASSUME \A i \in 1..Len(s) : s[i] = t[i]
        PROVE  s = SubSeq(t, 1, Len(s))
    BY <2>3, <2>4, SeqEqual
  <2>5. QED BY <1>1, <2>3, <2>4
<1>3. QED BY <1>1, <1>2 DEF IsPrefix

LEMMA IsItsPrefix ==
  ASSUME NEW S, NEW s \in Seq(S)
  PROVE  IsPrefix(s, s)
<1>1. Len(s) <= Len(s)
  OBVIOUS
<1>2. QED BY <1>1, PrefixIff

LEMMA PrefixAppend ==
  ASSUME NEW S, NEW s \in Seq(S), NEW t \in Seq(S), NEW m \in S, IsPrefix(s, t)
  PROVE  IsPrefix(s, Append(t, m))
<1>1. Append(t, m) \in Seq(S) /\ Len(Append(t, m)) = Len(t) + 1
      /\ \A i \in 1..Len(t) : Append(t, m)[i] = t[i]
  BY AppendProperties
<1>2. Len(s) <= Len(t) /\ \A i \in 1..Len(s) : s[i] = t[i]
  BY PrefixIff
<1>3. Len(s) \in Nat /\ Len(t) \in Nat
  OBVIOUS
<1>4. Len(s) <= Len(Append(t, m)) /\ \A i \in 1..Len(s) : s[i] = Append(t, m)[i]
  BY <1>1, <1>2, <1>3
<1>5. QED BY <1>1, <1>4, PrefixIff

LEMMA PrefixOfConcat ==
  ASSUME NEW S, NEW s \in Seq(S), NEW u \in Seq(S), NEW t \in Seq(S), IsPrefix(s \o u, t)
  PROVE  IsPrefix(s, t)
<1>1. s \o u \in Seq(S) /\ Len(s \o u) = Len(s) + Len(u)
      /\ \A i \in 1..Len(s) : (s \o u)[i] = s[i]
  BY ConcatProperties
<1>2. Len(s \o u) <= Len(t) /\ \A i \in 1..Len(s \o u) : (s \o u)[i] = t[i]
  <2>1. \A v \in Seq(S) : IsPrefix(v, t) => Len(v) <= Len(t) /\ \A i \in 1..Len(v) : v[i] = t[i]
    BY PrefixIff
  <2>2. QED BY <1>1, <2>1
<1>3. Len(s) \in Nat /\ Len(u) \in Nat /\ Len(t) \in Nat
  OBVIOUS
<1>4. Len(s) <= Len(t) /\ \A i \in 1..Len(s) : s[i] = t[i]
  BY <1>1, <1>2, <1>3
<1>5. QED BY <1>4, PrefixIff

LEMMA AppendThenConcat ==
  ASSUME NEW S, NEW s \in Seq(S), NEW m \in S, NEW t \in Seq(S)
  PROVE  Append(s, m) \o t = s \o (<<m>> \o t)
<1>1. <<m>> \in Seq(S)
  OBVIOUS
<1>2. Append(s, m) = s \o <<m>>
  BY AppendIsConcat
<1>3. (s \o <<m>>) \o t = s \o (<<m>> \o t)
  BY <1>1, ConcatAssociative
<1>4. QED BY <1>2, <1>3

LEMMA ConcatThenAppend ==
  ASSUME NEW S, NEW s \in Seq(S), NEW t \in Seq(S), NEW m \in S
  PROVE  s \o Append(t, m) = Append(s \o t, m)
<1>1. <<m>> \in Seq(S) /\ s \o t \in Seq(S)
  OBVIOUS
<1>2. Append(t, m) = t \o <<m>> /\ Append(s \o t, m) = (s \o t) \o <<m>>
  BY <1>1, AppendIsConcat
<1>3. (s \o t) \o <<m>> = s \o (t \o <<m>>)
  BY <1>1, ConcatAssociative
<1>4. QED BY <1>2, <1>3

LEMMA TailGrows ==
  ASSUME NEW S, NEW f \in Seq(S), NEW m \in S, NEW a \in Nat, a <= Len(f)
  PROVE  SubSeq(Append(f, m), a + 1, Len(Append(f, m))) = Append(SubSeq(f, a + 1, Len(f)), m)
<1> DEFINE g == Append(f, m)
<1>1. /\ g \in Seq(S) /\ Len(g) = Len(f) + 1 /\ g[Len(f) + 1] = m
      /\ \A i \in 1..Len(f) : g[i] = f[i]
  BY AppendProperties
<1> HIDE DEF g
<1>2. Len(f) \in Nat
  OBVIOUS
<1> DEFINE old == SubSeq(f, a + 1, Len(f))
           new == SubSeq(g, a + 1, Len(g))
<1>3. /\ old \in Seq(S) /\ Len(old) = Len(f) - a
      /\ \A i \in 1..(Len(f) - a) : old[i] = f[a + i]
  <2>1. \A i \in (a + 1)..Len(f) : f[i] \in S
    BY <1>2, ElementOfSeq
  <2>2. /\ old \in Seq(S) /\ Len(old) = IF a + 1 <= Len(f) THEN Len(f) - (a + 1) + 1 ELSE 0
        /\ \A i \in 1..(Len(f) - (a + 1) + 1) : old[i] = f[a + 1 + i - 1]
    BY <1>2, <2>1, SubSeqProperties
  <2> HIDE DEF old
  <2>3. QED BY <1>2, <2>2
<1>4. /\ new \in Seq(S) /\ Len(new) = Len(f) - a + 1
      /\ \A i \in 1..(Len(f) - a + 1) : new[i] = g[a + i]
  <2>1. \A i \in (a + 1)..Len(g) : g[i] \in S
    BY <1>1, <1>2, ElementOfSeq
  <2>2. /\ new \in Seq(S) /\ Len(new) = IF a + 1 <= Len(g) THEN Len(g) - (a + 1) + 1 ELSE 0
        /\ \A i \in 1..(Len(g) - (a + 1) + 1) : new[i] = g[a + 1 + i - 1]
    BY <1>1, <1>2, <2>1, SubSeqProperties
  <2> HIDE DEF new
  <2>3. QED BY <1>1, <1>2, <2>2
<1> HIDE DEF old, new
<1>5. /\ Append(old, m) \in Seq(S) /\ Len(Append(old, m)) = Len(old) + 1
      /\ \A i \in 1..Len(old) : Append(old, m)[i] = old[i]
      /\ Append(old, m)[Len(old) + 1] = m
  BY <1>3, AppendProperties
<1>6. ASSUME NEW i \in 1..Len(new)
      PROVE  new[i] = Append(old, m)[i]
  <2>1. i \in 1..(Len(f) - a + 1) /\ new[i] = g[a + i]
    BY <1>4
  <2>2. CASE i = Len(f) - a + 1
    <3>1. a + i = Len(f) + 1 /\ i = Len(old) + 1
      BY <1>2, <1>3, <2>2
    <3>2. QED BY <1>1, <1>5, <2>1, <3>1
  <2>3. CASE i # Len(f) - a + 1
    <3>1. i \in 1..(Len(f) - a) /\ a + i \in 1..Len(f) /\ i \in 1..Len(old)
      BY <1>2, <1>3, <2>1, <2>3
    <3>2. QED BY <1>1, <1>3, <1>5, <2>1, <3>1
  <2>4. QED BY <2>2, <2>3
<1>7. Len(new) = Len(Append(old, m))
  BY <1>3, <1>4, <1>5
<1>8. new = Append(old, m)
  BY <1>4, <1>5, <1>6, <1>7, SeqEqual
<1>9. QED BY <1>8 DEF new, old, g

LEMMA TailType ==
  ASSUME NEW S, NEW f \in Seq(S), NEW a \in Nat
  PROVE  SubSeq(f, a + 1, Len(f)) \in Seq(S)
<1>1. Len(f) \in Nat /\ \A i \in (a + 1)..Len(f) : f[i] \in S
  BY ElementOfSeq
<1>2. QED BY <1>1, SubSeqProperties

LEMMA NothingYet ==
  ASSUME NEW f, Len(f) \in Nat
  PROVE  SubSeq(f, Len(f) + 1, Len(f)) = <<>>
  BY SubSeqEmpty

-----------------------------------------------------------------------------
(* The readers.                                                            *)

Stages == {"none", "live", "closing", "done", "cancelled"}

ReaderTypes ==
  /\ writers = {r \in Readers : stage[r] = "live"}
  /\ stage \in [Readers -> Stages]
  /\ queue \in [Readers -> Seq(Messages)] /\ waiting \in [Readers -> Seq(Messages)]
  /\ \A r \in Readers : /\ stage[r] # "live" => waiting[r] = <<>>
                        /\ stage[r] \notin {"live", "closing"} => queue[r] = <<>>
  /\ fanned \in Seq(Messages)
  /\ from \in [Readers -> Nat] /\ got \in [Readers -> Seq(Messages)]

Mine(r) == SubSeq(fanned, from[r] + 1, Len(fanned))

Ordered(r) == /\ IsPrefix(got[r] \o queue[r], Mine(r))
              /\ stage[r] = "live" => got[r] \o queue[r] \o waiting[r] = Mine(r)

FedReader(r) == /\ stage[r] = "none" => got[r] = <<>>
                /\ queue[r] = <<>> => waiting[r] = <<>>
                /\ from[r] <= Len(fanned)

Reading == ReaderTypes /\ \A r \in Readers : FedReader(r) /\ Ordered(r)

ReadingVars == <<writers, stage, queue, waiting, fanned, from, got>>

LEMMA ReadingSame ==
  ASSUME Reading, UNCHANGED ReadingVars
  PROVE  Reading'
  BY DEF Reading, ReadingVars, ReaderTypes, FedReader, Ordered, Mine

\* What Reading says of one reader.
LEMMA OneReader ==
  ASSUME Reading, NEW r \in Readers
  PROVE  /\ queue[r] \in Seq(Messages) /\ waiting[r] \in Seq(Messages) /\ got[r] \in Seq(Messages)
         /\ from[r] \in Nat /\ fanned \in Seq(Messages) /\ Len(fanned) \in Nat
         /\ stage[r] \in Stages
         /\ stage[r] # "live" => waiting[r] = <<>>
         /\ stage[r] \notin {"live", "closing"} => queue[r] = <<>>
         /\ r \in writers <=> stage[r] = "live"
         /\ FedReader(r) /\ Ordered(r)
         /\ Mine(r) \in Seq(Messages)
<1>1. /\ queue[r] \in Seq(Messages) /\ waiting[r] \in Seq(Messages) /\ got[r] \in Seq(Messages)
      /\ from[r] \in Nat /\ stage[r] \in Stages
  BY DEF Reading, ReaderTypes
<1>2. fanned \in Seq(Messages) /\ Len(fanned) \in Nat
  BY DEF Reading, ReaderTypes
<1>3. /\ stage[r] # "live" => waiting[r] = <<>>
      /\ stage[r] \notin {"live", "closing"} => queue[r] = <<>>
      /\ r \in writers <=> stage[r] = "live"
      /\ FedReader(r) /\ Ordered(r)
  BY DEF Reading, ReaderTypes
<1>4. Mine(r) \in Seq(Messages)
  BY <1>1, <1>2, TailType DEF Mine
<1>5. QED BY <1>1, <1>2, <1>3, <1>4

\* A reader nothing happens to.
LEMMA SameReader ==
  ASSUME Reading, NEW r \in Readers, fanned' = fanned, stage'[r] = stage[r], queue'[r] = queue[r],
         waiting'[r] = waiting[r], from'[r] = from[r], got'[r] = got[r]
  PROVE  FedReader(r)' /\ Ordered(r)'
  BY DEF Reading, FedReader, Ordered, Mine

LEMMA MakeReading ==
  ASSUME Reading, NEW R, R \subseteq Readers, \A r \in R : stage[r] = "none", MakeStreams(R)
  PROVE  Reading'
<1>1. fanned' = fanned /\ queue' = queue /\ waiting' = waiting /\ got' = got
  BY DEF MakeStreams
<1>2. \A r \in Readers : stage'[r] = (IF r \in R THEN "live" ELSE stage[r])
                         /\ from'[r] = (IF r \in R THEN Len(fanned) ELSE from[r])
  BY DEF MakeStreams
<1>3. Len(fanned) \in Nat
  BY DEF Reading, ReaderTypes
<1>4. ReaderTypes'
  <2>1. stage' \in [Readers -> Stages]
    BY DEF MakeStreams, Reading, ReaderTypes, Stages
  <2>2. from' \in [Readers -> Nat]
    BY <1>3 DEF MakeStreams, Reading, ReaderTypes
  <2>3. writers' = {r \in Readers : stage'[r] = "live"}
    BY <1>2 DEF MakeStreams, Reading, ReaderTypes
  <2>4. \A r \in Readers : /\ stage'[r] # "live" => waiting[r] = <<>>
                           /\ stage'[r] \notin {"live", "closing"} => queue[r] = <<>>
    BY <1>2 DEF Reading, ReaderTypes
  <2>5. QED BY <1>1, <2>1, <2>2, <2>3, <2>4 DEF Reading, ReaderTypes
<1>5. ASSUME NEW r \in Readers
      PROVE  FedReader(r)' /\ Ordered(r)'
  <2>1. CASE r \in R
    <3>1. got[r] = <<>> /\ queue[r] = <<>> /\ waiting[r] = <<>>
      BY <2>1 DEF Reading, ReaderTypes, FedReader
    <3>2. stage'[r] = "live" /\ from'[r] = Len(fanned)
      BY <1>2, <2>1
    <3>3. Mine(r)' = <<>>
      BY <1>1, <1>3, <3>2, NothingYet DEF Mine
    <3>4. <<>> \o <<>> = <<>> /\ IsPrefix(<<>>, <<>>)
      <4>1. <<>> \in Seq(Messages) /\ <<>> \o <<>> = <<>>
        OBVIOUS
      <4>2. QED BY <4>1, IsItsPrefix
    <3>5. QED BY <1>1, <1>3, <3>1, <3>2, <3>3, <3>4 DEF FedReader, Ordered
  <2>2. CASE r \notin R
    BY <1>1, <1>2, <2>2, SameReader
  <2>3. QED BY <2>1, <2>2
<1>6. QED BY <1>4, <1>5 DEF Reading

LEMMA WriteReading ==
  ASSUME Reading, NEW m \in Messages, Write(m)
  PROVE  Reading'
<1>1. /\ fanned' = Append(fanned, m) /\ writers' = writers
      /\ stage' = stage /\ from' = from /\ got' = got
  BY DEF Write
<1>2. \A r \in Readers :
        /\ queue'[r] = IF r \in writers /\ Ready(r) THEN <<m>> ELSE queue[r]
        /\ waiting'[r] = IF r \in writers /\ ~Ready(r) THEN Append(waiting[r], m) ELSE waiting[r]
  BY DEF Write
<1>3. fanned \in Seq(Messages) /\ fanned' \in Seq(Messages) /\ Len(fanned) \in Nat
      /\ Len(fanned') = Len(fanned) + 1
  BY <1>1 DEF Reading, ReaderTypes
<1>4. ReaderTypes'
  <2>1. \A r \in Readers : queue'[r] \in Seq(Messages) /\ waiting'[r] \in Seq(Messages)
    <3>1. SUFFICES ASSUME NEW r \in Readers
                   PROVE  queue'[r] \in Seq(Messages) /\ waiting'[r] \in Seq(Messages)
      OBVIOUS
    <3>2. queue[r] \in Seq(Messages) /\ waiting[r] \in Seq(Messages)
      BY OneReader
    <3>3. <<m>> \in Seq(Messages) /\ Append(waiting[r], m) \in Seq(Messages)
      BY <3>2
    <3>4. QED BY <1>2, <3>2, <3>3
  <2>2. queue' \in [Readers -> Seq(Messages)] /\ waiting' \in [Readers -> Seq(Messages)]
    BY <2>1 DEF Write
  <2>3. \A r \in Readers : /\ stage[r] # "live" => waiting'[r] = <<>>
                           /\ stage[r] \notin {"live", "closing"} => queue'[r] = <<>>
    BY <1>2 DEF Reading, ReaderTypes
  <2>4. QED BY <1>1, <1>3, <2>2, <2>3 DEF Reading, ReaderTypes
<1>5. ASSUME NEW r \in Readers
      PROVE  FedReader(r)' /\ Ordered(r)'
  <2> DEFINE q == queue[r]
             w == waiting[r]
             g == got[r]
  <2>1. /\ q \in Seq(Messages) /\ w \in Seq(Messages) /\ g \in Seq(Messages)
        /\ from[r] \in Nat /\ from[r] <= Len(fanned)
        /\ r \in writers <=> stage[r] = "live"
        /\ FedReader(r) /\ Ordered(r)
        /\ Mine(r) \in Seq(Messages)
    BY OneReader DEF FedReader
  <2>2. Mine(r)' = Append(Mine(r), m)
    <3>1. SubSeq(Append(fanned, m), from[r] + 1, Len(Append(fanned, m)))
            = Append(SubSeq(fanned, from[r] + 1, Len(fanned)), m)
      BY <1>3, <2>1, TailGrows
    <3>2. QED BY <1>1, <3>1 DEF Mine
  <2>3. CASE r \notin writers
    <3>1. queue'[r] = q /\ waiting'[r] = w /\ stage'[r] # "live"
      BY <1>1, <1>2, <2>1, <2>3
    <3>2. g \o q \in Seq(Messages)
      BY <2>1
    <3>3. IsPrefix(g \o q, Append(Mine(r), m))
      BY <2>1, <3>2, PrefixAppend DEF Ordered
    <3>4. Ordered(r)'
      BY <1>1, <2>2, <3>1, <3>3 DEF Ordered
    <3>5. QED BY <1>1, <1>3, <2>1, <3>1, <3>4 DEF FedReader
  <2>4. CASE r \in writers /\ q = <<>>
    <3>1. queue'[r] = <<m>> /\ waiting'[r] = w /\ w = <<>> /\ stage[r] = "live"
      BY <1>2, <2>1, <2>4 DEF Ready, FedReader
    <3>2. g = Mine(r)
      <4>1. g \o q \o w = Mine(r)
        BY <2>1, <3>1 DEF Ordered
      <4>2. g \o <<>> \o <<>> = g
        BY <2>1
      <4>3. QED BY <2>4, <3>1, <4>1, <4>2
    <3>3. /\ g \o <<m>> = Append(g, m) /\ (g \o <<m>>) \o <<>> = g \o <<m>>
          /\ g \o <<m>> \in Seq(Messages)
      BY <2>1
    <3>4. IsPrefix(g \o <<m>>, Append(g, m))
      BY <3>3, IsItsPrefix
    <3>5. Ordered(r)'
      BY <1>1, <2>2, <3>1, <3>2, <3>3, <3>4 DEF Ordered
    <3>6. <<m>> # <<>>
      OBVIOUS
    <3>7. FedReader(r)'
      BY <1>1, <1>3, <2>1, <3>1, <3>6 DEF FedReader
    <3>8. QED BY <3>5, <3>7
  <2>5. CASE r \in writers /\ q # <<>>
    <3>1. queue'[r] = q /\ waiting'[r] = Append(w, m) /\ stage[r] = "live"
      BY <1>2, <2>1, <2>5 DEF Ready
    <3>2. (g \o q) \o w = Mine(r) /\ g \o q \in Seq(Messages)
      <4>1. (g \o q) \o w = Mine(r)
        BY <2>1, <3>1 DEF Ordered
      <4>2. g \o q \in Seq(Messages)
        BY <2>1
      <4>3. QED BY <4>1, <4>2
    <3>3. (g \o q) \o Append(w, m) = Append((g \o q) \o w, m)
      <4>1. \A h \in Seq(Messages), t \in Seq(Messages) : h \o Append(t, m) = Append(h \o t, m)
        BY ConcatThenAppend
      <4>2. QED BY <2>1, <3>2, <4>1
    <3>4. IsPrefix(g \o q, Append(Mine(r), m))
      BY <2>1, <3>2, PrefixAppend DEF Ordered
    <3>5. Ordered(r)'
      BY <1>1, <2>2, <3>1, <3>2, <3>3, <3>4 DEF Ordered
    <3>6. FedReader(r)'
      BY <1>1, <1>3, <2>1, <2>5, <3>1 DEF FedReader
    <3>7. QED BY <3>5, <3>6
  <2>6. QED BY <2>3, <2>4, <2>5
<1>6. QED BY <1>4, <1>5 DEF Reading

LEMMA CloseReading ==
  ASSUME Reading, CloseWriters, UNCHANGED historyVars
  PROVE  Reading'
<1>1. fanned' = fanned /\ from' = from /\ got' = got /\ queue' = queue
  BY DEF CloseWriters, historyVars
<1>2. \A r \in Readers :
        /\ stage'[r] = IF r \in writers THEN "closing" ELSE stage[r]
        /\ waiting'[r] = IF r \in writers THEN <<>> ELSE waiting[r]
  BY DEF CloseWriters
<1>3. \A r \in Readers : stage'[r] # "live"
  BY <1>2 DEF Reading, ReaderTypes
<1>4. ReaderTypes'
  <2>1. stage' \in [Readers -> Stages]
    BY DEF CloseWriters, Reading, ReaderTypes, Stages
  <2>2. waiting' \in [Readers -> Seq(Messages)]
    BY DEF CloseWriters, Reading, ReaderTypes
  <2>3. writers' = {r \in Readers : stage'[r] = "live"}
    BY <1>3 DEF CloseWriters
  <2>4. \A r \in Readers : /\ stage'[r] # "live" => waiting'[r] = <<>>
                           /\ stage'[r] \notin {"live", "closing"} => queue[r] = <<>>
    BY <1>2 DEF Reading, ReaderTypes
  <2>5. QED BY <1>1, <2>1, <2>2, <2>3, <2>4 DEF Reading, ReaderTypes
<1>5. ASSUME NEW r \in Readers
      PROVE  FedReader(r)' /\ Ordered(r)'
  <2>1. FedReader(r)'
    BY <1>1, <1>2 DEF Reading, FedReader
  <2>2. Ordered(r)'
    BY <1>1, <1>3 DEF Reading, Ordered, Mine
  <2>3. QED BY <2>1, <2>2
<1>6. QED BY <1>4, <1>5 DEF Reading

LEMMA ReadReading ==
  ASSUME Reading, NEW r \in Readers, Read(r)
  PROVE  Reading'
<1> DEFINE q == queue[r]
           w == waiting[r]
           g == got[r]
<1>1. /\ q # <<>> /\ got' = [got EXCEPT ![r] = Append(g, Head(q))]
      /\ fanned' = fanned /\ from' = from /\ stage' = stage /\ writers' = writers
  BY DEF Read
<1>2. /\ q \in Seq(Messages) /\ w \in Seq(Messages) /\ g \in Seq(Messages)
      /\ stage[r] \in Stages
      /\ stage[r] # "live" => w = <<>>
      /\ stage[r] \notin {"live", "closing"} => q = <<>>
      /\ FedReader(r) /\ Ordered(r) /\ Mine(r) \in Seq(Messages)
  BY OneReader
<1>3. Head(q) \in Messages /\ Tail(q) \in Seq(Messages) /\ q = <<Head(q)>> \o Tail(q)
  BY <1>1, <1>2
<1>4. got \in [Readers -> Seq(Messages)] /\ queue \in [Readers -> Seq(Messages)]
      /\ waiting \in [Readers -> Seq(Messages)]
  BY DEF Reading, ReaderTypes
<1>5. got'[r] = Append(g, Head(q)) /\ got'[r] \in Seq(Messages)
      /\ got' \in [Readers -> Seq(Messages)]
  BY <1>1, <1>2, <1>3, <1>4
<1>6. /\ queue' \in [Readers -> Seq(Messages)] /\ waiting' \in [Readers -> Seq(Messages)]
      /\ waiting'[r] = IF Len(q) = 1 THEN <<>> ELSE w
      /\ queue'[r] = IF Len(q) = 1 THEN w ELSE Tail(q)
  <2>1. CASE Len(q) = 1
    <3>1. queue' = [queue EXCEPT ![r] = w] /\ waiting' = [waiting EXCEPT ![r] = <<>>]
      BY <2>1 DEF Read
    <3>2. <<>> \in Seq(Messages)
      OBVIOUS
    <3>3. QED BY <1>2, <1>4, <2>1, <3>1, <3>2
  <2>2. CASE Len(q) # 1
    <3>1. queue' = [queue EXCEPT ![r] = Tail(q)] /\ waiting' = waiting
      BY <1>4, <2>2 DEF Read
    <3>2. QED BY <1>3, <1>4, <2>2, <3>1
  <2>3. QED BY <2>1, <2>2
<1>7. ASSUME NEW o \in Readers, o # r
      PROVE  queue'[o] = queue[o] /\ waiting'[o] = waiting[o] /\ got'[o] = got[o]
  <2>1. got'[o] = got[o]
    BY <1>1, <1>4, <1>7
  <2>2. CASE Len(q) = 1
    BY <1>4, <1>7, <2>1, <2>2 DEF Read
  <2>3. CASE Len(q) # 1
    BY <1>4, <1>7, <2>1, <2>3 DEF Read
  <2>4. QED BY <2>2, <2>3
<1>8. ASSUME Len(q) = 1
      PROVE  Tail(q) = <<>>
  BY <1>2, <1>3, <1>8
<1>9. got'[r] \o Tail(q) = g \o q
  <2>1. \A a \in Seq(Messages), h \in Messages, t \in Seq(Messages) :
          Append(a, h) \o t = a \o (<<h>> \o t)
    BY AppendThenConcat
  <2>2. Append(g, Head(q)) \o Tail(q) = g \o (<<Head(q)>> \o Tail(q))
    BY <1>2, <1>3, <2>1
  <2>3. QED BY <1>3, <1>5, <2>2
<1>10. ReaderTypes'
  <2>1. ASSUME NEW o \in Readers
        PROVE  /\ stage'[o] # "live" => waiting'[o] = <<>>
               /\ stage'[o] \notin {"live", "closing"} => queue'[o] = <<>>
    <3>1. CASE o = r
      BY <1>1, <1>2, <1>6, <3>1
    <3>2. CASE o # r
      BY <1>1, <1>7, <3>2 DEF Reading, ReaderTypes
    <3>3. QED BY <3>1, <3>2
  <2>2. QED BY <1>1, <1>5, <1>6, <2>1 DEF Reading, ReaderTypes
<1>11. FedReader(r)'
  <2>1. stage[r] # "none"
    BY <1>1, <1>2
  <2>2. queue'[r] = <<>> => waiting'[r] = <<>>
    <3>1. CASE Len(q) = 1
      BY <1>6, <3>1
    <3>2. CASE Len(q) # 1
      <4>1. Tail(q) # <<>>
        <5>1. Len(q) \in Nat /\ Len(q) # 0 /\ Len(Tail(q)) = Len(q) - 1
          BY <1>1, <1>2
        <5>2. Len(Tail(q)) # 0
          BY <3>2, <5>1
        <5>3. Len(<<>>) = 0
          OBVIOUS
        <5>4. QED BY <5>2, <5>3
      <4>2. QED BY <1>6, <3>2, <4>1
    <3>3. QED BY <3>1, <3>2
  <2>3. QED BY <1>1, <1>2, <2>1, <2>2 DEF FedReader
<1>12. Ordered(r)'
  <2>1. Mine(r)' = Mine(r)
    BY <1>1 DEF Mine
  <2>2. IsPrefix(g \o q, Mine(r))
    BY <1>2 DEF Ordered
  <2>3. stage[r] = "live" => (g \o q) \o w = Mine(r)
    BY <1>2 DEF Ordered
  <2>4. CASE Len(q) = 1
    <3>1. got'[r] = g \o q
      <4>1. got'[r] \o <<>> = got'[r]
        BY <1>5
      <4>2. QED BY <1>8, <1>9, <2>4, <4>1
    <3>2. queue'[r] = w /\ waiting'[r] = <<>>
      BY <1>6, <2>4
    <3>3. g \o q \in Seq(Messages) /\ (g \o q) \o w \in Seq(Messages)
      BY <1>2
    <3>4. CASE stage[r] = "live"
      <4>1. (g \o q) \o w = Mine(r)
        BY <2>3, <3>4
      <4>2. IsPrefix(Mine(r), Mine(r))
        BY <1>2, PrefixIff
      <4>3. Mine(r) \o <<>> = Mine(r)
        BY <1>2
      <4>4. QED BY <1>1, <2>1, <3>1, <3>2, <4>1, <4>2, <4>3 DEF Ordered
    <3>5. CASE stage[r] # "live"
      <4>1. w = <<>>
        BY <1>2, <3>5
      <4>2. (g \o q) \o <<>> = g \o q
        BY <3>3
      <4>3. QED BY <1>1, <2>1, <2>2, <3>1, <3>2, <3>5, <4>1, <4>2 DEF Ordered
    <3>6. QED BY <3>4, <3>5
  <2>5. CASE Len(q) # 1
    <3>1. queue'[r] = Tail(q) /\ waiting'[r] = w
      BY <1>6, <2>5
    <3>2. QED BY <1>1, <1>9, <2>1, <2>2, <2>3, <3>1 DEF Ordered
  <2>6. QED BY <2>4, <2>5
<1>13. ASSUME NEW o \in Readers
       PROVE  FedReader(o)' /\ Ordered(o)'
  <2>1. CASE o # r
    BY <1>1, <1>7, <2>1, SameReader
  <2>2. QED BY <1>11, <1>12, <2>1
<1>14. QED BY <1>10, <1>13 DEF Reading

\* A reader that stops reading keeps what it has read.
LEMMA StopReading ==
  ASSUME Reading, NEW r \in Readers, NEW end \in {"done", "cancelled"},
         stage' = [stage EXCEPT ![r] = end], writers' = writers \ {r},
         queue' = [queue EXCEPT ![r] = <<>>], waiting' = [waiting EXCEPT ![r] = <<>>],
         UNCHANGED historyVars, stage[r] # "none"
  PROVE  Reading'
<1>1. /\ queue[r] \in Seq(Messages) /\ got[r] \in Seq(Messages) /\ Mine(r) \in Seq(Messages)
      /\ FedReader(r) /\ Ordered(r)
  BY OneReader
<1>2. fanned' = fanned /\ from' = from /\ got' = got
  BY DEF historyVars
<1>3. stage'[r] = end /\ queue'[r] = <<>> /\ waiting'[r] = <<>>
  BY DEF Reading, ReaderTypes
<1>4. \A o \in Readers : o # r => /\ stage'[o] = stage[o] /\ queue'[o] = queue[o]
                                  /\ waiting'[o] = waiting[o]
  BY DEF Reading, ReaderTypes
<1>5. ReaderTypes'
  <2>1. stage' \in [Readers -> Stages]
    BY DEF Reading, ReaderTypes, Stages
  <2>2. queue' \in [Readers -> Seq(Messages)] /\ waiting' \in [Readers -> Seq(Messages)]
    BY DEF Reading, ReaderTypes
  <2>3. writers' = {o \in Readers : stage'[o] = "live"}
    BY <1>3, <1>4 DEF Reading, ReaderTypes
  <2>4. \A o \in Readers : /\ stage'[o] # "live" => waiting'[o] = <<>>
                           /\ stage'[o] \notin {"live", "closing"} => queue'[o] = <<>>
    BY <1>3, <1>4 DEF Reading, ReaderTypes
  <2>5. QED BY <1>2, <2>1, <2>2, <2>3, <2>4 DEF Reading, ReaderTypes
<1>6. FedReader(r)' /\ Ordered(r)'
  <2>1. IsPrefix(got[r], Mine(r))
    BY <1>1, PrefixOfConcat DEF Ordered
  <2>2. got[r] \o <<>> = got[r]
    BY <1>1
  <2>3. Mine(r)' = Mine(r)
    BY <1>2 DEF Mine
  <2>4. QED BY <1>1, <1>2, <1>3, <2>1, <2>2, <2>3 DEF FedReader, Ordered
<1>7. ASSUME NEW o \in Readers
      PROVE  FedReader(o)' /\ Ordered(o)'
  <2>1. CASE o # r
    BY <1>2, <1>4, <2>1, SameReader
  <2>2. QED BY <1>6, <2>1
<1>8. QED BY <1>5, <1>7 DEF Reading

-----------------------------------------------------------------------------
(* Steps.                                                                  *)

\* What is left of TypeOK beside the readers.
Base ==
  /\ connect \in {"idle", "fetching", "pending", "resolved", "rejected"}
  /\ running \in BOOLEAN
  /\ socket \in {"none", "connecting", "failed", "open", "closing", "closed"}
  /\ wire \in Seq(Messages) /\ parsing \in Seq(Messages)
  /\ validating \subseteq Messages
  /\ sent \in 0..MaxSent
  /\ running => socket \in {"connecting", "failed", "open"}

Connecting == Base /\ Handshake

Full == Connecting /\ Reading

LEMMA FullIff == SubscriptionInv <=> Full
<1>1. TypeOK <=> Base /\ ReaderTypes
  BY DEF TypeOK, Base, ReaderTypes, Stages
<1>2. ReaderTypes /\ Fed /\ InOrder <=> Reading
  BY DEF Fed, InOrder, Reading, FedReader, Ordered, Mine
<1>3. QED BY <1>1, <1>2 DEF SubscriptionInv, Full, Connecting

LEMMA SetupStep ==
  ASSUME Full, Connect \/ TokenArrives \/ SocketFails
  PROVE  Full'
<1>1. Connecting'
  <2>1. /\ UNCHANGED <<wire, parsing, validating, sent, stage>>
        /\ wire \in Seq(Messages) /\ parsing \in Seq(Messages)
        /\ validating \subseteq Messages /\ sent \in 0..MaxSent
    BY DEF Connect, TokenArrives, SocketFails, handlerVars, readerVars, Full, Connecting, Base
  <2>2. connect # "resolved" /\ \A r \in Readers : stage[r] = "none"
    BY DEF Connect, TokenArrives, SocketFails, Full, Connecting, Handshake
  <2>3. \/ running' = running /\ socket' = socket /\ connect' = "fetching" /\ socket = "none"
        \/ running' = running /\ socket' = socket /\ connect' = "rejected" /\ socket = "none"
        \/ running' = running /\ socket' = "failed" /\ connect' = "rejected"
        \/ running' = TRUE /\ socket' = "connecting" /\ connect' = "pending"
    <3>1. CASE Connect
      BY <3>1 DEF Connect, Full, Connecting, Handshake
    <3>2. CASE TokenArrives
      BY <3>2 DEF TokenArrives, Full, Connecting, Handshake
    <3>3. CASE SocketFails
      BY <3>3 DEF SocketFails
    <3>4. QED BY <3>1, <3>2, <3>3
  <2>4. Base'
    <3>1. running' \in BOOLEAN /\ (running => running')
      BY <2>3 DEF Full, Connecting, Base
    <3>2. running' => socket' \in {"connecting", "failed", "open"}
      BY <2>3 DEF Full, Connecting, Base
    <3>3. /\ connect' \in {"idle", "fetching", "pending", "resolved", "rejected"}
          /\ socket' \in {"none", "connecting", "failed", "open", "closing", "closed"}
      BY <2>3 DEF Full, Connecting, Base
    <3>4. QED BY <2>1, <3>1, <3>2, <3>3 DEF Base
  <2>5. Handshake'
    BY <2>1, <2>2, <2>3 DEF Handshake
  <2>6. QED BY <2>4, <2>5 DEF Connecting
<1>2. UNCHANGED handlerVars /\ UNCHANGED readerVars /\ UNCHANGED historyVars
  BY DEF Connect, TokenArrives, SocketFails
<1>3. Reading'
  BY <1>2, ReadingSame DEF Full, ReadingVars, readerVars, historyVars
<1>4. QED BY <1>1, <1>3 DEF Full

LEMMA OpensStep ==
  ASSUME Full, Opens
  PROVE  Full'
<1>1. Initial \subseteq Readers
  BY ReaderSets
<1>2. connect = "pending" /\ \A r \in Readers : stage[r] = "none"
  BY DEF Opens, Full, Connecting, Handshake
<1>3. Connecting'
  BY DEF Opens, Full, Connecting, Base, Handshake, handlerVars
<1>4. Reading'
  BY <1>1, <1>2, MakeReading DEF Opens, Full
<1>5. QED BY <1>3, <1>4 DEF Full

LEMMA EndStep ==
  ASSUME Full, SocketCloses \/ Close
  PROVE  Full'
<1>1. UNCHANGED historyVars /\ UNCHANGED <<parsing, validating, sent>>
      /\ (wire' = <<>> \/ wire' = wire)
  BY DEF SocketCloses, Close
<1>2. CASE Shut
  <2>1. running' = FALSE /\ CloseWriters
    BY <1>2 DEF Shut
  <2>2. Reading'
    BY <1>1, <2>1, CloseReading DEF Full
  <2>3. ASSUME NEW r \in Readers, stage[r] = "none"
        PROVE  stage'[r] = "none"
    BY <2>1, <2>3 DEF CloseWriters, Full, Reading, ReaderTypes
  <2>4. Handshake'
    <3>1. CASE SocketCloses
      BY <2>3, <3>1 DEF SocketCloses, Full, Connecting, Base, Handshake
    <3>2. CASE Close
      BY <2>3, <3>2 DEF Close, Full, Connecting, Base, Handshake
    <3>3. QED BY <3>1, <3>2
  <2>5. Base'
    <3>1. wire' \in Seq(Messages)
      <4>1. <<>> \in Seq(Messages) /\ wire \in Seq(Messages)
        BY DEF Full, Connecting, Base
      <4>2. QED BY <1>1, <4>1
    <3>2. socket' \in {"closing", "closed"}
          /\ connect' \in {"idle", "fetching", "pending", "resolved", "rejected"}
      BY DEF SocketCloses, Close, Full, Connecting, Base
    <3>3. QED BY <1>1, <2>1, <3>1, <3>2 DEF Full, Connecting, Base
  <2>6. QED BY <2>2, <2>4, <2>5 DEF Full, Connecting
<1>3. CASE ~Shut
  <2>1. SocketCloses /\ ~running
    BY <1>3 DEF SocketCloses, Close
  <2>2. UNCHANGED <<running, readerVars>> /\ wire' = <<>> /\ socket' = "closed"
        /\ connect' = (IF connect = "pending" THEN "rejected" ELSE connect)
    BY <2>1 DEF SocketCloses
  <2>3. Reading'
    BY <1>1, <2>2, ReadingSame DEF Full, ReadingVars, readerVars, historyVars
  <2>4. Connecting'
    <3>1. wire' \in Seq(Messages)
      BY <2>2
    <3>2. connect \notin {"idle", "fetching"}
      BY <2>1 DEF SocketCloses, Full, Connecting, Handshake
    <3>3. Handshake'
      BY <2>2, <3>2 DEF Full, Connecting, Handshake, readerVars
    <3>4. Base'
      BY <1>1, <2>1, <2>2, <3>1 DEF Full, Connecting, Base
    <3>5. QED BY <3>3, <3>4 DEF Connecting
  <2>5. QED BY <2>3, <2>4 DEF Full
<1>4. QED BY <1>2, <1>3

\* Steps that leave the connection as it is.
LEMMA SameConnection ==
  ASSUME Full, UNCHANGED connVars, UNCHANGED sent,
         wire' \in Seq(Messages), parsing' \in Seq(Messages), validating' \subseteq Messages,
         connect = "resolved" \/ UNCHANGED stage
  PROVE  Connecting'
  BY DEF Full, Connecting, Base, Handshake, connVars

LEMMA ReaderStep ==
  ASSUME Full, NEW r \in Readers, GetStream(r) \/ Reads(r) \/ CancelReader(r)
  PROVE  Full'
<1>1. wire \in Seq(Messages) /\ parsing \in Seq(Messages) /\ validating \subseteq Messages
  BY DEF Full, Connecting, Base
<1>2. UNCHANGED connVars /\ UNCHANGED handlerVars /\ UNCHANGED <<wire, sent, fanned>>
  BY DEF GetStream, Reads, Read, ReadsEnd, CancelReader, MakeStreams, historyVars
<1>3. connect = "resolved" \/ UNCHANGED stage
  <2>1. stage[r] # "none" => connect = "resolved"
    BY DEF Full, Connecting, Handshake
  <2>2. QED BY <2>1 DEF GetStream, Reads, Read, ReadsEnd, CancelReader
<1>4. Connecting'
  BY <1>1, <1>2, <1>3, SameConnection DEF handlerVars
<1>5. Reading'
  <2>1. CASE GetStream(r)
    BY <2>1, MakeReading DEF GetStream, Full
  <2>2. CASE Read(r)
    BY <2>2, ReadReading DEF Full
  <2>3. CASE ReadsEnd(r)
    <3>1. waiting[r] = <<>> /\ waiting \in [Readers -> Seq(Messages)] /\ r \notin writers
      BY <2>3 DEF ReadsEnd, Full, Reading, ReaderTypes
    <3>2. waiting' = [waiting EXCEPT ![r] = <<>>] /\ writers' = writers \ {r}
      BY <2>3, <3>1 DEF ReadsEnd
    <3>3. QED BY <2>3, <3>2, StopReading DEF ReadsEnd, Full
  <2>4. CASE CancelReader(r)
    BY <2>4, StopReading DEF CancelReader, Full
  <2>5. QED BY <2>1, <2>2, <2>3, <2>4 DEF Reads
<1>6. QED BY <1>4, <1>5 DEF Full

LEMMA ArriveStep ==
  ASSUME Full, (\E m \in Messages : Sends(m)) \/ Receives
  PROVE  Full'
<1>1. /\ wire \in Seq(Messages) /\ parsing \in Seq(Messages) /\ sent \in 0..MaxSent
  BY DEF Full, Connecting, Base
<1>2. UNCHANGED connVars /\ UNCHANGED <<validating, readerVars, historyVars>>
  BY DEF Sends, Receives, handlerVars
<1>3. wire' \in Seq(Messages) /\ parsing' \in Seq(Messages) /\ sent' \in 0..MaxSent
  <2>1. ASSUME NEW m \in Messages, Sends(m)
        PROVE  wire' \in Seq(Messages) /\ parsing' \in Seq(Messages) /\ sent' \in 0..MaxSent
    <3>1. wire' = Append(wire, m) /\ parsing' = parsing /\ sent' = sent + 1 /\ sent < MaxSent
      BY <2>1 DEF Sends, handlerVars
    <3>2. QED BY <1>1, <3>1, SentBound
  <2>2. ASSUME Receives
        PROVE  wire' \in Seq(Messages) /\ parsing' \in Seq(Messages) /\ sent' \in 0..MaxSent
    <3>1. wire # <<>> /\ wire' = Tail(wire) /\ parsing' = Append(parsing, Head(wire)) /\ sent' = sent
      BY <2>2 DEF Receives
    <3>2. QED BY <1>1, <3>1
  <2>3. QED BY <2>1, <2>2
<1>4. Connecting'
  BY <1>2, <1>3 DEF Full, Connecting, Base, Handshake, connVars, readerVars
<1>5. Reading'
  BY <1>2, ReadingSame DEF Full, ReadingVars, readerVars, historyVars
<1>6. QED BY <1>4, <1>5 DEF Full

\* What the switch over msg.kind may do.
LEMMA HandleCases ==
  ASSUME Full, NEW m \in Messages, Handle(m)
  PROVE  Reading' /\ validating' \subseteq Messages /\ UNCHANGED stage
<1>1. validating \subseteq Messages /\ Reading
  BY DEF Full, Connecting, Base
<1>2. CASE Write(m) /\ UNCHANGED validating
  BY <1>1, <1>2, WriteReading DEF Write
<1>3. CASE UNCHANGED readerVars /\ UNCHANGED historyVars /\ validating' \subseteq Messages
  BY <1>1, <1>3, ReadingSame DEF ReadingVars, readerVars, historyVars
<1>4. QED BY <1>1, <1>2, <1>3 DEF Handle, Ignore

LEMMA ParsedStep ==
  ASSUME Full, Parsed
  PROVE  Full'
<1>1. /\ parsing \in Seq(Messages) /\ parsing # <<>> /\ parsing' = Tail(parsing)
      /\ UNCHANGED connVars /\ UNCHANGED <<wire, sent>>
      /\ wire \in Seq(Messages) /\ validating \subseteq Messages
  BY DEF Parsed, Full, Connecting, Base
<1>2. parsing' \in Seq(Messages) /\ Head(parsing) \in Messages
  BY <1>1
<1>3. Reading' /\ validating' \subseteq Messages /\ UNCHANGED stage
  <2>1. CASE running
    BY <1>2, <2>1, HandleCases DEF Parsed
  <2>2. CASE ~running
    BY <1>1, <2>2, ReadingSame DEF Parsed, Ignore, Full, ReadingVars, readerVars, historyVars
  <2>3. QED BY <2>1, <2>2
<1>4. Connecting'
  BY <1>1, <1>2, <1>3, SameConnection
<1>5. QED BY <1>3, <1>4 DEF Full

LEMMA ValidatedStep ==
  ASSUME Full, NEW m \in validating, Validated(m)
  PROVE  Full'
<1>1. /\ m \in Messages /\ validating' = validating \ {m}
      /\ UNCHANGED connVars /\ UNCHANGED <<wire, parsing, sent>>
      /\ wire \in Seq(Messages) /\ parsing \in Seq(Messages) /\ validating \subseteq Messages
  BY DEF Validated, Full, Connecting, Base
<1>2. Reading' /\ UNCHANGED stage
  <2>1. CASE Write(m)
    BY <1>1, <2>1, WriteReading DEF Full, Write
  <2>2. CASE UNCHANGED <<readerVars, historyVars>>
    BY <2>2, ReadingSame DEF Full, ReadingVars, readerVars, historyVars
  <2>3. QED BY <2>1, <2>2 DEF Validated
<1>3. Connecting'
  BY <1>1, <1>2, SameConnection
<1>4. QED BY <1>2, <1>3 DEF Full

LEMMA InvInit ==
  ASSUME Init
  PROVE  Full
<1>1. Connecting
  <2>1. wire \in Seq(Messages) /\ parsing \in Seq(Messages)
    BY DEF Init
  <2>2. sent \in 0..MaxSent
    BY SentBound DEF Init
  <2>3. QED BY <2>1, <2>2 DEF Init, Connecting, Base, Handshake
<1>2. <<>> \in Seq(Messages) /\ Len(<<>>) = 0 /\ <<>> \o <<>> = <<>> /\ fanned = <<>>
  BY DEF Init
<1>3. ReaderTypes
  BY <1>2 DEF Init, ReaderTypes, Stages
<1>4. ASSUME NEW r \in Readers
      PROVE  FedReader(r) /\ Ordered(r)
  <2>1. got[r] = <<>> /\ queue[r] = <<>> /\ waiting[r] = <<>> /\ from[r] = 0 /\ stage[r] = "none"
    BY DEF Init
  <2>2. Mine(r) = <<>>
    BY <1>2, <2>1, NothingYet DEF Mine
  <2>3. IsPrefix(<<>>, <<>>)
    BY <1>2, IsItsPrefix
  <2>4. QED BY <1>2, <2>1, <2>2, <2>3 DEF FedReader, Ordered
<1>5. QED BY <1>1, <1>3, <1>4 DEF Full, Reading

LEMMA InvStep ==
  ASSUME Full, [Next]_vars
  PROVE  Full'
<1>1. CASE UNCHANGED vars
  <2>1. UNCHANGED ReadingVars /\ UNCHANGED <<connVars, wire, handlerVars, sent>>
    BY <1>1 DEF vars, ReadingVars, readerVars, historyVars
  <2>2. Reading'
    BY <2>1, ReadingSame DEF Full
  <2>3. Connecting'
    BY <2>1 DEF Full, Connecting, Base, Handshake, connVars, handlerVars, ReadingVars
  <2>4. QED BY <2>2, <2>3 DEF Full
<1>2. CASE Next
  BY <1>2, SetupStep, OpensStep, EndStep, ReaderStep, ArriveStep, ParsedStep, ValidatedStep
     DEF Next, SocketStep
<1>3. QED BY <1>1, <1>2

LEMMA AlwaysFull == Spec => []Full
  BY InvInit, InvStep, PTL DEF Spec

\* Whatever the bounds, every variable keeps its type, and what is still to be read belongs
\* to a reader that reads.
THEOREM SubscriptionTypeCorrect == Spec => []TypeOK
<1>1. Full => TypeOK
  BY FullIff DEF SubscriptionInv
<1>2. QED BY <1>1, AlwaysFull, PTL

\* Every reader reads what has been fanned out since it was made, in that order and without
\* a gap, however slow it and the others are.
THEOREM ReadersReadInOrder == Spec => []InOrder
<1>1. Full => InOrder
  BY FullIff DEF SubscriptionInv
<1>2. QED BY <1>1, AlwaysFull, PTL

\* Once the subscription is closed nothing more is fanned out than the messages whose schema
\* was being awaited, each once, whatever was on the wire or being parsed.
THEOREM NothingNewWhenClosed == Spec => ClosedIsQuiet
<1> DEFINE Quiet == /\ validating' \subseteq validating
                    /\ fanned' # fanned => \E m \in validating : fanned' = Append(fanned, m)
<1>1. ASSUME Next, ~running
      PROVE  Quiet
  <2>1. CASE Connect \/ TokenArrives \/ SocketFails
    BY <2>1 DEF Connect, TokenArrives, SocketFails, handlerVars, historyVars
  <2>2. CASE Opens \/ SocketCloses \/ Close
    BY <1>1, <2>2 DEF Opens, SocketCloses, Close, MakeStreams, handlerVars, historyVars
  <2>3. CASE (\E m \in Messages : Sends(m)) \/ Receives
    BY <2>3 DEF Sends, Receives, handlerVars, historyVars
  <2>4. CASE Parsed
    BY <1>1, <2>4 DEF Parsed, Ignore, historyVars
  <2>5. CASE \E m \in validating : Validated(m)
    BY <2>5 DEF Validated, Write, historyVars
  <2>6. CASE \E r \in Readers : GetStream(r) \/ Reads(r) \/ CancelReader(r)
    BY <2>6 DEF GetStream, Reads, Read, ReadsEnd, CancelReader, MakeStreams, handlerVars,
       historyVars
  <2>7. QED BY <1>1, <2>1, <2>2, <2>3, <2>4, <2>5, <2>6 DEF Next, SocketStep
<1>2. [Next]_vars => [~running => Quiet]_vars
  BY <1>1
<1>3. QED BY <1>2, PTL DEF Spec, ClosedIsQuiet
=============================================================================
