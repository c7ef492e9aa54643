-------------------------- MODULE StatusGraphsProofs --------------------------
(***************************************************************************)
(* Proofs about the pages of readings, for any cores, sensors, sizes of    *)
(* buffer and window, and any number of readings: a graph shows the latest *)
(* readings, and what the user arranged in the overview stays arranged.    *)
(***************************************************************************)
EXTENDS StatusGraphs, SequenceTheorems, FiniteSetTheorems, TLAPS

-----------------------------------------------------------------------------
(* What LastOf() keeps.                                                    *)

LEMMA LastOfProperties ==
  ASSUME NEW S, NEW s \in Seq(S), NEW n \in Nat
  PROVE  /\ LastOf(s, n) \in Seq(S)
         /\ Len(LastOf(s, n)) = IF Len(s) <= n THEN Len(s) ELSE n
         /\ \A i \in 1..Len(LastOf(s, n)) :
               LastOf(s, n)[i] = s[Len(s) - Len(LastOf(s, n)) + i]
<1>1. CASE Len(s) <= n
  BY <1>1 DEF LastOf
<1>2. CASE Len(s) > n
  <2>1. LastOf(s, n) = SubSeq(s, Len(s) - n + 1, Len(s))
    BY <1>2 DEF LastOf
  <2>2. /\ SubSeq(s, Len(s) - n + 1, Len(s)) \in Seq(S)
        /\ Len(SubSeq(s, Len(s) - n + 1, Len(s))) = n
        /\ \A i \in 1..n : SubSeq(s, Len(s) - n + 1, Len(s))[i] = s[Len(s) - n + 1 + i - 1]
    BY <1>2, SubSeqProperties
  <2> QED
    BY <1>2, <2>1, <2>2
<1> QED
  BY <1>1, <1>2

(* Of what is kept and what is added, the latest are the latest of all.    *)
LEMMA LastOfLonger ==
  ASSUME NEW S, NEW s \in Seq(S), NEW t \in Seq(S), NEW n \in Nat
  PROVE  LastOf(LastOf(s, n) \o t, n) = LastOf(s \o t, n)
<1> DEFINE k == LastOf(s, n)
           a == k \o t
           b == s \o t
<1>1. /\ k \in Seq(S) /\ Len(k) = (IF Len(s) <= n THEN Len(s) ELSE n)
      /\ \A i \in 1..Len(k) : k[i] = s[Len(s) - Len(k) + i]
  BY LastOfProperties
<1>a. k \in Seq(S)
  BY <1>1
<1>2. /\ a \in Seq(S) /\ Len(a) = Len(k) + Len(t)
      /\ \A i \in 1..Len(a) : a[i] = IF i <= Len(k) THEN k[i] ELSE t[i - Len(k)]
  <2> HIDE DEF k
  <2> QED
    BY <1>a, ConcatProperties
<1>3. /\ b \in Seq(S) /\ Len(b) = Len(s) + Len(t)
      /\ \A i \in 1..Len(b) : b[i] = IF i <= Len(s) THEN s[i] ELSE t[i - Len(s)]
  BY ConcatProperties
<1>b. a \in Seq(S) /\ b \in Seq(S)
  BY <1>2, <1>3
<1> HIDE DEF k, a, b
<1>4. /\ LastOf(a, n) \in Seq(S) /\ Len(LastOf(a, n)) = (IF Len(a) <= n THEN Len(a) ELSE n)
      /\ \A i \in 1..Len(LastOf(a, n)) : LastOf(a, n)[i] = a[Len(a) - Len(LastOf(a, n)) + i]
  BY <1>b, LastOfProperties
<1>5. /\ LastOf(b, n) \in Seq(S) /\ Len(LastOf(b, n)) = (IF Len(b) <= n THEN Len(b) ELSE n)
      /\ \A i \in 1..Len(LastOf(b, n)) : LastOf(b, n)[i] = b[Len(b) - Len(LastOf(b, n)) + i]
  BY <1>b, LastOfProperties
<1>6. Len(s) \in Nat /\ Len(t) \in Nat /\ Len(k) \in Nat
  BY <1>1
<1>7. Len(LastOf(a, n)) = Len(LastOf(b, n))
  BY <1>1, <1>2, <1>3, <1>4, <1>5, <1>6
<1>8. ASSUME NEW i \in 1..Len(LastOf(b, n))
      PROVE  LastOf(a, n)[i] = LastOf(b, n)[i]
  <2> DEFINE l == Len(LastOf(b, n))
             p == Len(a) - l + i
             q == Len(b) - l + i
  <2>1. l \in Nat /\ i \in 1..l /\ l <= Len(a) /\ l <= Len(b)
    BY <1>2, <1>3, <1>4, <1>5, <1>6, <1>7, SMTT(30)
  <2>2. LastOf(a, n)[i] = a[p] /\ LastOf(b, n)[i] = b[q]
    BY <1>4, <1>5, <1>7
  <2>3. p \in 1..Len(a) /\ q \in 1..Len(b) /\ q - p = Len(s) - Len(k)
    BY <1>2, <1>3, <1>6, <2>1
  <2> HIDE DEF l, p, q
  <2>4. a[p] = IF p <= Len(k) THEN k[p] ELSE t[p - Len(k)]
    BY <1>2, <2>3
  <2>5. b[q] = IF q <= Len(s) THEN s[q] ELSE t[q - Len(s)]
    BY <1>3, <2>3
  <2>6. CASE p <= Len(k)
    <3>1. p \in 1..Len(k) /\ q <= Len(s) /\ q = Len(s) - Len(k) + p
      BY <1>2, <1>3, <1>6, <2>3, <2>6
    <3>2. k[p] = s[q]
      BY <1>1, <3>1
    <3> QED
      BY <2>2, <2>4, <2>5, <2>6, <3>1, <3>2
  <2>7. CASE p > Len(k)
    <3>1. q > Len(s) /\ p - Len(k) = q - Len(s)
      BY <1>2, <1>3, <1>6, <2>3, <2>7, SMTT(30)
    <3> QED
      BY <1>2, <1>3, <1>6, <2>2, <2>3, <2>4, <2>5, <2>7, <3>1, SMTT(30)
  <2> QED
    BY <1>2, <1>6, <2>3, <2>6, <2>7
<1> QED
  BY <1>4, <1>5, <1>7, <1>8, SeqEqual DEF k, a, b

-----------------------------------------------------------------------------
(* The graphs.                                                             *)

(* What page, last and the rest are to the readings.                       *)
Times == 1..clock
Record(k) == seen.readings[k]
Plotted(k) == IF Len(Record(k)) <= 1 THEN 0 ELSE Record(k)[Len(Record(k))]

(* A device's readings are in order; its buffer has the latest of them,    *)
(* its window the latest but the first, and its graph knows which it       *)
(* plotted last.                                                           *)
Recorded(k) ==
    /\ Record(k) \in Seq(Times)
    /\ \A i \in 1..Len(Record(k)) : Record(k)[i] <= Record(k)[Len(Record(k))]
Buffered(k) ==
    /\ k \in DOMAIN buffer <=> Record(k) # <<>>
    /\ k \in DOMAIN buffer => buffer[k] = LastOf(Record(k), BufferSize)
Windowed(k) ==
    /\ Record(k) # <<>>
    /\ {"values", "timestamp"} \subseteq DOMAIN graph[k]
    /\ graph[k].values = Window(Tail(Record(k)))
    /\ graph[k].timestamp = Plotted(k)
Graphed ==
    /\ online \in SUBSET Cores /\ online # {} /\ clock \in Nat
    /\ "readings" \in DOMAIN seen /\ DOMAIN seen.readings = Devices
    /\ DOMAIN buffer \subseteq Devices /\ DOMAIN graph \subseteq Devices
    /\ \A k \in Devices : Recorded(k) /\ Buffered(k)
    /\ \A k \in DOMAIN graph : Windowed(k)

LEMMA Sizes ==
  BufferSize \in Nat /\ BufferSize >= 2 /\ Wanted \in Nat /\ Wanted >= 1
<1>1. BufferSize \in Nat \ {0, 1} /\ Wanted \in Nat \ {0}
  BY GraphsAssumption, Zenon
<1> QED
  BY <1>1

LEMMA GivenAreDevices ==
  ASSUME Graphed
  PROVE  Given \subseteq Devices
<1>1. IsFiniteSet(Cores) /\ IsFiniteSet(online) /\ Cardinality(online) <= Cardinality(Cores)
  BY FS_Subset, GraphsAssumption DEF Graphed
<1>2. Cardinality(online) \in Nat /\ Cardinality(Cores) \in Nat
  BY <1>1, FS_CardinalityType
<1>3. Rows \in Nat /\ Rows <= Cardinality(Cores) + 1
  <2>1. CASE Cardinality(online) = 1
    BY <1>1, <1>2, <2>1 DEF Rows
  <2>2. CASE Cardinality(online) # 1
    BY <1>1, <1>2, <2>2 DEF Rows
  <2> QED
    BY <2>1, <2>2
<1> QED
  BY <1>2, <1>3 DEF Given, Devices

(* A window of empty values and those that came after, and what is pushed. *)
LEMMA WindowGrows ==
  ASSUME NEW s \in Seq(Nat), NEW t \in Seq(Nat)
  PROVE  /\ Window(s) \in Seq(Nat) /\ LastOf(Window(s), Wanted) = Window(s)
         /\ LastOf(Window(s) \o t, Wanted) = Window(s \o t)
<1> DEFINE g == NewGraph.values
<1>1. g \in Seq(Nat)
  BY Sizes DEF NewGraph, Gap
<1> HIDE DEF g
<1>2. g \o s \in Seq(Nat) /\ s \o t \in Seq(Nat)
  BY <1>1, ConcatProperties
<1>a. (g \o s) \o t = g \o (s \o t)
  BY <1>1, ConcatAssociative, SMTT(30)
<1>3. LastOf(LastOf(g \o s, Wanted) \o t, Wanted) = LastOf((g \o s) \o t, Wanted)
  BY <1>2, Sizes, LastOfLonger
<1>4. Window(s) = LastOf(g \o s, Wanted) /\ Window(s \o t) = LastOf(g \o (s \o t), Wanted)
  BY DEF Window, g
<1>5. Window(s) \in Seq(Nat) /\ Len(Window(s)) <= Wanted
  <2> DEFINE a == g \o s
  <2>1. a \in Seq(Nat)
    BY <1>2
  <2> HIDE DEF a
  <2>2. LastOf(a, Wanted) \in Seq(Nat)
        /\ Len(LastOf(a, Wanted)) = (IF Len(a) <= Wanted THEN Len(a) ELSE Wanted)
    BY <2>1, LastOfProperties, Sizes
  <2>3. Len(LastOf(a, Wanted)) <= Wanted
    BY <2>1, <2>2, Sizes
  <2> QED
    BY <1>4, <2>2, <2>3 DEF a
<1>6. LastOf(Window(s), Wanted) = Window(s)
  BY <1>5 DEF LastOf
<1> QED
  BY <1>2, <1>a, <1>3, <1>4, <1>5, <1>6

(* The empty window.                                                       *)
LEMMA WindowEmpty == Window(<<>>) = NewGraph.values
<1> DEFINE g == NewGraph.values
<1>1. g \in Seq(Nat) /\ Len(g) = Wanted
  BY Sizes DEF NewGraph, Gap
<1>2. g \o <<>> = g
  BY <1>1, ConcatEmptySeq
<1>3. Window(<<>>) = LastOf(g \o <<>>, Wanted)
  BY DEF Window
<1> HIDE DEF g
<1>4. LastOf(g, Wanted) = g
  BY <1>1, Sizes DEF LastOf
<1> QED
  BY <1>2, <1>3, <1>4 DEF g

(* The readings of a device when one more comes.                           *)
LEMMA RecordGrows ==
  ASSUME NEW n \in Nat, NEW r \in Seq(1..n),
         \A i \in 1..Len(r) : r[i] <= r[Len(r)]
  PROVE  LET q == Append(r, n + 1) IN
         /\ q \in Seq(1..(n + 1)) /\ q # <<>> /\ Len(q) = Len(r) + 1 /\ q[Len(q)] = n + 1
         /\ \A i \in 1..Len(q) : q[i] <= q[Len(q)]
         /\ \A i \in 1..Len(r) : q[i] = r[i]
         /\ LastOf(Append(LastOf(r, BufferSize), n + 1), BufferSize) = LastOf(q, BufferSize)
         /\ r # <<>> => Tail(q) = Tail(r) \o <<n + 1>>
         /\ r = <<>> => Tail(q) = <<>>
<1> DEFINE S == 1..(n + 1)
           q == Append(r, n + 1)
<1>1. r \in Seq(S) /\ n + 1 \in S /\ <<n + 1>> \in Seq(S) /\ BufferSize \in Nat
  BY Sizes
<1>2. /\ q \in Seq(S) /\ Len(q) = Len(r) + 1 /\ q[Len(q)] = n + 1
      /\ \A i \in 1..Len(r) : q[i] = r[i]
  BY <1>1, AppendProperties
<1>3. q # <<>> /\ \A i \in 1..Len(q) : q[i] <= q[Len(q)]
  <2> HIDE DEF q
  <2>1. \A i \in 1..Len(q) : q[i] \in 1..(n + 1)
    BY <1>2
  <2> QED
    BY <1>2, <2>1
<1>4. LastOf(r, BufferSize) \in Seq(S)
  BY <1>1, LastOfProperties
<1>5. Append(LastOf(r, BufferSize), n + 1) = LastOf(r, BufferSize) \o <<n + 1>>
      /\ q = r \o <<n + 1>>
  BY <1>1, <1>4, AppendIsConcat
<1>6. LastOf(LastOf(r, BufferSize) \o <<n + 1>>, BufferSize) = LastOf(r \o <<n + 1>>, BufferSize)
  BY <1>1, LastOfLonger
<1>7. ASSUME r # <<>>
      PROVE  Tail(q) = Tail(r) \o <<n + 1>>
  BY <1>1, <1>7, SMTT(30)
<1>8. ASSUME r = <<>>
      PROVE  Tail(q) = <<>>
  BY <1>1, <1>8
<1> QED
  BY <1>2, <1>3, <1>5, <1>6, <1>7, <1>8

(* What a graph has not plotted yet: nothing, or the reading that came.    *)
LEMMA NothingNew ==
  ASSUME NEW n \in Nat, NEW r \in Seq(1..n), r # <<>>,
         \A i \in 1..Len(r) : r[i] <= r[Len(r)],
         NEW g, g.timestamp = IF Len(r) <= 1 THEN 0 ELSE r[Len(r)]
  PROVE  NewEntries(g, LastOf(r, BufferSize)) = <<>>
<1> DEFINE b == LastOf(r, BufferSize)
           newer == { i \in DOMAIN b : b[i] > g.timestamp /\ (g.timestamp = 0 => i > 1) }
<1>1. /\ b \in Seq(1..n) /\ Len(b) <= Len(r)
      /\ \A i \in 1..Len(b) : b[i] = r[Len(r) - Len(b) + i]
  BY Sizes, LastOfProperties
<1> HIDE DEF b
<1>2. ASSUME NEW i \in 1..Len(b)
      PROVE  ~(b[i] > g.timestamp /\ (g.timestamp = 0 => i > 1))
  <2>1. Len(r) - Len(b) + i \in 1..Len(r) /\ b[i] = r[Len(r) - Len(b) + i]
    BY <1>1
  <2>2. b[i] <= r[Len(r)] /\ b[i] \in Nat /\ r[Len(r)] \in Nat
    BY <1>1, <2>1
  <2>3. CASE Len(r) <= 1
    BY <1>1, <2>3
  <2>4. CASE Len(r) > 1
    BY <2>2, <2>4
  <2> QED
    BY <2>3, <2>4
<1>3. DOMAIN b = 1..Len(b)
  BY <1>1
<1>4. newer = {}
  BY <1>2, <1>3
<1> QED
  BY <1>4 DEF NewEntries, b

LEMMA OneNew ==
  ASSUME NEW n \in Nat, NEW r \in Seq(1..n), r # <<>>,
         \A i \in 1..Len(r) : r[i] <= r[Len(r)],
         NEW g, g.timestamp = IF Len(r) <= 1 THEN 0 ELSE r[Len(r)]
  PROVE  NewEntries(g, LastOf(Append(r, n + 1), BufferSize)) = <<n + 1>>
<1> DEFINE q == Append(r, n + 1)
           b == LastOf(q, BufferSize)
           newer == { i \in DOMAIN b : b[i] > g.timestamp /\ (g.timestamp = 0 => i > 1) }
<1>1. /\ q \in Seq(1..(n + 1)) /\ Len(q) = Len(r) + 1 /\ q[Len(q)] = n + 1
      /\ \A i \in 1..Len(r) : q[i] = r[i]
  BY RecordGrows
<1>a. q \in Seq(1..(n + 1))
  BY <1>1
<1> HIDE DEF q
<1>2. /\ b \in Seq(1..(n + 1))
      /\ Len(b) = (IF Len(q) <= BufferSize THEN Len(q) ELSE BufferSize)
      /\ \A i \in 1..Len(b) : b[i] = q[Len(q) - Len(b) + i]
  BY <1>a, Sizes, LastOfProperties
<1> HIDE DEF b
<1>3. Len(r) \in Nat /\ Len(r) >= 1 /\ Len(b) \in Nat /\ Len(b) >= 2 /\ Len(b) <= Len(q)
  BY <1>1, <1>2, Sizes
<1>b. b \in Seq(1..(n + 1)) /\ DOMAIN b = 1..Len(b) /\ Len(b) \in 1..Len(b) /\ Len(q) \in Nat
  BY <1>1, <1>2, <1>3, SMTT(30)
<1>4. b[Len(b)] = n + 1
  <2>1. b[Len(b)] = q[Len(q) - Len(b) + Len(b)]
    BY <1>2, <1>b
  <2>2. Len(q) - Len(b) + Len(b) = Len(q)
    BY <1>3, <1>b
  <2> QED
    BY <1>1, <2>1, <2>2
<1>5. g.timestamp \in 0..n
  <2>1. Len(r) > 1 => r[Len(r)] \in 1..n
    OBVIOUS
  <2> QED
    BY <1>3, <2>1
<1>6. ASSUME NEW i \in 1..(Len(b) - 1)
      PROVE  ~(b[i] > g.timestamp /\ (g.timestamp = 0 => i > 1))
  <2> DEFINE j == Len(q) - Len(b) + i
  <2>1. j \in 1..Len(r) /\ i \in 1..Len(b)
    BY <1>1, <1>3
  <2>2. b[i] = r[j] /\ r[j] <= r[Len(r)] /\ r[j] \in 1..n /\ r[Len(r)] \in 1..n
    <3>1. b[i] = q[j]
      BY <1>2, <2>1
    <3> HIDE DEF j
    <3>2. q[j] = r[j] /\ Len(r) \in 1..Len(r)
      BY <1>1, <1>3, <2>1
    <3> QED
      BY <2>1, <3>1, <3>2
  <2>3. CASE Len(r) <= 1
    BY <1>1, <1>2, <1>3, <2>3, Sizes
  <2>4. CASE Len(r) > 1
    BY <2>2, <2>4, SMTT(30)
  <2> QED
    BY <1>3, <2>3, <2>4
<1>7. newer = {Len(b)}
  <2>1. ASSUME NEW i \in 1..Len(b)
        PROVE  i \in newer <=> i = Len(b)
    <3>1. CASE i = Len(b)
      BY <1>3, <1>4, <1>5, <1>b, <3>1
    <3>2. CASE i # Len(b)
      BY <1>3, <1>6, <3>2
    <3> QED
      BY <3>1, <3>2
  <2>2. newer \subseteq 1..Len(b)
    BY <1>b
  <2> HIDE DEF newer
  <2> QED
    BY <1>b, <2>1, <2>2
<1>8. Min(newer) = Len(b)
  BY <1>3, <1>7 DEF Min
<1>9. SubSeq(b, Len(b), Len(b)) = <<n + 1>>
  <2>1. SubSeq(b, Len(b), Len(b)) = [i \in 1..1 |-> b[Len(b)]]
    BY <1>3, <1>b
  <2> QED
    BY <1>4, <2>1
<1> QED
  BY <1>7, <1>8, <1>9 DEF NewEntries, b, q

(* A reading comes, and is kept of every device it has a row for.          *)
Comes ==
    /\ clock' = clock + 1 /\ online' = online
    /\ buffer' = Push(buffer)
    /\ "readings" \in DOMAIN seen' /\ seen'.readings = Reading

LEMMA ComesRecorded ==
  ASSUME Graphed, Comes, NEW k \in Devices
  PROVE  /\ Record(k)' = IF k \in Given THEN Append(Record(k), clock + 1) ELSE Record(k)
         /\ Recorded(k)' /\ Buffered(k)'
<1> DEFINE r == Record(k)
           q == Append(r, clock + 1)
<1>1. Record(k)' = IF k \in Given THEN q ELSE r
  BY DEF Comes, Reading, Record, Graphed
<1>2. /\ clock \in Nat /\ r \in Seq(1..clock) /\ \A i \in 1..Len(r) : r[i] <= r[Len(r)]
      /\ Buffered(k)
  BY DEF Graphed, Recorded, Times
<1>3. DOMAIN buffer' = DOMAIN buffer \cup Given
  BY DEF Comes, Push
<1>4. CASE k \in Given
  <2>1. Record(k)' = q
    BY <1>1, <1>4
  <2> HIDE DEF r
  <2>2. /\ q \in Seq(1..(clock + 1)) /\ q # <<>>
        /\ \A i \in 1..Len(q) : q[i] <= q[Len(q)]
        /\ LastOf(Append(LastOf(r, BufferSize), clock + 1), BufferSize) = LastOf(q, BufferSize)
    BY <1>2, RecordGrows
  <2>3. buffer'[k] = Keep(IF k \in DOMAIN buffer THEN buffer[k] ELSE <<>>, clock + 1)
    BY <1>4 DEF Comes, Push
  <2>4. (IF k \in DOMAIN buffer THEN buffer[k] ELSE <<>>) = LastOf(r, BufferSize)
    <3>1. CASE k \in DOMAIN buffer
      BY <1>2, <3>1 DEF Buffered, r
    <3>2. CASE k \notin DOMAIN buffer
      <4>1. r = <<>>
        BY <1>2, <3>2 DEF Buffered, r
      <4> QED
        BY <3>2, <4>1, Sizes DEF LastOf
    <3> QED
      BY <3>1, <3>2
  <2>5. buffer'[k] = LastOf(q, BufferSize)
    BY <2>2, <2>3, <2>4 DEF Keep
  <2>6. k \in DOMAIN buffer'
    BY <1>3, <1>4
  <2>7. clock' = clock + 1
    BY DEF Comes
  <2> HIDE DEF q
  <2>8. Recorded(k)'
    BY <2>1, <2>2, <2>7 DEF Recorded, Times
  <2>9. Buffered(k)'
    BY <2>1, <2>2, <2>5, <2>6 DEF Buffered
  <2> QED
    BY <1>4, <2>1, <2>8, <2>9 DEF q, r
<1>5. CASE k \notin Given
  <2>1. Record(k)' = r /\ clock' = clock + 1
    BY <1>1, <1>5 DEF Comes
  <2>2. r \in Seq(1..(clock + 1))
    BY <1>2, SeqMonotonic
  <2>3. k \in DOMAIN buffer' <=> k \in DOMAIN buffer
    BY <1>3, <1>5
  <2>4. k \in DOMAIN buffer => buffer'[k] = buffer[k]
    BY <1>5 DEF Comes, Push
  <2>5. Recorded(k)'
    BY <1>2, <2>1, <2>2 DEF Recorded, Times
  <2>6. Buffered(k)'
    BY <1>2, <2>1, <2>3, <2>4 DEF Buffered
  <2> QED
    BY <1>5, <2>1, <2>5, <2>6
<1> QED
  BY <1>4, <1>5

(* Nothing comes.                                                          *)
Stays ==
    /\ clock' \in {clock, clock + 1} /\ online' \in SUBSET Cores /\ online' # {}
    /\ buffer' = buffer
    /\ "readings" \in DOMAIN seen' /\ seen'.readings = seen.readings

LEMMA StaysRecorded ==
  ASSUME Graphed, Stays, NEW k \in Devices
  PROVE  Record(k)' = Record(k) /\ Recorded(k)' /\ Buffered(k)'
<1>1. Record(k)' = Record(k)
  BY DEF Stays, Record
<1>2. clock \in Nat /\ Recorded(k) /\ Buffered(k)
  BY DEF Graphed
<1>3. Record(k) \in Seq(1..clock')
  <2>1. 1..clock \subseteq 1..clock'
    BY <1>2 DEF Stays
  <2> QED
    BY <1>2, <2>1, SeqMonotonic DEF Recorded, Times
<1> QED
  BY <1>1, <1>2, <1>3 DEF Recorded, Buffered, Stays, Times

(* What has been plotted stays, and what came is plotted behind it.        *)
LEMMA PlotTells ==
  ASSUME Graphed, NEW k \in DOMAIN graph, Comes \/ Stays,
         graph'[k] = IF k \in DOMAIN buffer' THEN Plot(graph[k], buffer'[k]) ELSE graph[k]
  PROVE  Windowed(k)'
<1> DEFINE r == Record(k)
           g == graph[k]
<1>1. /\ k \in Devices /\ clock \in Nat /\ r \in Seq(1..clock) /\ r # <<>>
      /\ \A i \in 1..Len(r) : r[i] <= r[Len(r)]
      /\ g.values = Window(Tail(r)) /\ g.timestamp = IF Len(r) <= 1 THEN 0 ELSE r[Len(r)]
      /\ k \in DOMAIN buffer
  BY DEF Graphed, Recorded, Windowed, Plotted, Buffered, Times
<1>2. k \in DOMAIN buffer' /\ buffer'[k] = LastOf(Record(k)', BufferSize)
  <2>1. Buffered(k)' /\ (Record(k)' = r \/ Record(k)' = Append(r, clock + 1))
    BY <1>1, ComesRecorded, StaysRecorded
  <2>2. Record(k)' # <<>>
    BY <1>1, <2>1, RecordGrows
  <2> QED
    BY <2>1, <2>2 DEF Buffered
<1>3. Tail(r) \in Seq(Nat)
  BY <1>1
<1> HIDE DEF r, g
<1>4. CASE Record(k)' = r
  <2>1. NewEntries(g, buffer'[k]) = <<>>
    BY <1>1, <1>2, <1>4, NothingNew
  <2>2. graph'[k] = [values |-> LastOf(g.values \o <<>>, Wanted), timestamp |-> g.timestamp]
    BY <1>2, <2>1 DEF Plot, g
  <2>3. LastOf(g.values \o <<>>, Wanted) = Window(Tail(r))
    <3>1. Window(Tail(r)) \in Seq(Nat) /\ LastOf(Window(Tail(r)), Wanted) = Window(Tail(r))
      BY <1>3, WindowGrows
    <3>2. g.values \o <<>> = g.values
      BY <1>1, <3>1, ConcatEmptySeq
    <3> QED
      BY <1>1, <3>1, <3>2
  <2>4. graph'[k].values = Window(Tail(r)) /\ graph'[k].timestamp = g.timestamp
        /\ {"values", "timestamp"} \subseteq DOMAIN graph'[k]
    BY <2>2, <2>3
  <2> QED
    BY <1>1, <1>4, <2>4 DEF Windowed, Plotted
<1>5. CASE Record(k)' = Append(r, clock + 1)
  <2> DEFINE q == Append(r, clock + 1)
  <2>1. NewEntries(g, buffer'[k]) = <<clock + 1>>
    BY <1>1, <1>2, <1>5, OneNew
  <2>2. graph'[k] = [values |-> LastOf(g.values \o <<clock + 1>>, Wanted), timestamp |-> clock + 1]
    BY <1>2, <2>1 DEF Plot, g
  <2>3. /\ q # <<>> /\ Len(q) = Len(r) + 1 /\ q[Len(q)] = clock + 1
        /\ Tail(q) = Tail(r) \o <<clock + 1>>
    BY <1>1, RecordGrows
  <2>4. LastOf(g.values \o <<clock + 1>>, Wanted) = Window(Tail(q))
    <3>1. <<clock + 1>> \in Seq(Nat)
      BY <1>1
    <3> QED
      BY <1>1, <1>3, <2>3, <3>1, WindowGrows
  <2>5. Len(r) \in Nat /\ Len(r) >= 1
    BY <1>1
  <2>6. graph'[k].values = Window(Tail(q)) /\ graph'[k].timestamp = clock + 1
        /\ {"values", "timestamp"} \subseteq DOMAIN graph'[k]
    BY <2>2, <2>4
  <2> HIDE DEF q
  <2>7. Record(k)' = q
    BY <1>5 DEF q
  <2>8. Plotted(k)' = clock + 1
    BY <2>3, <2>5, <2>7 DEF Plotted
  <2> QED
    BY <2>3, <2>6, <2>7, <2>8 DEF Windowed
<1> QED
  BY <1>1, <1>4, <1>5, ComesRecorded, StaysRecorded DEF r

(* A graph that is left alone while nothing comes.                         *)
LEMMA GraphStays ==
  ASSUME Graphed, Stays, NEW k \in DOMAIN graph, graph'[k] = graph[k]
  PROVE  Windowed(k)'
  BY StaysRecorded DEF Graphed, Windowed, Plotted

(* The first reading opens an empty graph for every device it has.         *)
LEMMA LoadGraphs ==
  ASSUME Graphed, Load
  PROVE  Graphed'
<1>1. clock = 0 /\ clock' = 1 /\ Comes /\ graph' = [k \in Given |-> NewGraph]
      /\ buffer' = Push(buffer) /\ seen' = [seen EXCEPT !.readings = Reading]
  BY DEF Load, Reads, Took, Comes, Graphed
<1>2. \A k \in Devices : Recorded(k)' /\ Buffered(k)'
  BY <1>1, ComesRecorded
<1>3. ASSUME NEW k \in Given
      PROVE  Windowed(k)'
  <2>1. k \in Devices /\ Record(k) \in Seq(1..0)
    BY <1>1, <1>3, GivenAreDevices DEF Graphed, Recorded, Times
  <2>2. Record(k) = <<>>
    BY <2>1
  <2>3. Record(k)' = Append(<<>>, 1)
    <3>1. Record(k)' = Append(Record(k), clock + 1)
      BY <1>1, <1>3, <2>1, ComesRecorded
    <3> QED
      BY <1>1, <2>2, <3>1
  <2>4. Record(k)' # <<>> /\ Len(Record(k)') = 1 /\ Tail(Record(k)') = <<>>
    BY <2>3
  <2>5. graph'[k] = NewGraph
    BY <1>1, <1>3
  <2>6. {"values", "timestamp"} \subseteq DOMAIN NewGraph /\ NewGraph.timestamp = 0
    BY DEF NewGraph
  <2>7. Plotted(k)' = 0
    BY <2>4 DEF Plotted
  <2> QED
    BY <2>4, <2>5, <2>6, <2>7, WindowEmpty DEF Windowed
<1>4. DOMAIN buffer' \subseteq Devices /\ DOMAIN graph' \subseteq Devices
  BY <1>1, GivenAreDevices DEF Push, Graphed
<1>5. "readings" \in DOMAIN seen' /\ DOMAIN seen'.readings = Devices
  BY <1>1 DEF Graphed, Reading
<1>6. clock' \in Nat /\ online' = online /\ DOMAIN graph' = Given
  BY <1>1 DEF Load
<1>7. online' \in SUBSET Cores /\ online' # {}
  BY <1>6 DEF Graphed
<1> QED
  BY <1>2, <1>3, <1>4, <1>5, <1>6, <1>7 DEF Graphed

LEMMA PollGraphs ==
  ASSUME Graphed, Poll
  PROVE  Graphed'
<1>1. Comes /\ graph' = PlotAll(buffer') /\ buffer' = Push(buffer)
      /\ seen' = [seen EXCEPT !.readings = Reading]
  BY DEF Poll, Reads, Took, Comes, Graphed
<1>2. \A k \in Devices : Recorded(k)' /\ Buffered(k)'
  BY <1>1, ComesRecorded
<1>3. DOMAIN graph' = DOMAIN graph
  BY <1>1 DEF PlotAll
<1>4. ASSUME NEW k \in DOMAIN graph
      PROVE  Windowed(k)'
  BY <1>1, PlotTells DEF PlotAll
<1>5. DOMAIN buffer' \subseteq Devices
  BY <1>1, GivenAreDevices DEF Push, Graphed
<1>6. "readings" \in DOMAIN seen' /\ DOMAIN seen'.readings = Devices
  BY <1>1 DEF Graphed, Reading
<1>7. clock' \in Nat /\ online' \in SUBSET Cores /\ online' # {}
  BY <1>1 DEF Comes, Graphed
<1> QED
  BY <1>2, <1>3, <1>4, <1>5, <1>6, <1>7 DEF Graphed

(* A step on which no reading comes leaves the graphs, or plots again.     *)
LEMMA QuietGraphs ==
  ASSUME Graphed, Stays, graph' = graph \/ graph' = PlotAll(buffer)
  PROVE  Graphed'
<1>1. \A k \in Devices : Recorded(k)' /\ Buffered(k)'
  BY StaysRecorded
<1>2. DOMAIN graph' = DOMAIN graph
  BY DEF PlotAll
<1>3. ASSUME NEW k \in DOMAIN graph
      PROVE  Windowed(k)'
  <2>1. CASE graph' = graph
    BY <2>1, GraphStays
  <2>2. CASE graph' = PlotAll(buffer)
    BY <2>2, PlotTells DEF PlotAll, Stays
  <2> QED
    BY <2>1, <2>2
<1>4. DOMAIN buffer' \subseteq Devices /\ clock' \in Nat
      /\ "readings" \in DOMAIN seen' /\ DOMAIN seen'.readings = Devices
      /\ online' \in SUBSET Cores /\ online' # {}
  BY DEF Stays, Graphed
<1> QED
  BY <1>1, <1>2, <1>3, <1>4 DEF Graphed

LEMMA InitGraphed == Init => Graphed
<1> SUFFICES ASSUME Init PROVE Graphed
  OBVIOUS
<1>1. ASSUME NEW k \in Devices
      PROVE  Recorded(k) /\ Buffered(k)
  <2>1. Record(k) = <<>> /\ k \notin DOMAIN buffer
    BY DEF Init, Record
  <2> QED
    BY <2>1 DEF Recorded, Buffered
<1>2. online \in SUBSET Cores /\ online # {} /\ clock \in Nat
  BY DEF Init
<1>3. "readings" \in DOMAIN seen /\ DOMAIN seen.readings = Devices
  BY DEF Init
<1>4. DOMAIN buffer = {} /\ DOMAIN graph = {}
  BY DEF Init
<1> QED
  BY <1>1, <1>2, <1>3, <1>4 DEF Graphed

LEMMA NextGraphed == Graphed /\ [Next]_vars => Graphed'
<1> SUFFICES ASSUME Graphed, [Next]_vars PROVE Graphed'
  OBVIOUS
<1> USE DEF Graphed
<1>1. ASSUME PollFails PROVE Graphed'
  <2>1. Stays /\ (graph' = graph \/ graph' = PlotAll(buffer))
    BY <1>1 DEF PollFails, Took, Stays
  <2> QED
    BY <2>1, QuietGraphs
<1>2. ASSUME LoadFails \/ PollThrows PROVE Graphed'
  <2>1. Stays /\ graph' = graph
    BY <1>2 DEF LoadFails, PollThrows, Took, Stays
  <2> QED
    BY <2>1, QuietGraphs
<1>3. ASSUME CoresChange \/ AskForTable \/ Reload \/ UNCHANGED vars PROVE Graphed'
  <2>1. Stays /\ graph' = graph
    BY <1>3 DEF CoresChange, AskForTable, Reload, vars, Took, Stays
  <2> QED
    BY <2>1, QuietGraphs
<1>4. ASSUME RenderCPU PROVE Graphed'
  <2>1. Stays /\ graph' = graph
    BY <1>4 DEF RenderCPU, Stays
  <2> QED
    BY <2>1, QuietGraphs
<1>5. ASSUME NEW ok \in BOOLEAN, RenderTemperature(ok) \/ RenderNothing(ok) PROVE Graphed'
  <2>1. Stays /\ graph' = graph
    BY <1>5 DEF RenderTemperature, RenderNothing, Stays
  <2> QED
    BY <2>1, QuietGraphs
<1>6. ASSUME NEW v \in Modes, SelectMode(v) PROVE Graphed'
  <2>1. Stays /\ graph' = graph
    BY <1>6 DEF SelectMode, Stays
  <2> QED
    BY <2>1, QuietGraphs
<1>7. ASSUME NEW s \in Sensors, HideItem(s) PROVE Graphed'
  <2>1. Stays /\ graph' = graph
    BY <1>7 DEF HideItem, Stays
  <2> QED
    BY <2>1, QuietGraphs
<1>8. ASSUME UnhideAllItems \/ OtherTab PROVE Graphed'
  <2>1. Stays /\ graph' = graph
    BY <1>8 DEF UnhideAllItems, OtherTab, Stays
  <2> QED
    BY <2>1, QuietGraphs
<1> USE DEF Next
<1> QED
  BY <1>1, <1>2, <1>3, <1>4, <1>5, <1>6, <1>7, <1>8, LoadGraphs, PollGraphs

(* A graph shows the latest readings its device was given, each of them    *)
(* once and in their order, for any sizes of buffer and window and however *)
(* many polls failed or threw (pollData in cpu.js and temperature.js).     *)
THEOREM GraphsTellTheRecord == Spec => []WindowIsTheRecord
<1>1. Graphed => WindowIsTheRecord
  BY DEF Graphed, Windowed, Record, WindowIsTheRecord
<1> QED
  BY <1>1, InitGraphed, NextGraphed, PTL DEF Spec

-----------------------------------------------------------------------------
(* What the user arranged.                                                 *)

(* What he hid is hidden in the storage, and on the page from the moment   *)
(* it has asked for a reading.                                             *)
HiddenStays ==
    page = "temperature table" =>
        /\ seen.hid \cap table.rows = {} /\ seen.hid \subseteq stored.hidden
        /\ table.asked \/ table.rendered => seen.hid \subseteq table.hidden
        /\ seen.chosen = NoChoice

(* A mode is one that was chosen, or the first, for want of such a one.    *)
Right(m, chosen, modes) == m \in chosen \/ (m = 0 /\ ~(chosen \subseteq modes))

(* A mode that was chosen is stored, unless it is the first and nothing    *)
(* ever was, and the mode of the page and the one shown are right.         *)
ModeStored ==
    /\ seen.hid = {} /\ table.modes \subseteq Modes /\ table.mode \in Modes
    /\ stored.mode \in Modes \cup {NoChoice} /\ Lasting \subseteq Modes
    /\ stored.mode = NoChoice => table.mode = 0 /\ Lasting \subseteq {0}
    /\ stored.mode # NoChoice => stored.mode \in Lasting
ModeShown ==
    seen.chosen # NoChoice =>
        /\ table.asked \/ table.rendered => Right(table.mode, Lasting, table.modes)
        /\ table.rendered => Right(table.shown, Lasting, table.modes)
ModeStays == page = "cpu table" => ModeStored /\ ModeShown
Arranged ==
    /\ DOMAIN table = DOMAIN NewTable
    /\ DOMAIN stored = {"hidden", "mode"} /\ DOMAIN seen = {"readings", "hid", "chosen", "before"}
    /\ HiddenStays /\ ModeStays

(* A new table is empty, and with one core only the first modes are left.  *)
LEMMA NewTableIsEmpty ==
  /\ NewTable.rows = {} /\ NewTable.modes = Modes /\ NewTable.mode = 0 /\ 0 \in Modes
  /\ ~NewTable.asked /\ ~NewTable.rendered
  BY DEF NewTable, Modes

LEMMA ModesOfOneCore ==
  ASSUME NEW m \in Modes, NEW M \in SUBSET Modes
  PROVE  /\ 0 \in Modes /\ M \ {2, 3} \subseteq Modes /\ (m > 1 => m # 0)
         /\ m \in M /\ ~(m > 1) => m \in M \ {2, 3}
  BY DEF Modes

LEMMA ModeOfOneCore ==
  ASSUME NEW m \in Modes, NEW M \in SUBSET Modes, NEW one \in BOOLEAN
  PROVE  LET mode == IF one /\ m > 1 THEN 0 ELSE m
             modes == IF one THEN M \ {2, 3} ELSE M
         IN mode = m \/ (mode = 0 /\ m # 0 /\ m \notin modes)
  BY DEF Modes

LEMMA NoChoiceIsNone == NoChoice \notin Modes
  BY DEF Modes, NoChoice

LEMMA NextArranged == Arranged /\ [Next]_vars => Arranged'
<1> SUFFICES ASSUME Arranged, [Next]_vars PROVE Arranged'
  OBVIOUS
<1> USE DEF Arranged, HiddenStays, ModeStays, ModeStored, ModeShown
<1>1. ASSUME UNCHANGED <<page, table, stored>>, "chosen" \in DOMAIN seen',
             DOMAIN seen' = DOMAIN seen, seen'.hid = seen.hid, seen'.chosen = seen.chosen,
             seen'.before = seen.before
      PROVE  Arranged'
  BY <1>1 DEF Right, Lasting
<1>2. ASSUME Load \/ LoadFails \/ Poll \/ PollFails \/ PollThrows \/ CoresChange
             \/ UNCHANGED vars
      PROVE  Arranged'
  BY <1>1, <1>2 DEF Load, LoadFails, Poll, PollFails, PollThrows, CoresChange, vars
<1>3. ASSUME AskForTable PROVE Arranged'
  <2>1. UNCHANGED <<page, stored, seen>> /\ table' = [Restore(table) EXCEPT !.asked = TRUE]
    BY <1>3 DEF AskForTable
  <2>2. /\ DOMAIN table' = DOMAIN NewTable
        /\ table'.rows = table.rows /\ table'.modes = table.modes
        /\ table'.rendered = table.rendered /\ table'.shown = table.shown
        /\ table'.hidden = (IF stored.hidden = {} THEN table.hidden ELSE stored.hidden)
        /\ table'.mode = (IF stored.mode = NoChoice THEN table.mode ELSE stored.mode)
    BY <2>1 DEF Restore, NewTable
  <2>3. HiddenStays'
    BY <2>1, <2>2
  <2>4. ModeStays'
    <3> SUFFICES ASSUME page = "cpu table" PROVE ModeStays'
      BY <2>1
    <3>1. Lasting' = Lasting /\ table'.mode \in Modes
      BY <2>1, <2>2 DEF Lasting, Modes, NoChoice
    <3>2. seen.chosen # NoChoice => table'.mode \in Lasting
      <4>1. CASE stored.mode # NoChoice
        BY <2>2, <4>1
      <4>2. CASE stored.mode = NoChoice
        BY <2>2, <4>2 DEF Lasting
      <4> QED
        BY <4>1, <4>2
    <3>3. ModeStored'
      BY <2>1, <2>2, <3>1
    <3>a. seen.chosen # NoChoice => Right(table'.mode, Lasting, table'.modes)
      BY <3>2 DEF Right
    <3>b. seen' = seen /\ table'.modes = table.modes /\ table'.rendered = table.rendered
          /\ table'.shown = table.shown
      BY <2>1, <2>2
    <3>4. ModeShown'
      BY <3>1, <3>a, <3>b
    <3> QED
      BY <3>3, <3>4
  <2> QED
    BY <2>1, <2>2, <2>3, <2>4
<1>4. ASSUME RenderCPU PROVE Arranged'
  <2> DEFINE mode == IF Rows = 1 /\ table.mode > 1 THEN 0 ELSE table.mode
             modes == IF Rows = 1 THEN table.modes \ {2, 3} ELSE table.modes
  <2>1. /\ UNCHANGED <<page, stored, seen>> /\ page = "cpu table" /\ table.asked
        /\ DOMAIN table' = DOMAIN NewTable /\ table'.rendered
        /\ table'.rows = table.rows /\ table'.modes = modes /\ table'.mode = mode
        /\ table'.shown = mode
    BY <1>4 DEF RenderCPU, NewTable
  <2>2. Lasting' = Lasting
    BY <2>1 DEF Lasting
  <2>3. modes \subseteq Modes /\ mode \in Modes /\ modes \subseteq table.modes
        /\ (table.mode = 0 => mode = 0)
    <3>1. table.mode \in Modes /\ table.modes \in SUBSET Modes
      BY <2>1
    <3> QED
      BY <3>1, ModesOfOneCore
  <2>4. ASSUME seen.chosen # NoChoice PROVE Right(mode, Lasting, modes)
    <3>1. Right(table.mode, Lasting, table.modes) /\ table.mode \in Modes
      BY <2>1, <2>4
    <3>2. mode = table.mode \/ (mode = 0 /\ table.mode # 0 /\ table.mode \notin modes)
      BY <3>1, ModeOfOneCore
    <3> HIDE DEF mode, modes
    <3> QED
      BY <2>3, <3>1, <3>2 DEF Right
  <2> HIDE DEF mode, modes
  <2>5. ModeStays'
    BY <2>1, <2>2, <2>3, <2>4
  <2> QED
    BY <2>1, <2>5
<1>5. ASSUME NEW ok \in BOOLEAN, RenderTemperature(ok) PROVE Arranged'
  <2>1. UNCHANGED <<stored, seen, page>> /\ page = "temperature table" /\ table.asked
    BY <1>5 DEF RenderTemperature
  <2>2. /\ DOMAIN table' = DOMAIN NewTable /\ table'.hidden = table.hidden
        /\ table'.rows \in {table.rows, Sensors \ table.hidden}
    BY <1>5 DEF RenderTemperature, MakeTempTable, NewTable
  <2> QED
    BY <2>1, <2>2
<1>6. ASSUME NEW ok \in BOOLEAN, RenderNothing(ok) PROVE Arranged'
  <2>1. UNCHANGED <<stored, seen, page>> /\ page = "cpu table" /\ table.asked
        /\ table' = [table EXCEPT !.asked = FALSE]
    BY <1>6 DEF RenderNothing
  <2>2. /\ DOMAIN table' = DOMAIN NewTable /\ table'.rendered = table.rendered
        /\ table'.mode = table.mode /\ table'.shown = table.shown
        /\ table'.modes = table.modes /\ table'.rows = table.rows
    BY <2>1 DEF NewTable
  <2>3. Lasting' = Lasting
    BY <2>1 DEF Lasting
  <2>4. ModeStored'
    BY <2>1, <2>2, <2>3
  <2>5. ModeShown'
    BY <2>1, <2>2, <2>3
  <2> QED
    BY <2>1, <2>2, <2>4, <2>5
<1>7. ASSUME NEW v \in Modes, SelectMode(v) PROVE Arranged'
  <2>1. /\ page' = page /\ page = "cpu table" /\ table.rendered /\ v \in table.modes
        /\ table' = [table EXCEPT !.mode = v, !.shown = v]
        /\ stored' = [stored EXCEPT !.mode = SaveMode(v)]
        /\ seen' = [seen EXCEPT !.chosen = v,
                                !.before = IF v = table.mode THEN Lasting ELSE {}]
    BY <1>7 DEF SelectMode
  <2>2. /\ DOMAIN table' = DOMAIN NewTable /\ table'.rendered
        /\ table'.mode = v /\ table'.shown = v /\ table'.modes = table.modes
        /\ DOMAIN stored' = DOMAIN stored
        /\ stored'.mode = IF table.mode # v THEN v ELSE stored.mode
    BY <2>1 DEF NewTable, SaveMode
  <2>3. /\ DOMAIN seen' = DOMAIN seen /\ seen'.hid = seen.hid /\ seen'.chosen = v
        /\ seen'.before = IF v = table.mode THEN Lasting ELSE {}
    BY <2>1
  <2>4. v # NoChoice
    BY NoChoiceIsNone
  <2> DEFINE before == IF v = table.mode THEN Lasting ELSE {}
  <2>5. Lasting' = before \cup {v}
    BY <2>3, <2>4 DEF Lasting
  <2>6. ModeStays'
    <3>1. \A M : Right(v, Lasting', M)
      BY <2>5 DEF Right
    <3>2. Lasting' \subseteq Modes
      BY <2>1, <2>5
    <3>a. ModeShown'
      BY <2>2, <3>1
    <3>3. CASE table.mode # v
      <4>1. stored'.mode = v /\ v \in Lasting'
        BY <2>2, <2>5, <3>3
      <4>2. ModeStored'
        BY <2>1, <2>2, <2>3, <2>4, <3>2, <4>1
      <4> QED
        BY <3>a, <4>2
    <3>4. CASE table.mode = v
      <4>1. Lasting' = Lasting \cup {v} /\ stored'.mode = stored.mode
        BY <2>2, <2>5, <3>4
      <4> HIDE DEF before
      <4>2. ModeStored'
        BY <2>1, <2>2, <2>3, <3>2, <3>4, <4>1
      <4> QED
        BY <3>a, <4>2
    <3> QED
      BY <3>3, <3>4
  <2> QED
    BY <2>1, <2>2, <2>3, <2>6
<1>8. ASSUME NEW s \in Sensors, HideItem(s) PROVE Arranged'
  <2> DEFINE hidden == table.hidden \cup {s}
  <2>1. /\ page' = page /\ page = "temperature table" /\ table.rendered
        /\ DOMAIN table' = DOMAIN NewTable
        /\ table'.hidden = hidden /\ table'.rows = Sensors \ hidden
        /\ DOMAIN stored' = DOMAIN stored /\ stored'.hidden = hidden
        /\ DOMAIN seen' = DOMAIN seen /\ seen'.hid = seen.hid \cup {s}
        /\ seen'.chosen = seen.chosen
    BY <1>8 DEF HideItem, MakeTempTable, NewTable
  <2> QED
    BY <2>1
<1>9. ASSUME UnhideAllItems PROVE Arranged'
  <2>1. /\ page' = page /\ page = "temperature table"
        /\ DOMAIN table' = DOMAIN NewTable /\ DOMAIN stored' = DOMAIN stored
        /\ DOMAIN seen' = DOMAIN seen /\ seen'.hid = {} /\ seen'.chosen = seen.chosen
    BY <1>9 DEF UnhideAllItems, MakeTempTable, NewTable
  <2> QED
    BY <2>1
<1>10. ASSUME Reload PROVE Arranged'
  <2>1. UNCHANGED <<page, stored, seen>> /\ table' = NewTable
    BY <1>10 DEF Reload
  <2>2. Lasting' = Lasting
    BY <2>1 DEF Lasting
  <2>3. /\ table'.rows = {} /\ table'.modes = Modes /\ table'.mode = 0 /\ 0 \in Modes
        /\ ~table'.asked /\ ~table'.rendered
    BY <2>1, NewTableIsEmpty
  <2>4. HiddenStays'
    BY <2>1, <2>3
  <2>5. ModeStays'
    BY <2>1, <2>2, <2>3
  <2> QED
    BY <2>1, <2>4, <2>5
<1>11. ASSUME OtherTab PROVE Arranged'
  <2>1. /\ UNCHANGED <<page, table>> /\ DOMAIN stored' = DOMAIN stored
        /\ DOMAIN seen' = DOMAIN seen
    BY <1>11 DEF OtherTab
  <2>2. CASE page = "temperature table"
    <3>1. seen'.hid = {} /\ seen'.chosen = seen.chosen
      BY <1>11, <2>2 DEF OtherTab
    <3> QED
      BY <2>1, <2>2, <3>1
  <2>3. CASE page = "cpu table"
    <3>1. PICK v \in Modes : /\ stored'.mode = v /\ seen'.hid = seen.hid
                             /\ seen'.chosen = NoChoice /\ seen'.before = {v}
      BY <1>11, <2>3 DEF OtherTab
    <3>2. Lasting' = {v}
      BY <3>1 DEF Lasting
    <3>3. stored'.mode # NoChoice
      BY <3>1, NoChoiceIsNone
    <3>4. ModeStored' /\ ModeShown'
      BY <2>1, <2>3, <3>1, <3>2, <3>3
    <3> QED
      BY <2>1, <2>3, <3>4
  <2> QED
    BY <1>11, <2>2, <2>3 DEF OtherTab
<1> QED
  BY <1>2, <1>3, <1>4, <1>5, <1>6, <1>7, <1>8, <1>9, <1>10, <1>11 DEF Next

(* What the user arranged stays arranged over polls, failures and reloads  *)
(* of the overview: a sensor he hid does not come back, and the mode he    *)
(* clicked last is the one shown, with the two exceptions the property     *)
(* names (27_temperature.js, 18_cpu.js).                                   *)
THEOREM ArrangementsStay == Spec => []ChoicesAreKept
<1>1. ASSUME Init PROVE Arranged
  <2>1. /\ table = NewTable /\ stored = [hidden |-> {}, mode |-> NoChoice]
        /\ DOMAIN seen = {"readings", "hid", "chosen", "before"}
        /\ seen.hid = {} /\ seen.chosen = NoChoice /\ seen.before = {}
    BY <1>1 DEF Init
  <2>2. Lasting = {}
    BY <2>1 DEF Lasting
  <2>3. HiddenStays
    BY <2>1, NewTableIsEmpty DEF HiddenStays
  <2>4. ModeStored /\ ModeShown
    BY <2>1, <2>2, NewTableIsEmpty DEF ModeStored, ModeShown
  <2> QED
    BY <2>1, <2>3, <2>4 DEF Arranged, ModeStays
<1>2. Arranged => ChoicesAreKept
  BY DEF Arranged, HiddenStays, ModeStays, ModeStored, ModeShown, ChoicesAreKept, IsTable, Right
<1> QED
  BY <1>1, <1>2, NextArranged, PTL DEF Spec

=============================================================================
