--------------------------- MODULE MultipartProofs ---------------------------
(***************************************************************************)
(* The streams of a body that carries files deliver what was sent, for any *)
(* payloads, parts, delimiter and chunks.  The argument is where the       *)
(* reader is: behind each step of the parser a place of the body is known  *)
(* at which the buffer begins (ReaderInv), what is buffered there and what *)
(* has yet to arrive is the body from that place on (Behind), so that the  *)
(* search finds the delimiter where the body has it and nowhere before.    *)
(*                                                                         *)
(* First sums and the body's layout, then the cursor's operations on any   *)
(* text, then the steps of the reader, one lemma each.                     *)
(***************************************************************************)
EXTENDS Multipart, SequenceTheorems, FiniteSetTheorems, TLAPS

\* Total is the number of these.
Units(lengths) == UNION {{i} \X (1 .. lengths[i]) : i \in DOMAIN lengths}

\* A unit is a place and a number up to the length there.
LEMMA UnitsAre ==
    ASSUME NEW D, NEW f \in [D -> Nat], NEW i, NEW n
    PROVE  <<i, n>> \in Units(f) <=> i \in D /\ n \in 1 .. f[i]
  BY DEF Units

LEMMA UnitsArePairs ==
    ASSUME NEW D, NEW f \in [D -> Nat], NEW u \in Units(f)
    PROVE  \E i \in D : \E n \in 1 .. f[i] : u = <<i, n>>
  BY DEF Units

\* Finitely many places have finitely many units.
LEMMA UnitsAreFinite ==
    ASSUME NEW D, IsFiniteSet(D), NEW f \in [D -> Nat]
    PROVE  IsFiniteSet(Units(f))
  <1> DEFINE rows == {{i} \X (1 .. f[i]) : i \in D}
             row == [i \in D |-> {i} \X (1 .. f[i])]
  <1>1. row \in Surjection(D, rows)
    <2>1. row \in [D -> rows]
      OBVIOUS
    <2>2. ASSUME NEW r \in rows PROVE \E i \in D : row[i] = r
      OBVIOUS
    <2> HIDE DEF row, rows
    <2> QED
      BY <2>1, <2>2 DEF Surjection
  <1>2. IsFiniteSet(rows)
    BY <1>1, FS_Surjection
  <1>3. ASSUME NEW i \in D PROVE IsFiniteSet({i} \X (1 .. f[i]))
    <2>1. IsFiniteSet({i})
      BY FS_Singleton
    <2>2. f[i] \in Int /\ IsFiniteSet(1 .. f[i])
      BY FS_Interval
    <2> QED
      BY <2>1, <2>2, FS_Product
  <1>4. \A r \in rows : IsFiniteSet(r)
    BY <1>3
  <1>5. IsFiniteSet(UNION rows)
    BY <1>2, <1>4, FS_UNION
  <1>6. Units(f) = UNION rows
    BY DEF Units
  <1> QED
    BY <1>5, <1>6

\* k units of one place.
Row(a, m, k) == {a} \X (m + 1 .. m + k)

\* A row has as many as it says.
LEMMA RowSize ==
    ASSUME NEW a, NEW m \in Nat, NEW k \in Nat
    PROVE  IsFiniteSet(Row(a, m, k)) /\ Cardinality(Row(a, m, k)) = k
  <1> DEFINE row == m + 1 .. m + k
  <1>1. IsFiniteSet({a}) /\ Cardinality({a}) = 1
    BY FS_Singleton
  <1>2. IsFiniteSet(row) /\ Cardinality(row) = k
    <2>1. IsFiniteSet(row) /\ Cardinality(row) = IF m + 1 > m + k THEN 0 ELSE m + k - (m + 1) + 1
      <3>1. m + 1 \in Int /\ m + k \in Int
        OBVIOUS
      <3> QED
        BY <3>1, FS_Interval
    <2> QED
      BY <2>1
  <1> HIDE DEF row
  <1>3. IsFiniteSet({a} \X row) /\ Cardinality({a} \X row) = Cardinality({a}) * Cardinality(row)
    BY <1>1, <1>2, FS_Product
  <1>4. IsFiniteSet({a} \X row) /\ Cardinality({a} \X row) = k
    BY <1>1, <1>2, <1>3
  <1> QED
    BY <1>4 DEF row, Row

LEMMA DisjointUnion ==
    ASSUME NEW S, NEW T, IsFiniteSet(S), IsFiniteSet(T), S \cap T = {}
    PROVE  IsFiniteSet(S \cup T) /\ Cardinality(S \cup T) = Cardinality(S) + Cardinality(T)
  <1>1. Cardinality(S) \in Nat /\ Cardinality(T) \in Nat /\ Cardinality(S \cap T) = 0
    BY FS_CardinalityType, FS_EmptySet
  <1>2. /\ IsFiniteSet(S \cup T)
        /\ Cardinality(S \cup T) = Cardinality(S) + Cardinality(T) - Cardinality(S \cap T)
    BY FS_Union
  <1> QED
    BY <1>1, <1>2

\* Longer lengths have the units of shorter ones.
LEMMA UnitsGrow ==
    ASSUME NEW E, NEW g \in [E -> Nat], NEW D \in SUBSET E, NEW f \in [D -> Nat],
           \A i \in D : f[i] <= g[i]
    PROVE  Units(f) \subseteq Units(g)
  <1>1. ASSUME NEW u \in Units(f) PROVE u \in Units(g)
    <2>1. PICK i \in D : \E n \in 1 .. f[i] : u = <<i, n>>
      BY UnitsArePairs
    <2>2. PICK n \in 1 .. f[i] : u = <<i, n>>
      BY <2>1
    <2>3. f[i] \in Nat /\ g[i] \in Nat /\ f[i] <= g[i]
      OBVIOUS
    <2>4. i \in E /\ n \in 1 .. g[i]
      BY <2>3
    <2> QED
      BY <2>2, <2>4, UnitsAre
  <1> QED
    BY <1>1

\* A sum grows with its terms, by as much as one of them has room for.
LEMMA TotalWithRoom ==
    ASSUME NEW E, IsFiniteSet(E), NEW g \in [E -> Nat], NEW D \in SUBSET E, NEW f \in [D -> Nat],
           \A i \in D : f[i] <= g[i]
    PROVE  /\ Total(f) \in Nat /\ Total(g) \in Nat /\ Total(f) <= Total(g)
           /\ \A a \in D, k \in Nat : f[a] + k <= g[a] => Total(f) + k <= Total(g)
  <1>1. IsFiniteSet(D) /\ IsFiniteSet(Units(f)) /\ IsFiniteSet(Units(g))
    BY FS_Subset, UnitsAreFinite
  <1>2. Total(f) = Cardinality(Units(f)) /\ Total(g) = Cardinality(Units(g))
    BY DEF Total, Units
  <1>3. Total(f) \in Nat /\ Total(g) \in Nat
    BY <1>1, <1>2, FS_CardinalityType
  <1>4. Units(f) \subseteq Units(g)
    BY UnitsGrow
  <1>5. Total(f) <= Total(g)
    BY <1>1, <1>2, <1>4, FS_Subset
  <1>6. ASSUME NEW a \in D, NEW k \in Nat, f[a] + k <= g[a] PROVE Total(f) + k <= Total(g)
    <2> DEFINE m == f[a]
               more == Row(a, m, k)
    <2>1. m \in Nat /\ g[a] \in Nat
      OBVIOUS
    <2>2. Cardinality(Units(f) \cup more) = Total(f) + k
      <3>1. ASSUME NEW n \in m + 1 .. m + k, <<a, n>> \in Units(f) PROVE FALSE
        BY <2>1, <3>1, UnitsAre
      <3>2. Units(f) \cap more = {}
        BY <3>1 DEF Row
      <3>3. IsFiniteSet(more) /\ Cardinality(more) = k
        <4> HIDE DEF m
        <4> QED
          BY <2>1, RowSize
      <3> HIDE DEF more
      <3> QED
        BY <1>1, <1>2, <3>2, <3>3, DisjointUnion
    <2>3. more \subseteq Units(g)
      <3>1. ASSUME NEW n \in m + 1 .. m + k PROVE <<a, n>> \in Units(g)
        <4>1. n \in 1 .. g[a]
          BY <1>6, <2>1
        <4> QED
          BY <4>1, UnitsAre
      <3> QED
        BY <3>1 DEF Row
    <2> HIDE DEF more
    <2> QED
      BY <1>1, <1>2, <1>4, <2>2, <2>3, FS_Subset
  <1> QED
    BY <1>3, <1>5, <1>6

\* One more term adds to a sum what it is.
LEMMA TotalWithOneMore ==
    ASSUME NEW D, IsFiniteSet(D), NEW f \in [D -> Nat], NEW a, a \notin D,
           NEW g \in [D \cup {a} -> Nat], \A i \in D : g[i] = f[i]
    PROVE  Total(f) \in Nat /\ Total(g) = Total(f) + g[a]
  <1> DEFINE k == g[a]
             more == Row(a, 0, k)
  <1>1. k \in Nat /\ 0 \in Nat
    OBVIOUS
  <1> HIDE DEF k
  <1>2. /\ Total(f) \in Nat /\ Total(f) = Cardinality(Units(f))
        /\ Cardinality(Units(f) \cup more) = Total(f) + k
    <2>1. IsFiniteSet(Units(f)) /\ Total(f) = Cardinality(Units(f)) /\ Total(f) \in Nat
      BY UnitsAreFinite, FS_CardinalityType DEF Total, Units
    <2>2. Units(f) \cap more = {}
      <3>1. ASSUME NEW n, <<a, n>> \in Units(f) PROVE FALSE
        BY <3>1, UnitsAre
      <3> QED
        BY <3>1 DEF Row
    <2>3. IsFiniteSet(more) /\ Cardinality(more) = k
      BY <1>1, RowSize
    <2> HIDE DEF more
    <2> QED
      BY <2>1, <2>2, <2>3, DisjointUnion
  <1>3. Units(g) \subseteq Units(f) \cup more
    <2>1. ASSUME NEW u \in Units(g) PROVE u \in Units(f) \cup more
      <3>1. PICK i \in D \cup {a} : \E n \in 1 .. g[i] : u = <<i, n>>
        BY UnitsArePairs
      <3>2. PICK n \in 1 .. g[i] : u = <<i, n>>
        BY <3>1
      <3>3. CASE i \in D
        BY <3>2, <3>3, UnitsAre
      <3>4. CASE i = a
        BY <1>1, <3>2, <3>4 DEF k, Row
      <3> QED
        BY <3>3, <3>4
    <2> QED
      BY <2>1
  <1>4. Units(f) \subseteq Units(g)
    <2>1. ASSUME NEW u \in Units(f) PROVE u \in Units(g)
      <3>1. PICK i \in D : \E n \in 1 .. f[i] : u = <<i, n>>
        BY UnitsArePairs
      <3>2. PICK n \in 1 .. f[i] : u = <<i, n>>
        BY <3>1
      <3>3. i \in D \cup {a} /\ n \in 1 .. g[i]
        BY <3>2
      <3> QED
        BY <3>2, <3>3, UnitsAre
    <2> QED
      BY <2>1
  <1>5. more \subseteq Units(g)
    <2>1. ASSUME NEW n \in 0 + 1 .. 0 + k PROVE <<a, n>> \in Units(g)
      <3>1. n \in 1 .. g[a] /\ a \in D \cup {a}
        BY <1>1 DEF k
      <3> QED
        BY <3>1, UnitsAre
    <2> QED
      BY <2>1 DEF Row
  <1>6. Units(g) = Units(f) \cup more
    BY <1>3, <1>4, <1>5
  <1>7. Total(g) = Cardinality(Units(g))
    BY DEF Total, Units
  <1> QED
    BY <1>2, <1>6, <1>7 DEF k

-----------------------------------------------------------------------------
\* The body by its positions.

LEMMA JoinAt ==
    ASSUME NEW S, NEW s \in Seq(S), NEW t \in Seq(S)
    PROVE  /\ s \o t \in Seq(S) /\ Len(s \o t) = Len(s) + Len(t)
           /\ \A k \in 1 .. Len(s) : (s \o t)[k] = s[k]
           /\ \A k \in 1 .. Len(t) : (s \o t)[Len(s) + k] = t[k]
  <1>1. /\ s \o t \in Seq(S) /\ Len(s \o t) = Len(s) + Len(t)
        /\ \A k \in 1 .. Len(s) + Len(t) :
             (s \o t)[k] = IF k <= Len(s) THEN s[k] ELSE t[k - Len(s)]
    BY ConcatProperties
  <1>2. Len(s) \in Nat /\ Len(t) \in Nat
    BY LenProperties
  <1>3. ASSUME NEW k \in 1 .. Len(t) PROVE (s \o t)[Len(s) + k] = t[k]
    <2>1. Len(s) + k \in 1 .. Len(s) + Len(t) /\ ~(Len(s) + k <= Len(s)) /\ (Len(s) + k) - Len(s) = k
      BY <1>2
    <2> QED
      BY <1>1, <2>1
  <1> QED
    BY <1>1, <1>2, <1>3

\* What the framing consists of.
LEMMA FramingShape ==
    ASSUME NEW i
    PROVE  /\ Framing(i) \in Seq(Symbols)
           /\ Len(Delimiter) \in Nat \ {0} /\ Delimiter[1] = CRLF
           /\ Len(Framing(i)) = Len(Delimiter) + (IF i \in Parts THEN 4 ELSE 1)
           /\ \A k \in 1 .. Len(Delimiter) : Framing(i)[k] = Delimiter[k]
           /\ i \in Parts =>
                /\ Framing(i)[Len(Delimiter) + 1] = CRLF
                /\ Framing(i)[Len(Delimiter) + 2] = Header
                /\ Framing(i)[Len(Delimiter) + 3] = CRLF
                /\ Framing(i)[Len(Delimiter) + 4] = CRLF
  <1>1. Delimiter \in Seq(Symbols) /\ Len(Delimiter) \in Nat \ {0} /\ Delimiter[1] = CRLF
    BY MultipartAssumption, EmptySeq
  <1>2. CASE i \in Parts
    <2> DEFINE opener == <<CRLF, Header>>
               start == Delimiter \o opener
    <2>1. /\ opener \in Seq(Symbols) /\ Len(opener) = 2
          /\ opener[1] = CRLF /\ opener[2] = Header
      BY MultipartAssumption
    <2>2. /\ HeaderEnd \in Seq(Symbols) /\ Len(HeaderEnd) = 2
          /\ HeaderEnd[1] = CRLF /\ HeaderEnd[2] = CRLF
      BY MultipartAssumption DEF HeaderEnd
    <2> HIDE DEF opener
    <2>3. /\ start \in Seq(Symbols) /\ Len(start) = Len(Delimiter) + 2
          /\ \A k \in 1 .. Len(Delimiter) : start[k] = Delimiter[k]
          /\ \A k \in 1 .. 2 : start[Len(Delimiter) + k] = opener[k]
      <3>1. /\ start \in Seq(Symbols) /\ Len(start) = Len(Delimiter) + Len(opener)
            /\ \A k \in 1 .. Len(Delimiter) : start[k] = Delimiter[k]
            /\ \A k \in 1 .. Len(opener) : start[Len(Delimiter) + k] = opener[k]
        <4>1. Delimiter \in Seq(Symbols) /\ opener \in Seq(Symbols)
          BY <1>1, <2>1
        <4> QED
          BY <4>1, JoinAt
      <3> QED
        BY <2>1, <3>1
    <2>4. Framing(i) = start \o HeaderEnd
      BY <1>2 DEF Framing, opener
    <2> HIDE DEF start
    <2>5. /\ Framing(i) \in Seq(Symbols) /\ Len(Framing(i)) = Len(Delimiter) + 4
          /\ \A k \in 1 .. Len(Delimiter) + 2 : Framing(i)[k] = start[k]
          /\ \A k \in 1 .. 2 : Framing(i)[(Len(Delimiter) + 2) + k] = HeaderEnd[k]
      <3>1. /\ Framing(i) \in Seq(Symbols) /\ Len(Framing(i)) = Len(start) + Len(HeaderEnd)
            /\ \A k \in 1 .. Len(start) : Framing(i)[k] = start[k]
            /\ \A k \in 1 .. Len(HeaderEnd) : Framing(i)[Len(start) + k] = HeaderEnd[k]
        <4>1. start \in Seq(Symbols) /\ HeaderEnd \in Seq(Symbols)
          BY <2>2, <2>3
        <4> QED
          BY <2>4, <4>1, JoinAt
      <3> QED
        BY <1>1, <2>2, <2>3, <3>1
    <2>6. \A k \in 1 .. Len(Delimiter) : Framing(i)[k] = Delimiter[k]
      BY <1>1, <2>3, <2>5
    <2>7. /\ Framing(i)[Len(Delimiter) + 1] = CRLF /\ Framing(i)[Len(Delimiter) + 2] = Header
      BY <1>1, <2>1, <2>3, <2>5
    <2>8. /\ Framing(i)[Len(Delimiter) + 3] = CRLF /\ Framing(i)[Len(Delimiter) + 4] = CRLF
      BY <1>1, <2>2, <2>5
    <2> QED
      BY <1>1, <1>2, <2>5, <2>6, <2>7, <2>8
  <1>3. CASE i \notin Parts
    <2>1. <<Dashes>> \in Seq(Symbols) /\ Len(<<Dashes>>) = 1
      BY MultipartAssumption
    <2>2. Framing(i) = Delimiter \o <<Dashes>>
      BY <1>3 DEF Framing
    <2>3. /\ Framing(i) \in Seq(Symbols) /\ Len(Framing(i)) = Len(Delimiter) + 1
          /\ \A k \in 1 .. Len(Delimiter) : Framing(i)[k] = Delimiter[k]
      BY <1>1, <2>1, <2>2, ConcatProperties
    <2> QED
      BY <1>1, <1>3, <2>3
  <1> QED
    BY <1>2, <1>3

\* Meta and the framing of the first part.
LEMMA OpeningShape ==
    /\ Opening \in Seq(Symbols) /\ Len(Opening) = 1 + Len(Framing(1))
    /\ Opening[1] = Header
    /\ \A k \in 1 .. Len(Framing(1)) : Opening[1 + k] = Framing(1)[k]
  <1>1. <<Header>> \in Seq(Symbols) /\ Len(<<Header>>) = 1 /\ <<Header>>[1] = Header
    BY MultipartAssumption
  <1>2. Framing(1) \in Seq(Symbols) /\ Len(Framing(1)) \in Nat
    BY FramingShape, LenProperties
  <1> QED
    BY <1>1, <1>2, ConcatProperties DEF Opening

\* A part's content and the framing behind it.
LEMMA SegmentShape ==
    ASSUME NEW p \in [Parts -> Payloads], NEW i \in Parts
    PROVE  /\ p[i] \in Seq(Symbols) /\ Len(p[i]) \in Nat
           /\ Segment(p, i) \in Seq(Symbols)
           /\ Len(Segment(p, i)) = Len(p[i]) + Len(Framing(i + 1))
           /\ \A k \in 1 .. Len(p[i]) : Segment(p, i)[k] = p[i][k]
           /\ \A k \in 1 .. Len(Framing(i + 1)) : Segment(p, i)[Len(p[i]) + k] = Framing(i + 1)[k]
  <1>1. p[i] \in Seq(Symbols) /\ Len(p[i]) \in Nat
    BY MultipartAssumption, LenProperties
  <1>2. Framing(i + 1) \in Seq(Symbols) /\ Len(Framing(i + 1)) \in Nat
    BY FramingShape, LenProperties
  <1>3. /\ Segment(p, i) \in Seq(Symbols)
        /\ Len(Segment(p, i)) = Len(p[i]) + Len(Framing(i + 1))
        /\ \A k \in 1 .. Len(p[i]) + Len(Framing(i + 1)) :
             Segment(p, i)[k] = IF k <= Len(p[i]) THEN p[i][k] ELSE Framing(i + 1)[k - Len(p[i])]
    BY <1>1, <1>2, ConcatProperties DEF Segment
  <1>4. \A k \in 1 .. Len(Framing(i + 1)) : Segment(p, i)[Len(p[i]) + k] = Framing(i + 1)[k]
    BY <1>1, <1>2, <1>3
  <1> QED
    BY <1>1, <1>2, <1>3, <1>4

\* The segments lie one behind the other.
LEMMA StartShape ==
    ASSUME NEW p \in [Parts -> Payloads]
    PROVE  /\ Start(p, 1) = Len(Opening)
           /\ \A i \in 1 .. PartCount + 1 : Start(p, i) \in Nat /\ Len(Opening) <= Start(p, i)
           /\ \A i \in Parts : Start(p, i + 1) = Start(p, i) + Len(Segment(p, i))
           /\ \A i, j \in 1 .. PartCount + 1 : i <= j => Start(p, i) <= Start(p, j)
  <1> DEFINE before(i) == [j \in 1 .. i - 1 |-> Len(Segment(p, j))]
  <1>1. Len(Opening) \in Nat /\ PartCount \in Nat
    BY OpeningShape, LenProperties, MultipartAssumption
  <1>2. \A i \in Parts : Len(Segment(p, i)) \in Nat
    BY SegmentShape, LenProperties
  <1>3. ASSUME NEW i \in 1 .. PartCount + 1
        PROVE  /\ before(i) \in [1 .. i - 1 -> Nat] /\ IsFiniteSet(1 .. i - 1)
               /\ Start(p, i) = Len(Opening) + Total(before(i))
    <2>1. 1 .. i - 1 \subseteq Parts
      BY <1>1 DEF Parts
    <2>2. i - 1 \in Int
      BY <1>1
    <2> QED
      BY <1>2, <2>1, <2>2, FS_Interval DEF Start
  <1>4. Total(before(1)) = 0
    <2>1. DOMAIN before(1) = {}
      OBVIOUS
    <2>2. UNION {{i} \X (1 .. before(1)[i]) : i \in DOMAIN before(1)} = {}
      BY <2>1
    <2> QED
      BY <2>2, FS_EmptySet DEF Total
  <1> HIDE DEF before
  <1>5. ASSUME NEW i \in 1 .. PartCount + 1, NEW j \in 1 .. PartCount + 1, i < j
        PROVE  Total(before(i)) \in Nat /\ Total(before(j)) \in Nat /\ Total(before(i)) <= Total(before(j))
    <2>1. 1 .. i - 1 \in SUBSET (1 .. j - 1) /\ i \in 1 .. j - 1 /\ i \notin 1 .. i - 1
      BY <1>1, <1>5
    <2>2. \A k \in 1 .. i - 1 : before(i)[k] <= before(j)[k]
      <3>1. ASSUME NEW k \in 1 .. i - 1
            PROVE  k \in 1 .. j - 1 /\ k \in Parts /\ Len(Segment(p, k)) \in Nat
        BY <1>1, <1>2, <1>5 DEF Parts
      <3> QED
        BY <3>1 DEF before
    <2>3. before(i) \in [1 .. i - 1 -> Nat] /\ before(j) \in [1 .. j - 1 -> Nat] /\ IsFiniteSet(1 .. j - 1)
      BY <1>3
    <2> QED
      BY <2>1, <2>2, <2>3, TotalWithRoom
  <1>6. ASSUME NEW i \in Parts
        PROVE  /\ Total(before(i)) \in Nat /\ Total(before(i + 1)) \in Nat
               /\ Total(before(i + 1)) = Total(before(i)) + Len(Segment(p, i))
    <2>1. /\ i \in 1 .. PartCount + 1 /\ i + 1 \in 1 .. PartCount + 1
          /\ (i + 1) - 1 = i /\ i \in 1 .. i /\ 1 .. i - 1 \in SUBSET (1 .. i) /\ i \notin 1 .. i - 1
      BY <1>1 DEF Parts
    <2>2. /\ before(i) \in [1 .. i - 1 -> Nat] /\ before(i + 1) \in [1 .. i -> Nat]
          /\ IsFiniteSet(1 .. i)
      BY <1>3, <2>1
    <2>3. \A k \in 1 .. i - 1 : before(i + 1)[k] = before(i)[k]
      BY <1>1, <2>1 DEF before, Parts
    <2>4. before(i + 1)[i] = Len(Segment(p, i)) /\ Len(Segment(p, i)) \in Nat
      BY <1>2, <2>1 DEF before
    <2>5. /\ IsFiniteSet(1 .. i - 1) /\ 1 .. i = (1 .. i - 1) \cup {i}
      BY <1>3, <2>1
    <2>6. before(i + 1) \in [(1 .. i - 1) \cup {i} -> Nat]
      BY <2>2, <2>5
    <2>7. Total(before(i)) \in Nat /\ Total(before(i + 1)) = Total(before(i)) + before(i + 1)[i]
      <3> DEFINE D == 1 .. i - 1
                 f == before(i)
                 g == before(i + 1)
      <3>1. /\ IsFiniteSet(D) /\ f \in [D -> Nat] /\ i \notin D
            /\ g \in [D \cup {i} -> Nat] /\ \A k \in D : g[k] = f[k]
        BY <2>1, <2>2, <2>3, <2>5, <2>6
      <3> HIDE DEF D, f, g
      <3>2. Total(f) \in Nat /\ Total(g) = Total(f) + g[i]
        BY <3>1, TotalWithOneMore
      <3> QED
        BY <3>2 DEF f, g
    <2> QED
      BY <2>4, <2>7
  <1>7. \A i \in 1 .. PartCount + 1 : Total(before(i)) \in Nat
    <2>1. ASSUME NEW i \in 1 .. PartCount + 1 PROVE Total(before(i)) \in Nat
      <3>1. i = 1 \/ (1 < i /\ 1 \in 1 .. PartCount + 1)
        BY <1>1
      <3> QED
        BY <1>4, <1>5, <3>1
    <2> QED
      BY <2>1
  <1>8. Start(p, 1) = Len(Opening)
    BY <1>1, <1>3, <1>4
  <1>9. \A i \in Parts : Start(p, i + 1) = Start(p, i) + Len(Segment(p, i))
    <2>1. ASSUME NEW i \in Parts PROVE Start(p, i + 1) = Start(p, i) + Len(Segment(p, i))
      <3>1. i \in 1 .. PartCount + 1 /\ i + 1 \in 1 .. PartCount + 1
        BY <1>1 DEF Parts
      <3> QED
        BY <1>1, <1>2, <1>3, <1>6, <3>1
    <2> QED
      BY <2>1
  <1>10. \A i, j \in 1 .. PartCount + 1 : i <= j => Start(p, i) <= Start(p, j)
    <2>1. ASSUME NEW i \in 1 .. PartCount + 1, NEW j \in 1 .. PartCount + 1, i <= j
          PROVE  Start(p, i) <= Start(p, j)
      <3>1. i = j \/ i < j
        BY <1>1, <2>1
      <3> QED
        BY <1>1, <1>3, <1>5, <1>7, <3>1
    <2> QED
      BY <2>1
  <1> QED
    BY <1>1, <1>3, <1>7, <1>8, <1>9, <1>10

\* A position belongs to one segment.
LEMMA BodyShape ==
    ASSUME NEW p \in [Parts -> Payloads]
    PROVE  /\ Len(Body(p)) = Start(p, PartCount + 1) /\ Len(Body(p)) \in Nat
           /\ DOMAIN Body(p) = 1 .. Len(Body(p))
           /\ \A k \in 1 .. Len(Opening) : Body(p)[k] = Opening[k]
           /\ \A i \in Parts : \A k \in 1 .. Len(Segment(p, i)) :
                Body(p)[Start(p, i) + k] = Segment(p, i)[k]
  <1>1. /\ PartCount \in Nat /\ Len(Opening) \in Nat
        /\ PartCount + 1 \in 1 .. PartCount + 1
    BY MultipartAssumption, OpeningShape, LenProperties
  <1>2. Start(p, PartCount + 1) \in Nat /\ Len(Opening) <= Start(p, PartCount + 1)
    BY <1>1, StartShape
  <1>3. /\ DOMAIN Body(p) = 1 .. Start(p, PartCount + 1)
        /\ Len(Body(p)) = Start(p, PartCount + 1)
    BY <1>2 DEF Body
  <1>4. \A k \in 1 .. Len(Opening) : Body(p)[k] = Opening[k]
    BY <1>1, <1>2 DEF Body
  <1>5. ASSUME NEW i \in Parts, NEW k \in 1 .. Len(Segment(p, i))
        PROVE  Body(p)[Start(p, i) + k] = Segment(p, i)[k]
    <2> DEFINE at == Start(p, i) + k
    <2>1. /\ i \in 1 .. PartCount + 1 /\ i + 1 \in 1 .. PartCount + 1 /\ i + 1 <= PartCount + 1
          /\ Start(p, i) \in Nat /\ Start(p, i + 1) \in Nat /\ Len(Opening) <= Start(p, i)
          /\ Len(Segment(p, i)) \in Nat /\ Start(p, i + 1) = Start(p, i) + Len(Segment(p, i))
      <3>1. i \in 1 .. PartCount + 1 /\ i + 1 \in 1 .. PartCount + 1 /\ i + 1 <= PartCount + 1
        BY <1>1 DEF Parts
      <3>2. Len(Segment(p, i)) \in Nat
        BY SegmentShape, LenProperties
      <3> QED
        BY <3>1, <3>2, StartShape
    <2>2. Start(p, i + 1) <= Start(p, PartCount + 1)
      BY <1>1, <2>1, StartShape
    <2>3. /\ at \in 1 .. Start(p, PartCount + 1) /\ ~(at <= Len(Opening))
          /\ Start(p, i) < at /\ at <= Start(p, i + 1)
      BY <1>1, <1>2, <2>1, <2>2
    <2> HIDE DEF at
    <2>4. ASSUME NEW j \in Parts, Start(p, j) < at, at <= Start(p, j + 1)
          PROVE  j = i
      <3>1. /\ j \in 1 .. PartCount + 1 /\ j + 1 \in 1 .. PartCount + 1
            /\ i \in Nat /\ j \in Nat
        BY <1>1, <2>1 DEF Parts
      <3>2. /\ Start(p, j) \in Nat /\ Start(p, j + 1) \in Nat /\ at \in Nat
        BY <1>2, <2>3, <3>1, StartShape
      <3>3. CASE j + 1 <= i
        <4>1. Start(p, j + 1) <= Start(p, i)
          BY <2>1, <3>1, <3>3, StartShape
        <4> QED
          BY <2>1, <2>3, <2>4, <3>2, <4>1
      <3>4. CASE i + 1 <= j
        <4>1. Start(p, i + 1) <= Start(p, j)
          BY <2>1, <3>1, <3>4, StartShape
        <4> QED
          BY <2>1, <2>3, <2>4, <3>2, <4>1
      <3> QED
        BY <3>1, <3>3, <3>4
    <2>5. i = CHOOSE j \in Parts : Start(p, j) < at /\ at <= Start(p, j + 1)
      BY <2>3, <2>4
    <2>6. Body(p)[at] = Segment(p, i)[at - Start(p, i)]
      BY <2>3, <2>5 DEF Body
    <2> QED
      BY <2>1, <2>6 DEF at
  <1> QED
    BY <1>2, <1>3, <1>4, <1>5

\* Meta and the delimiter behind it.
LEMMA MetaPlace ==
    ASSUME NEW p \in [Parts -> Payloads]
    PROVE  /\ 1 + Len(Delimiter) <= Len(Body(p)) /\ Body(p)[1] = Header
           /\ \A k \in 1 .. Len(Delimiter) : Body(p)[1 + k] = Delimiter[k]
           /\ 1 \in Parts => Start(p, 1) = Len(Delimiter) + 5
  <1>1. /\ PartCount \in Nat /\ Len(Opening) \in Nat
        /\ 1 \in 1 .. PartCount + 1 /\ PartCount + 1 \in 1 .. PartCount + 1 /\ 1 <= PartCount + 1
    BY MultipartAssumption, OpeningShape, LenProperties
  <1>2. /\ Len(Delimiter) \in Nat \ {0}
        /\ Len(Framing(1)) = Len(Delimiter) + (IF 1 \in Parts THEN 4 ELSE 1)
        /\ \A k \in 1 .. Len(Delimiter) : Framing(1)[k] = Delimiter[k]
    BY FramingShape
  <1>3. /\ Len(Opening) = 1 + Len(Framing(1)) /\ Opening[1] = Header
        /\ \A k \in 1 .. Len(Framing(1)) : Opening[1 + k] = Framing(1)[k]
    BY OpeningShape
  <1>4. Len(Opening) <= Len(Body(p)) /\ Start(p, 1) = Len(Opening)
    BY <1>1, BodyShape, StartShape
  <1>5. \A k \in 1 .. Len(Opening) : Body(p)[k] = Opening[k]
    BY BodyShape
  <1>6. ASSUME NEW k \in 1 .. Len(Delimiter) PROVE Body(p)[1 + k] = Delimiter[k]
    <2>1. k \in 1 .. Len(Framing(1)) /\ 1 + k \in 1 .. Len(Opening)
      BY <1>2, <1>3
    <2> QED
      BY <1>2, <1>3, <1>5, <2>1
  <1>7. Body(p)[1] = Header
    BY <1>1, <1>2, <1>3, <1>5
  <1>8. Len(Body(p)) \in Nat
    BY BodyShape
  <1> QED
    BY <1>1, <1>2, <1>3, <1>4, <1>6, <1>7, <1>8

\* What is right before the content of a part.
LEMMA HeaderPlace ==
    ASSUME NEW p \in [Parts -> Payloads], NEW i \in Parts
    PROVE  /\ Start(p, i) \in Nat /\ 4 <= Start(p, i) /\ Start(p, i) <= Len(Body(p))
           /\ Body(p)[Start(p, i) - 3] = CRLF /\ Body(p)[Start(p, i) - 2] = Header
           /\ Body(p)[Start(p, i) - 1] = CRLF /\ Body(p)[Start(p, i)] = CRLF
  <1> DEFINE d == Len(Delimiter)
  <1>1. /\ PartCount \in Nat /\ i \in Nat /\ 1 <= i /\ i <= PartCount
        /\ i \in 1 .. PartCount + 1 /\ PartCount + 1 \in 1 .. PartCount + 1 /\ i <= PartCount + 1
    BY MultipartAssumption DEF Parts
  <1>2. /\ d \in Nat \ {0} /\ Len(Framing(i)) = d + 4
        /\ Framing(i)[d + 1] = CRLF /\ Framing(i)[d + 2] = Header
        /\ Framing(i)[d + 3] = CRLF /\ Framing(i)[d + 4] = CRLF
    BY FramingShape
  <1>3. Start(p, i) \in Nat /\ Start(p, i) <= Len(Body(p)) /\ Len(Body(p)) \in Nat
    BY <1>1, StartShape, BodyShape
  <1> HIDE DEF d
  <1>4. \A k \in 1 .. 4 : Start(p, i) - 4 + k \in 1 .. Len(Body(p))
                          /\ Body(p)[Start(p, i) - 4 + k] = Framing(i)[d + k]
    <2>1. CASE i = 1
      <3>1. /\ Start(p, 1) = Len(Opening) /\ Len(Opening) = 1 + (d + 4)
            /\ \A k \in 1 .. d + 4 : Opening[1 + k] = Framing(1)[k]
        BY <1>2, <2>1, StartShape, OpeningShape
      <3>2. \A k \in 1 .. Len(Opening) : Body(p)[k] = Opening[k]
        BY BodyShape
      <3>3. ASSUME NEW k \in 1 .. 4
            PROVE  /\ Start(p, i) - 4 + k \in 1 .. Len(Body(p))
                   /\ Body(p)[Start(p, i) - 4 + k] = Framing(i)[d + k]
        <4>1. d + k \in 1 .. d + 4 /\ 1 + (d + k) \in 1 .. Len(Opening) /\ Start(p, i) - 4 + k = 1 + (d + k)
          BY <1>2, <2>1, <3>1
        <4>2. Start(p, i) - 4 + k \in 1 .. Len(Body(p))
          <5>1. 1 + (d + k) <= Start(p, i)
            BY <1>2, <2>1, <3>1
          <5> QED
            BY <1>2, <1>3, <4>1, <5>1
        <4> QED
          BY <2>1, <3>1, <3>2, <4>1, <4>2
      <3> QED
        BY <3>3
    <2>2. CASE i # 1
      <3> DEFINE j == i - 1
      <3>1. j \in Parts /\ j + 1 = i
        BY <1>1, <2>2 DEF Parts
      <3> HIDE DEF j
      <3>2. /\ Len(p[j]) \in Nat /\ Len(Segment(p, j)) = Len(p[j]) + (d + 4)
            /\ \A k \in 1 .. d + 4 : Segment(p, j)[Len(p[j]) + k] = Framing(i)[k]
        <4>1. /\ Len(p[j]) \in Nat /\ Len(Segment(p, j)) = Len(p[j]) + Len(Framing(j + 1))
              /\ \A k \in 1 .. Len(Framing(j + 1)) : Segment(p, j)[Len(p[j]) + k] = Framing(j + 1)[k]
          BY <3>1, SegmentShape
        <4> QED
          BY <1>2, <3>1, <4>1
      <3>3. Start(p, i) = Start(p, j) + Len(Segment(p, j)) /\ Start(p, j) \in Nat
        <4>1. j \in 1 .. PartCount + 1
          BY <1>1, <3>1 DEF Parts
        <4> QED
          BY <3>1, <4>1, StartShape
      <3>4. \A k \in 1 .. Len(Segment(p, j)) : Body(p)[Start(p, j) + k] = Segment(p, j)[k]
        BY <3>1, BodyShape
      <3>5. ASSUME NEW k \in 1 .. 4
            PROVE  /\ Start(p, i) - 4 + k \in 1 .. Len(Body(p))
                   /\ Body(p)[Start(p, i) - 4 + k] = Framing(i)[d + k]
        <4>1. /\ d + k \in 1 .. d + 4 /\ Len(p[j]) + (d + k) \in 1 .. Len(Segment(p, j))
              /\ Start(p, i) - 4 + k = Start(p, j) + (Len(p[j]) + (d + k))
          <5> DEFINE c == Len(p[j])
                     s == Start(p, j)
          <5>1. /\ c \in Nat /\ s \in Nat /\ Len(Segment(p, j)) = c + (d + 4)
                /\ Start(p, i) = s + (c + (d + 4))
            BY <3>2, <3>3
          <5> HIDE DEF c, s
          <5>2. /\ d + k \in 1 .. d + 4 /\ c + (d + k) \in 1 .. c + (d + 4)
                /\ s + (c + (d + 4)) - 4 + k = s + (c + (d + k))
            <6>1. d \in Nat /\ k \in Nat /\ 1 <= k /\ k <= 4
              BY <1>2
            <6> QED
              BY <5>1, <6>1
          <5>3. s + (c + (d + 4)) - 4 + k = s + (c + (d + k))
            BY <5>2
          <5> QED
            BY <5>1, <5>2, <5>3 DEF c, s
        <4>2. Start(p, i) - 4 + k \in 1 .. Len(Body(p))
          <5>1. d \in Nat /\ Len(p[j]) \in Nat /\ Start(p, j) \in Nat
            BY <1>2, <3>2, <3>3
          <5>2. Start(p, i) - 4 + k = Start(p, j) + (Len(p[j]) + (d + k))
            BY <4>1
          <5>3. ASSUME NEW s \in Nat, NEW c \in Nat, NEW e \in Nat PROVE 1 <= s + (c + (e + k))
            OBVIOUS
          <5>4. 1 <= Start(p, i) - 4 + k
            BY <5>1, <5>2, <5>3
          <5> QED
            BY <1>3, <5>4
        <4> QED
          BY <3>2, <3>4, <4>1, <4>2
      <3> QED
        BY <3>5
    <2> QED
      BY <2>1, <2>2
  <1>5. /\ Start(p, i) - 4 + 1 = Start(p, i) - 3 /\ Start(p, i) - 4 + 2 = Start(p, i) - 2
        /\ Start(p, i) - 4 + 3 = Start(p, i) - 1 /\ Start(p, i) - 4 + 4 = Start(p, i)
    BY <1>3
  <1>6. 4 <= Start(p, i)
    BY <1>3, <1>4, <1>5
  <1>7. \A k \in 1 .. 4 : Body(p)[Start(p, i) - 4 + k] = Framing(i)[d + k]
    BY <1>4
  <1> QED
    BY <1>2, <1>3, <1>5, <1>6, <1>7

\* The content of a part and the delimiter behind it.
LEMMA ContentPlace ==
    ASSUME NEW p \in [Parts -> Payloads], NEW i \in Parts
    PROVE  /\ Start(p, i) \in Nat /\ Len(p[i]) \in Nat
           /\ Start(p, i) + Len(p[i]) + Len(Delimiter) <= Len(Body(p))
           /\ \A k \in 1 .. Len(p[i]) : Body(p)[Start(p, i) + k] = p[i][k]
           /\ \A k \in 1 .. Len(Delimiter) : Body(p)[Start(p, i) + Len(p[i]) + k] = Delimiter[k]
           /\ i + 1 \in Parts => Start(p, i + 1) - 4 = Start(p, i) + Len(p[i]) + Len(Delimiter)
  <1>1. /\ PartCount \in Nat /\ i \in 1 .. PartCount + 1 /\ i + 1 \in 1 .. PartCount + 1
        /\ i + 1 <= PartCount + 1 /\ PartCount + 1 \in 1 .. PartCount + 1
    BY MultipartAssumption DEF Parts
  <1>2. /\ Len(Delimiter) \in Nat \ {0}
        /\ Len(Framing(i + 1)) = Len(Delimiter) + (IF i + 1 \in Parts THEN 4 ELSE 1)
        /\ \A k \in 1 .. Len(Delimiter) : Framing(i + 1)[k] = Delimiter[k]
    BY FramingShape
  <1>3. /\ Len(p[i]) \in Nat /\ Len(Segment(p, i)) = Len(p[i]) + Len(Framing(i + 1))
        /\ \A k \in 1 .. Len(p[i]) : Segment(p, i)[k] = p[i][k]
        /\ \A k \in 1 .. Len(Framing(i + 1)) : Segment(p, i)[Len(p[i]) + k] = Framing(i + 1)[k]
    BY SegmentShape
  <1>4. /\ Start(p, i) \in Nat /\ Start(p, i + 1) \in Nat
        /\ Start(p, i + 1) = Start(p, i) + Len(Segment(p, i))
        /\ Start(p, i + 1) <= Start(p, PartCount + 1)
    BY <1>1, StartShape
  <1>5. /\ Len(Body(p)) = Start(p, PartCount + 1) /\ Len(Body(p)) \in Nat
        /\ \A k \in 1 .. Len(Segment(p, i)) : Body(p)[Start(p, i) + k] = Segment(p, i)[k]
    BY BodyShape
  <1>6. ASSUME NEW k \in 1 .. Len(p[i]) PROVE Body(p)[Start(p, i) + k] = p[i][k]
    <2>1. k \in 1 .. Len(Segment(p, i))
      BY <1>2, <1>3
    <2> QED
      BY <1>3, <1>5, <2>1
  <1>7. ASSUME NEW k \in 1 .. Len(Delimiter)
        PROVE  Body(p)[Start(p, i) + Len(p[i]) + k] = Delimiter[k]
    <2>1. /\ k \in 1 .. Len(Framing(i + 1)) /\ Len(p[i]) + k \in 1 .. Len(Segment(p, i))
          /\ Start(p, i) + Len(p[i]) + k = Start(p, i) + (Len(p[i]) + k)
      BY <1>2, <1>3, <1>4
    <2> QED
      BY <1>2, <1>3, <1>5, <2>1
  <1>8. Start(p, i) + Len(p[i]) + Len(Delimiter) <= Len(Body(p))
    <2>1. Len(Framing(i + 1)) \in Nat /\ Len(Delimiter) <= Len(Framing(i + 1))
      BY <1>2
    <2>2. Start(p, i + 1) = Start(p, i) + (Len(p[i]) + Len(Framing(i + 1)))
      BY <1>3, <1>4
    <2>3. Start(p, i + 1) <= Len(Body(p))
      BY <1>4, <1>5
    <2> QED
      BY <1>2, <1>3, <1>4, <1>5, <2>1, <2>2, <2>3
  <1>9. ASSUME i + 1 \in Parts
        PROVE  Start(p, i + 1) - 4 = Start(p, i) + Len(p[i]) + Len(Delimiter)
    <2>1. Start(p, i + 1) = Start(p, i) + (Len(p[i]) + (Len(Delimiter) + 4))
      BY <1>2, <1>3, <1>4, <1>9
    <2>2. Start(p, i) \in Nat /\ Len(p[i]) \in Nat /\ Len(Delimiter) \in Nat
      BY <1>2, <1>3, <1>4
    <2> QED
      BY <2>1, <2>2
  <1> QED
    BY <1>3, <1>4, <1>6, <1>7, <1>8, <1>9

-----------------------------------------------------------------------------
\* The reader's state by its place in the body.

\* What of the body is buffered behind its first q symbols, and what has yet to
\* arrive, which is all the rest unless it was cut off.
Arrived(q, body, b, w, cut) ==
    /\ q \in Nat /\ q + Len(b) + Len(w) <= Len(body)
    /\ \A k \in 1 .. Len(b) : b[k] = body[q + k]
    /\ \A k \in 1 .. Len(w) : w[k] = body[q + Len(b) + k]
    /\ cut \/ q + Len(b) + Len(w) = Len(body)

Behind(q) == Arrived(q, Body(content), buf, wire, hungUp)

Heard == {Body(content)[k] : k \in DOMAIN Body(content)}

StreamTypes ==
    /\ MultipartTypeOK
    /\ buf \in Seq(Heard) /\ wire \in Seq(Heard) /\ hungUp \in BOOLEAN
    /\ size \in [Parts -> 0 .. MaxBytes] /\ Total(size) <= MaxBytes
    /\ out \in [Parts -> Seq(Heard)]

\* No part is begun before its turn.
Untouched(i) ==
    \/ i > atPart
    \/ i = atPart /\ (status[i] = "unread" \/ reading \in {"meta", "marker", "header"})

StreamsInv ==
    \A i \in Parts :
       /\ Len(out[i]) <= Len(content[i]) /\ Len(out[i]) <= size[i]
       /\ \A k \in 1 .. Len(out[i]) : out[i][k] = content[i][k]
       /\ status[i] = "whole" => Len(out[i]) = Len(content[i])
       /\ status[i] = "failed" => hungUp \/ size[i] # Len(content[i])
       /\ Untouched(i) => out[i] = <<>>

\* Where the reader is in the body, and how much it holds.
ReaderInv ==
    /\ reading = "meta" =>
          Behind(0) /\ atPart = 1 /\ searched <= 1 /\ Len(buf) <= MaxChunk + Len(Delimiter)
    /\ reading = "idle" /\ atPart \in Parts /\ status[atPart] = "unread" =>
          Behind(Start(content, atPart) - 4) /\ searched = 0 /\ Len(buf) + 1 <= MaxChunk
    /\ reading \in {"marker", "header", "body"} =>
          atPart \in Parts /\ status[atPart] = "reading"
    /\ reading = "marker" =>
          Behind(Start(content, atPart) - 4) /\ searched = 0 /\ Len(buf) <= MaxChunk
    /\ reading = "header" =>
          Behind(Start(content, atPart) - 3) /\ searched <= 1 /\ Len(buf) <= MaxChunk + 2
    /\ reading = "body" =>
          /\ Behind(Start(content, atPart) + Len(out[atPart]))
          /\ searched = 0 /\ Len(buf) <= MaxChunk + Len(Delimiter) - 1

MultipartInv == StreamTypes /\ StreamsInv /\ ReaderInv

-----------------------------------------------------------------------------
\* The cursor's operations on what they are given.

\* SubSeq(s, m, n), if it is in s.
LEMMA SliceAt ==
    ASSUME NEW S, NEW s \in Seq(S), NEW m \in 1 .. Len(s) + 1, NEW n \in m - 1 .. Len(s)
    PROVE  /\ SubSeq(s, m, n) \in Seq(S) /\ Len(SubSeq(s, m, n)) = n - m + 1
           /\ \A k \in 1 .. n - m + 1 : SubSeq(s, m, n)[k] = s[m + k - 1]
  <1>1. Len(s) \in Nat /\ m \in Int /\ n \in Int /\ m - 1 <= n
    BY LenProperties
  <1>2. \A i \in m .. n : s[i] \in S
    <2>1. ASSUME NEW i \in m .. n PROVE s[i] \in S
      <3>1. i \in 1 .. Len(s)
        BY <1>1
      <3> QED
        BY <3>1, ElementOfSeq
    <2> QED
      BY <2>1
  <1>3. /\ SubSeq(s, m, n) \in Seq(S)
        /\ Len(SubSeq(s, m, n)) = IF m <= n THEN n - m + 1 ELSE 0
        /\ \A i \in 1 .. n - m + 1 : SubSeq(s, m, n)[i] = s[m + i - 1]
    BY <1>1, <1>2, SubSeqProperties
  <1>4. Len(SubSeq(s, m, n)) = n - m + 1
    BY <1>1, <1>3
  <1> QED
    BY <1>3, <1>4

\* An occurrence of a needle in terms of elements.
LEMMA OccursByElements ==
    ASSUME NEW S, NEW text \in Seq(S), NEW T, NEW needle \in Seq(T),
           NEW i \in 1 .. Len(text), i + Len(needle) - 1 <= Len(text)
    PROVE  OccursAt(needle, text, i) <=> \A m \in 1 .. Len(needle) : text[i + m - 1] = needle[m]
  <1> DEFINE n == i + Len(needle) - 1
             slice == SubSeq(text, i, n)
  <1>1. Len(needle) \in Nat /\ Len(text) \in Nat
    BY LenProperties
  <1>2. /\ i \in 1 .. Len(text) + 1 /\ n \in i - 1 .. Len(text) /\ n - i + 1 = Len(needle)
    BY <1>1
  <1>3. /\ slice \in Seq(S) /\ Len(slice) = n - i + 1
        /\ \A k \in 1 .. n - i + 1 : slice[k] = text[i + k - 1]
    <2> HIDE DEF n
    <2> QED
      BY <1>2, SliceAt
  <1>4. OccursAt(needle, text, i) <=> slice = needle
    BY DEF OccursAt
  <1> HIDE DEF slice, n
  <1>5. slice \in Seq(S \cup T) /\ needle \in Seq(S \cup T)
    BY <1>3, SeqMonotonic
  <1>6. slice = needle <=> \A k \in 1 .. Len(needle) : slice[k] = needle[k]
    BY <1>2, <1>3, <1>5, SeqEqual
  <1>7. \A k \in 1 .. Len(needle) : slice[k] = text[i + k - 1]
    BY <1>2, <1>3
  <1> QED
    BY <1>4, <1>6, <1>7

\* Where indexOfSub finds a needle that is at p and nowhere before.
LEMMA SearchFinds ==
    ASSUME NEW S, NEW text \in Seq(S), NEW T, NEW needle \in Seq(T), Len(needle) \in Nat \ {0},
           NEW from \in Nat, NEW p \in Nat \ {0}, from < p,
           \A m \in 1 .. Len(needle) : p + m - 1 <= Len(text) => text[p + m - 1] = needle[m],
           \A i \in 1 .. p - 1 : i + Len(needle) - 1 <= Len(text)
              => \E m \in 1 .. Len(needle) : text[i + m - 1] # needle[m]
    PROVE  LET places == {i \in from + 1 .. Len(text) - Len(needle) + 1 : OccursAt(needle, text, i)}
           IN  /\ places # {} => p + Len(needle) - 1 <= Len(text) /\ First(places) = p
               /\ places = {} => Len(text) < p + Len(needle) - 1
  <1> DEFINE n == Len(needle)
             places == {i \in from + 1 .. Len(text) - n + 1 : OccursAt(needle, text, i)}
  <1>1. n \in Nat /\ 1 <= n /\ Len(text) \in Nat
    BY LenProperties
  <1>2. ASSUME NEW i \in places PROVE p <= i /\ i + n - 1 <= Len(text) /\ i \in Nat
    <2>1. i \in 1 .. Len(text) /\ i + Len(needle) - 1 <= Len(text)
      BY <1>1
    <2>2. \A m \in 1 .. Len(needle) : text[i + m - 1] = needle[m]
      <3>1. i \in 1 .. Len(text) /\ OccursAt(needle, text, i)
        BY <2>1
      <3>2. OccursAt(needle, text, i) <=> \A m \in 1 .. Len(needle) : text[i + m - 1] = needle[m]
        <4> HIDE DEF places
        <4>1. i + Len(needle) - 1 <= Len(text)
          BY <2>1
        <4> QED
          BY <3>1, <4>1, OccursByElements
      <3> QED
        BY <3>1, <3>2
    <2>3. ASSUME i \in 1 .. p - 1 PROVE FALSE
      <3>1. PICK m \in 1 .. Len(needle) : text[i + m - 1] # needle[m]
        BY <2>1, <2>3
      <3> QED
        BY <2>2, <3>1
    <2>4. i \in Nat /\ 1 <= i /\ i \notin 1 .. p - 1
      BY <2>1, <2>3
    <2>5. p <= i
      BY <2>4
    <2> QED
      BY <2>1, <2>4, <2>5
  <1>3. ASSUME p + n - 1 <= Len(text) PROVE p \in places
    <2>1. p \in 1 .. Len(text) /\ p + Len(needle) - 1 <= Len(text)
          /\ p \in from + 1 .. Len(text) - n + 1
      BY <1>1, <1>3
    <2>2. \A m \in 1 .. Len(needle) : text[p + m - 1] = needle[m]
      <3>1. ASSUME NEW m \in 1 .. Len(needle) PROVE p + m - 1 <= Len(text)
        BY <1>1, <2>1
      <3> QED
        BY <3>1
    <2>3. OccursAt(needle, text, p)
      BY <2>1, <2>2, OccursByElements
    <2> QED
      BY <2>1, <2>3
  <1>4. ASSUME places # {} PROVE p + n - 1 <= Len(text) /\ First(places) = p
    <2>1. PICK i \in places : TRUE
      BY <1>4
    <2>2. p + n - 1 <= Len(text)
      BY <1>1, <1>2, <2>1
    <2>3. p \in places /\ \A j \in places : p <= j /\ j \in Nat
      BY <1>2, <1>3, <2>2
    <2> HIDE DEF places
    <2>4. \A j \in places : (\A k \in places : j <= k) => j = p
      BY <2>3
    <2> QED
      BY <2>2, <2>3, <2>4 DEF First
  <1>5. ASSUME places = {} PROVE Len(text) < p + n - 1
    BY <1>1, <1>3, <1>5
  <1> QED
    BY <1>4, <1>5

\* take.
LEMMA ArrivedTake ==
    ASSUME NEW S, NEW body, Len(body) \in Nat, NEW b \in Seq(S), NEW w \in Seq(S), NEW cut, NEW q,
           Arrived(q, body, b, w, cut), NEW n \in 0 .. Len(b)
    PROVE  LET c == SubSeq(b, n + 1, Len(b))
           IN  /\ c \in Seq(S) /\ Len(c) = Len(b) - n
               /\ Arrived(q + n, body, c, w, cut)
  <1> DEFINE c == SubSeq(b, n + 1, Len(b))
  <1>1. /\ Len(b) \in Nat /\ Len(w) \in Nat /\ q \in Nat /\ n \in Nat /\ n <= Len(b)
    BY LenProperties DEF Arrived
  <1>2. /\ n + 1 \in 1 .. Len(b) + 1 /\ Len(b) \in (n + 1) - 1 .. Len(b)
        /\ Len(b) - (n + 1) + 1 = Len(b) - n
    BY <1>1
  <1>3. /\ c \in Seq(S) /\ Len(c) = Len(b) - n
        /\ \A k \in 1 .. Len(b) - n : c[k] = b[n + 1 + k - 1]
    <2>1. n + 1 \in 1 .. Len(b) + 1 /\ Len(b) \in (n + 1) - 1 .. Len(b)
      BY <1>2
    <2>2. /\ c \in Seq(S) /\ Len(c) = Len(b) - (n + 1) + 1
          /\ \A k \in 1 .. Len(b) - (n + 1) + 1 : c[k] = b[n + 1 + k - 1]
      BY <2>1, SliceAt
    <2> HIDE DEF c
    <2> QED
      BY <1>2, <2>2
  <1> HIDE DEF c
  <1>4. ASSUME NEW k \in 1 .. Len(c) PROVE c[k] = body[q + n + k]
    <2>1. k \in 1 .. Len(b) - n /\ n + k \in 1 .. Len(b) /\ n + 1 + k - 1 = n + k
          /\ q + (n + k) = q + n + k
      BY <1>1, <1>3
    <2>2. c[k] = b[n + k]
      BY <1>3, <2>1
    <2>3. b[n + k] = body[q + (n + k)]
      BY <2>1 DEF Arrived
    <2> QED
      BY <2>1, <2>2, <2>3
  <1>5. q + n \in Nat /\ q + n + Len(c) = q + Len(b)
    <2>1. Len(c) = Len(b) - n /\ Len(c) \in Nat
      BY <1>3, LenProperties
    <2> QED
      BY <1>1, <2>1
  <1>6. Arrived(q + n, body, c, w, cut)
    BY <1>4, <1>5 DEF Arrived
  <1> QED
    BY <1>3, <1>6 DEF c

\* fill.
LEMMA ArrivedFill ==
    ASSUME NEW S, NEW body, Len(body) \in Nat, NEW b \in Seq(S), NEW w \in Seq(S), NEW cut, NEW q,
           NEW n \in 1 .. Len(w)
    PROVE  LET c == b \o SubSeq(w, 1, n)
               v == SubSeq(w, n + 1, Len(w))
           IN  /\ c \in Seq(S) /\ v \in Seq(S) /\ Len(c) = Len(b) + n
               /\ Arrived(q, body, b, w, cut) => Arrived(q, body, c, v, cut)
  <1> DEFINE new == SubSeq(w, 1, n)
             c == b \o new
             v == SubSeq(w, n + 1, Len(w))
  <1>1. /\ Len(b) \in Nat /\ Len(w) \in Nat /\ n \in Nat /\ 1 <= n /\ n <= Len(w)
    BY LenProperties
  <1>2. /\ 1 \in 1 .. Len(w) + 1 /\ n \in 1 - 1 .. Len(w) /\ n - 1 + 1 = n
        /\ n + 1 \in 1 .. Len(w) + 1 /\ Len(w) \in (n + 1) - 1 .. Len(w)
        /\ Len(w) - (n + 1) + 1 = Len(w) - n
    BY <1>1
  <1>3. new \in Seq(S) /\ Len(new) = n /\ \A k \in 1 .. n : new[k] = w[1 + k - 1]
    <2>1. 1 \in 1 .. Len(w) + 1 /\ n \in 1 - 1 .. Len(w)
      BY <1>2
    <2>2. /\ new \in Seq(S) /\ Len(new) = n - 1 + 1
          /\ \A k \in 1 .. n - 1 + 1 : new[k] = w[1 + k - 1]
      BY <2>1, SliceAt
    <2> QED
      BY <1>2, <2>2
  <1> HIDE DEF new
  <1>4. v \in Seq(S) /\ Len(v) = Len(w) - n /\ \A k \in 1 .. Len(w) - n : v[k] = w[n + 1 + k - 1]
    <2>1. n + 1 \in 1 .. Len(w) + 1 /\ Len(w) \in (n + 1) - 1 .. Len(w)
      BY <1>2
    <2>2. /\ v \in Seq(S) /\ Len(v) = Len(w) - (n + 1) + 1
          /\ \A k \in 1 .. Len(w) - (n + 1) + 1 : v[k] = w[n + 1 + k - 1]
      BY <2>1, SliceAt
    <2> QED
      BY <1>2, <2>2
  <1> HIDE DEF v
  <1>5. /\ c \in Seq(S) /\ Len(c) = Len(b) + Len(new)
        /\ \A k \in 1 .. Len(b) : c[k] = b[k]
        /\ \A k \in 1 .. Len(new) : c[Len(b) + k] = new[k]
    <2>1. new \in Seq(S)
      BY <1>3
    <2> QED
      BY <2>1, JoinAt
  <1> HIDE DEF c
  <1>6. ASSUME Arrived(q, body, b, w, cut) PROVE Arrived(q, body, c, v, cut)
    <2>1. q \in Nat
      BY <1>6 DEF Arrived
    <2>2. ASSUME NEW k \in 1 .. Len(c) PROVE c[k] = body[q + k]
      <3>1. CASE k <= Len(b)
        BY <1>1, <1>5, <1>6, <3>1 DEF Arrived
      <3>2. CASE ~(k <= Len(b))
        <4> DEFINE j == k - Len(b)
        <4>1. j \in 1 .. n /\ j \in 1 .. Len(w) /\ k = Len(b) + j /\ 1 + j - 1 = j
              /\ q + k = q + Len(b) + j
          BY <1>1, <1>3, <1>5, <2>1, <3>2
        <4> HIDE DEF j
        <4>2. c[k] = w[j]
          BY <1>3, <1>5, <4>1
        <4>3. w[j] = body[q + Len(b) + j]
          BY <1>6, <4>1 DEF Arrived
        <4> QED
          BY <4>1, <4>2, <4>3
      <3> QED
        BY <3>1, <3>2
    <2>3. ASSUME NEW k \in 1 .. Len(v) PROVE v[k] = body[q + Len(c) + k]
      <3>1. k \in 1 .. Len(w) - n /\ n + k \in 1 .. Len(w) /\ n + 1 + k - 1 = n + k
            /\ q + Len(b) + (n + k) = q + Len(c) + k
        BY <1>1, <1>3, <1>4, <1>5, <2>1
      <3>2. v[k] = w[n + k]
        BY <1>4, <3>1
      <3>3. w[n + k] = body[q + Len(b) + (n + k)]
        BY <1>6, <3>1 DEF Arrived
      <3> QED
        BY <3>1, <3>2, <3>3
    <2>4. q + Len(c) + Len(v) = q + Len(b) + Len(w)
      <3>1. /\ Len(c) = Len(b) + n /\ Len(c) \in Nat
            /\ Len(v) = Len(w) - n /\ Len(v) \in Nat
        BY <1>3, <1>4, <1>5, LenProperties
      <3> QED
        BY <1>1, <2>1, <3>1
    <2> QED
      BY <1>6, <2>2, <2>3, <2>4 DEF Arrived
  <1> QED
    BY <1>3, <1>4, <1>5, <1>6 DEF c, v, new

\* What is cut off.
LEMMA ArrivedCut ==
    ASSUME NEW S, NEW body, NEW b \in Seq(S), NEW w \in Seq(S), NEW cut, NEW q,
           Arrived(q, body, b, w, cut), Len(body) \in Nat
    PROVE  Arrived(q, body, b, <<>>, TRUE)
  <1>1. /\ Len(b) \in Nat /\ Len(w) \in Nat /\ Len(<<>>) = 0 /\ q \in Nat
        /\ q + Len(b) + Len(w) <= Len(body) /\ \A k \in 1 .. Len(b) : b[k] = body[q + k]
    BY LenProperties, EmptySeq DEF Arrived
  <1>2. q + Len(b) + 0 <= Len(body) /\ 1 .. 0 = {}
    BY <1>1
  <1> QED
    BY <1>1, <1>2 DEF Arrived

-----------------------------------------------------------------------------
\* Fill and take of the reader itself.

LEMMA StreamTyped ==
    ASSUME StreamTypes
    PROVE  /\ content \in [Parts -> Payloads] /\ Len(Body(content)) \in Nat
           /\ buf \in Seq(Heard) /\ wire \in Seq(Heard) /\ Len(buf) \in Nat /\ Len(wire) \in Nat
           /\ MaxChunk \in Nat /\ MaxBytes \in Nat /\ Len(Delimiter) \in Nat \ {0}
  <1>1. content \in [Parts -> Payloads] /\ buf \in Seq(Heard) /\ wire \in Seq(Heard)
    BY DEF StreamTypes, MultipartTypeOK
  <1>2. Len(Delimiter) \in Nat \ {0}
    BY FramingShape
  <1>3. MaxChunk \in Nat /\ MaxBytes \in Nat
    BY MultipartAssumption
  <1> QED
    BY <1>1, <1>2, <1>3, BodyShape, LenProperties

\* take moves the place where the buffer begins.
LEMMA TakeSteps ==
    ASSUME StreamTypes, NEW q, Behind(q), NEW n \in 0 .. Len(buf), Take(n)
    PROVE  /\ buf' \in Seq(Heard) /\ Len(buf') \in Nat /\ Len(buf') = Len(buf) - n
           /\ Arrived(q + n, Body(content), buf', wire, hungUp)
  <1>1. /\ Len(Body(content)) \in Nat /\ buf \in Seq(Heard) /\ wire \in Seq(Heard)
        /\ buf' = SubSeq(buf, n + 1, Len(buf))
    BY StreamTyped DEF Take
  <1>2. Arrived(q, Body(content), buf, wire, hungUp)
    BY DEF Behind
  <1> DEFINE body == Body(content)
             S == Heard
             c == SubSeq(buf, n + 1, Len(buf))
  <1>3. Len(body) \in Nat /\ buf \in Seq(S) /\ wire \in Seq(S) /\ Arrived(q, body, buf, wire, hungUp)
    BY <1>1, <1>2
  <1> HIDE DEF body, S
  <1>4. /\ c \in Seq(S) /\ Len(c) = Len(buf) - n /\ Arrived(q + n, body, c, wire, hungUp)
    BY <1>3, ArrivedTake
  <1> QED
    BY <1>1, <1>4, LenProperties DEF body, S

\* fill moves symbols from the wire to the buffer, and no place.
LEMMA FillSteps ==
    ASSUME StreamTypes, Fill
    PROVE  /\ buf' \in Seq(Heard) /\ wire' \in Seq(Heard) /\ Len(buf') \in Nat
           /\ Len(buf) <= Len(buf') /\ Len(buf') <= Len(buf) + MaxChunk
           /\ \A q : Behind(q) => Arrived(q, Body(content), buf', wire', hungUp)
  <1>1. /\ Len(Body(content)) \in Nat /\ buf \in Seq(Heard) /\ wire \in Seq(Heard)
        /\ Len(buf) \in Nat /\ Len(wire) \in Nat /\ MaxChunk \in Nat
    BY StreamTyped
  <1>2. PICK n \in 1 .. MaxChunk :
          n <= Len(wire) /\ buf' = buf \o SubSeq(wire, 1, n) /\ wire' = SubSeq(wire, n + 1, Len(wire))
    BY DEF Fill
  <1> DEFINE body == Body(content)
             S == Heard
             c == buf \o SubSeq(wire, 1, n)
             v == SubSeq(wire, n + 1, Len(wire))
  <1>3. /\ Len(body) \in Nat /\ buf \in Seq(S) /\ wire \in Seq(S) /\ n \in 1 .. Len(wire)
        /\ n \in Nat /\ 1 <= n /\ n <= MaxChunk
    BY <1>1, <1>2
  <1> HIDE DEF body, S
  <1>4. ASSUME NEW q
        PROVE  /\ c \in Seq(S) /\ v \in Seq(S) /\ Len(c) = Len(buf) + n
               /\ Arrived(q, body, buf, wire, hungUp) => Arrived(q, body, c, v, hungUp)
    BY <1>3, ArrivedFill
  <1>5. c \in Seq(S) /\ v \in Seq(S) /\ Len(c) = Len(buf) + n
    BY <1>4
  <1>6. Len(buf') \in Nat /\ Len(buf') = Len(buf) + n
    BY <1>2, <1>5, LenProperties
  <1>7. Len(buf) <= Len(buf') /\ Len(buf') <= Len(buf) + MaxChunk
    <2> HIDE DEF c, v
    <2> QED
      BY <1>1, <1>3, <1>6
  <1>8. \A q : Behind(q) => Arrived(q, body, buf', wire', hungUp)
    BY <1>2, <1>4 DEF Behind, body
  <1> QED
    BY <1>2, <1>5, <1>6, <1>7, <1>8 DEF body, S

\* What is buffered, seen from its place in the body.
LEMMA BufferedIs ==
    ASSUME NEW q, Behind(q), NEW i \in 1 .. Len(buf)
    PROVE  buf[i] = Body(content)[q + i]
  BY DEF Behind, Arrived

\* In the body a needle is m symbols behind q, and no nearer.
Ahead(needle, q, m) ==
    /\ q + m + Len(needle) <= Len(Body(content))
    /\ \A k \in 1 .. Len(needle) : Body(content)[q + m + k] = needle[k]
    /\ \A i \in 1 .. m : \E k \in 1 .. Len(needle) : Body(content)[q + i + k - 1] # needle[k]

\* The search for it.
LEMMA NeedleAhead ==
    ASSUME StreamTypes, NEW q, Behind(q), NEW T, NEW needle \in Seq(T), Len(needle) \in Nat \ {0},
           NEW from \in Nat, NEW m \in Nat, from <= m,
           Ahead(needle, q, m)
    PROVE  /\ Found(needle, from) # {} =>
                 m + Len(needle) <= Len(buf) /\ First(Found(needle, from)) = m + 1
           /\ Found(needle, from) = {} => Len(buf) < m + Len(needle)
           /\ wire = <<>> /\ Found(needle, from) = {} => hungUp
  <1> DEFINE body == Body(content)
             n == Len(needle)
             p == m + 1
  <1>0. /\ q + m + Len(needle) <= Len(Body(content))
        /\ \A k \in 1 .. Len(needle) : Body(content)[q + m + k] = needle[k]
        /\ \A i \in 1 .. m : \E k \in 1 .. Len(needle) : Body(content)[q + i + k - 1] # needle[k]
    BY DEF Ahead
  <1>1. /\ buf \in Seq(Heard) /\ Len(buf) \in Nat /\ q \in Nat /\ n \in Nat /\ 1 <= n
        /\ m \in Nat /\ p \in Nat \ {0} /\ from < p
    BY StreamTyped DEF Behind, Arrived
  <1>2. ASSUME NEW k \in 1 .. n, p + k - 1 <= Len(buf) PROVE buf[p + k - 1] = needle[k]
    <2>1. p + k - 1 \in 1 .. Len(buf) /\ q + (p + k - 1) = q + m + k
      <3> HIDE DEF n
      <3> QED
        BY <1>1, <1>2
    <2> QED
      BY <1>0, <2>1, BufferedIs
  <1>3. ASSUME NEW i \in 1 .. p - 1, i + n - 1 <= Len(buf)
        PROVE  \E k \in 1 .. n : buf[i + k - 1] # needle[k]
    <2>1. i \in 1 .. m
      BY <1>1
    <2>2. PICK k \in 1 .. n : body[q + i + k - 1] # needle[k]
      BY <1>0, <2>1
    <2>3. i + k - 1 \in 1 .. Len(buf) /\ q + (i + k - 1) = q + i + k - 1
      <3>1. i \in Nat /\ 1 <= i /\ k \in Nat /\ 1 <= k /\ k <= n
        BY <1>1, <2>1
      <3> HIDE DEF n, p
      <3> QED
        BY <1>1, <1>3, <3>1
    <2>4. buf[i + k - 1] = body[q + i + k - 1]
      BY <2>3, BufferedIs
    <2> QED
      BY <2>2, <2>4
  <1> DEFINE places == {i \in from + 1 .. Len(buf) - Len(needle) + 1 : OccursAt(needle, buf, i)}
  <1>4. places = Found(needle, from)
    BY DEF Found
  <1>5. /\ \A k \in 1 .. Len(needle) : p + k - 1 <= Len(buf) => buf[p + k - 1] = needle[k]
        /\ \A i \in 1 .. p - 1 : i + Len(needle) - 1 <= Len(buf)
              => \E k \in 1 .. Len(needle) : buf[i + k - 1] # needle[k]
    BY <1>2, <1>3
  <1>6. /\ places # {} => p + Len(needle) - 1 <= Len(buf) /\ First(places) = p
        /\ places = {} => Len(buf) < p + Len(needle) - 1
    <2> HIDE DEF p, n
    <2> QED
      BY <1>1, <1>5, SearchFinds
  <1>7. p + Len(needle) - 1 = m + Len(needle)
    BY <1>1
  <1>8. ASSUME wire = <<>>, Len(buf) < m + Len(needle) PROVE hungUp
    <2>1. /\ Len(wire) = 0 /\ Len(body) \in Nat
          /\ hungUp \/ q + Len(buf) + Len(wire) = Len(body)
      BY <1>8, StreamTyped, EmptySeq DEF Behind, Arrived
    <2>2. q + Len(buf) + 0 # Len(body)
      <3> HIDE DEF n, p
      <3>1. q + m + Len(needle) <= Len(body)
        BY <1>0
      <3> HIDE DEF body
      <3>2. q + Len(buf) < q + m + Len(needle)
        BY <1>1, <1>8 DEF n
      <3> QED
        BY <1>1, <2>1, <3>1, <3>2 DEF n
    <2> QED
      BY <2>1, <2>2
  <1> HIDE DEF places, p, n, body
  <1> QED
    BY <1>4, <1>6, <1>7, <1>8 DEF p

\* readUntil, where the needle is one symbol ahead: it takes the reader behind
\* it, or holds on to no more than a chunk and a needle, or the client hung up.
LEMMA ReadUntilSteps ==
    ASSUME StreamTypes, NEW q, Behind(q), NEW T, NEW needle \in Seq(T), Len(needle) \in Nat \ {0},
           searched <= 1, q + 1 + Len(needle) <= Len(Body(content)),
           \A k \in 1 .. Len(needle) : Body(content)[q + 1 + k] = needle[k],
           Body(content)[q + 1] # needle[1],
           NEW then, ReadUntil(needle, then)
    PROVE  /\ UNCHANGED <<content, size, hungUp, atPart, out>>
           /\ buf' \in Seq(Heard) /\ wire' \in Seq(Heard) /\ searched' \in 0 .. Len(buf')
           /\ \/ /\ reading' = then /\ searched' = 0 /\ status' = status
                 /\ Len(buf') + 1 + Len(needle) = Len(buf)
                 /\ Arrived(q + 1 + Len(needle), Body(content), buf', wire', hungUp)
              \/ /\ reading' = reading /\ searched' <= 1 /\ status' = status
                 /\ Len(buf') <= MaxChunk + Len(needle)
                 /\ Arrived(q, Body(content), buf', wire', hungUp)
              \/ hungUp /\ Truncated
  <1> DEFINE found == Found(needle, searched)
             n == Len(needle)
  <1>1. /\ buf \in Seq(Heard) /\ wire \in Seq(Heard) /\ Len(buf) \in Nat /\ MaxChunk \in Nat
        /\ q \in Nat /\ n \in Nat /\ 1 <= n /\ searched \in Nat /\ searched <= Len(buf)
    BY StreamTyped DEF StreamTypes, MultipartTypeOK, Behind, Arrived
  <1>2. Ahead(needle, q, 1)
    <2>1. 1 \in 1 .. n /\ q + 1 + 1 - 1 = q + 1 /\ \A i \in 1 .. 1 : i = 1
      BY <1>1
    <2>2. \A i \in 1 .. 1 : \E k \in 1 .. n : Body(content)[q + i + k - 1] # needle[k]
      BY <2>1
    <2> QED
      BY <2>2 DEF Ahead
  <1>3. /\ found # {} => 1 + n <= Len(buf) /\ First(found) = 1 + 1
        /\ found = {} => Len(buf) < 1 + n
        /\ wire = <<>> /\ found = {} => hungUp
    <2> DEFINE m == 1
    <2>1. m \in Nat /\ searched \in Nat /\ searched <= m /\ m = 1 /\ Ahead(needle, q, m)
      BY <1>1, <1>2
    <2> HIDE DEF m
    <2>2. /\ found # {} => m + Len(needle) <= Len(buf) /\ First(found) = m + 1
          /\ found = {} => Len(buf) < m + Len(needle)
          /\ wire = <<>> /\ found = {} => hungUp
      BY <2>1, NeedleAhead
    <2> QED
      BY <2>1, <2>2
  <1>4. CASE found # {}
    <2>1. /\ Take(First(found) + n - 1) /\ searched' = 0 /\ reading' = then
          /\ UNCHANGED <<content, size, hungUp, wire, atPart, out, status>>
      BY <1>4 DEF ReadUntil, sender
    <2>2. First(found) + n - 1 = 1 + n /\ 1 + n \in 0 .. Len(buf) /\ q + (1 + n) = q + 1 + n
      BY <1>1, <1>3, <1>4
    <2>3. Take(1 + n)
      BY <2>1, <2>2
    <2> HIDE DEF n, found
    <2>4. /\ buf' \in Seq(Heard) /\ Len(buf') \in Nat /\ Len(buf') = Len(buf) - (1 + n)
          /\ Arrived(q + (1 + n), Body(content), buf', wire, hungUp)
      BY <2>2, <2>3, TakeSteps
    <2>5. Len(buf') + 1 + n = Len(buf)
      BY <1>1, <2>4
    <2>6. searched' \in 0 .. Len(buf')
      BY <2>1, <2>4
    <2>7. wire' \in Seq(Heard)
      BY <1>1, <2>1
    <2>8. Arrived(q + 1 + n, Body(content), buf', wire', hungUp)
      BY <2>1, <2>2, <2>4
    <2> QED
      BY <2>1, <2>4, <2>5, <2>6, <2>7, <2>8 DEF n
  <1>5. CASE found = {} /\ Fill /\ Resume(needle) /\ UNCHANGED <<sender, reading, atPart, out, status>>
    <2>1. /\ buf' \in Seq(Heard) /\ wire' \in Seq(Heard) /\ Len(buf') \in Nat
          /\ Len(buf) <= Len(buf') /\ Len(buf') <= Len(buf) + MaxChunk
          /\ Arrived(q, Body(content), buf', wire', hungUp)
      BY <1>5, FillSteps
    <2>2. searched' = IF Len(buf) >= n THEN Len(buf) - n + 1 ELSE 0
      BY <1>5 DEF Resume
    <2>3. Len(buf) < 1 + n
      BY <1>3, <1>5
    <2> HIDE DEF n
    <2>4. searched' \in 0 .. Len(buf') /\ searched' <= 1 /\ Len(buf') <= MaxChunk + n
      BY <1>1, <2>1, <2>2, <2>3
    <2> QED
      BY <1>5, <2>1, <2>4 DEF sender, n
  <1>6. CASE found = {} /\ Truncated
    <2>1. /\ wire = <<>> /\ UNCHANGED <<content, size, hungUp, atPart, out, buf, wire, searched>>
      BY <1>6 DEF Truncated, sender
    <2>2. searched' \in 0 .. Len(buf')
      BY <1>1, <2>1
    <2> QED
      BY <1>1, <1>3, <1>6, <2>1, <2>2
  <1>7. \/ found # {}
        \/ found = {} /\ Fill /\ Resume(needle) /\ UNCHANGED <<sender, reading, atPart, out, status>>
        \/ found = {} /\ Truncated
    BY DEF ReadUntil
  <1> QED
    BY <1>4, <1>5, <1>6, <1>7

-----------------------------------------------------------------------------
\* The steps of the reader.

LEMMA StreamTypesKept ==
    ASSUME StreamTypes, UNCHANGED <<content, size>>,
           buf' \in Seq(Heard), wire' \in Seq(Heard), hungUp' \in BOOLEAN, searched' \in 0 .. Len(buf'),
           atPart' \in 1 .. PartCount + 1,
           status' \in [Parts -> {"unread", "reading", "whole", "failed", "cancelled"}],
           reading' \in {"meta", "marker", "header", "body", "idle", "failed", "drained"},
           out' \in [Parts -> Seq(Heard)]
    PROVE  StreamTypes'
  <1>1. Heard' = Heard
    BY DEF Heard
  <1> HIDE DEF Heard
  <1> QED
    BY <1>1 DEF StreamTypes, MultipartTypeOK

\* A step that delivers nothing, and settles streams only for good reason.
LEMMA StreamsKept ==
    ASSUME StreamsInv, UNCHANGED <<content, size, out>>, hungUp => hungUp',
           \A i \in Parts : \/ status'[i] = status[i]
                            \/ status'[i] \in {"unread", "reading", "cancelled"}
                            \/ status'[i] = "failed" /\ (hungUp' \/ size[i] # Len(content[i]))
                            \/ status'[i] = "whole" /\ Len(out[i]) = Len(content[i]),
           \A i \in Parts : Untouched(i)' => Untouched(i)
    PROVE  StreamsInv'
  <1> USE DEF StreamsInv
  <1> SUFFICES ASSUME NEW i \in Parts
               PROVE  /\ Len(out[i]) <= Len(content[i]) /\ Len(out[i]) <= size[i]
                      /\ \A k \in 1 .. Len(out[i]) : out[i][k] = content[i][k]
                      /\ status'[i] = "whole" => Len(out[i]) = Len(content[i])
                      /\ status'[i] = "failed" => hungUp' \/ size[i] # Len(content[i])
                      /\ Untouched(i)' => out[i] = <<>>
    OBVIOUS
  <1>1. /\ Len(out[i]) <= Len(content[i]) /\ Len(out[i]) <= size[i]
        /\ \A k \in 1 .. Len(out[i]) : out[i][k] = content[i][k]
        /\ status[i] = "whole" => Len(out[i]) = Len(content[i])
        /\ status[i] = "failed" => hungUp \/ size[i] # Len(content[i])
        /\ Untouched(i) => out[i] = <<>>
    OBVIOUS
  <1>2. Untouched(i)' => Untouched(i)
    OBVIOUS
  <1>3. \/ status'[i] = status[i]
        \/ status'[i] \in {"unread", "reading", "cancelled"}
        \/ status'[i] = "failed" /\ (hungUp' \/ size[i] # Len(content[i]))
        \/ status'[i] = "whole" /\ Len(out[i]) = Len(content[i])
    OBVIOUS
  <1>4. status'[i] = "whole" => Len(out[i]) = Len(content[i])
    BY <1>1, <1>3
  <1>5. status'[i] = "failed" => hungUp' \/ size[i] # Len(content[i])
    BY <1>1, <1>3
  <1> QED
    BY <1>1, <1>2, <1>4, <1>5

\* A read that fails for good reason.
LEMMA TruncatedKeeps ==
    ASSUME MultipartInv, Truncated, hungUp, reading \in {"meta", "marker", "header", "body"}
    PROVE  MultipartInv'
  <1>1. /\ wire = <<>> /\ reading' = "failed" /\ UNCHANGED <<content, size, hungUp, wire, buf, searched, atPart, out>>
        /\ status' = IF reading = "meta" THEN status ELSE [status EXCEPT ![atPart] = "failed"]
    BY DEF Truncated, sender
  <1>2. /\ StreamTypes /\ StreamsInv /\ hungUp \in BOOLEAN /\ buf \in Seq(Heard) /\ wire \in Seq(Heard)
        /\ searched \in 0 .. Len(buf) /\ atPart \in 1 .. PartCount + 1 /\ out \in [Parts -> Seq(Heard)]
        /\ status \in [Parts -> {"unread", "reading", "whole", "failed", "cancelled"}]
    BY DEF MultipartInv, StreamTypes, MultipartTypeOK
  <1>3. status' \in [Parts -> {"unread", "reading", "whole", "failed", "cancelled"}]
    BY <1>1, <1>2
  <1>4. StreamTypes'
    BY <1>1, <1>2, <1>3, StreamTypesKept
  <1>5. \A i \in Parts : status'[i] = status[i] \/ status'[i] = "failed"
    BY <1>1, <1>2
  <1>6. ASSUME NEW i \in Parts, Untouched(i)' PROVE Untouched(i)
    <2>1. i > atPart \/ (i = atPart /\ status'[i] = "unread")
      BY <1>1, <1>6 DEF Untouched
    <2>2. CASE i = atPart /\ status'[i] = "unread"
      <3>1. reading = "meta"
        BY <1>1, <1>2, <2>2
      <3> QED
        BY <2>2, <3>1 DEF Untouched
    <2> QED
      BY <2>1, <2>2 DEF Untouched
  <1>7. StreamsInv'
    BY <1>1, <1>2, <1>5, <1>6, StreamsKept
  <1>8. ReaderInv'
    BY <1>1 DEF ReaderInv
  <1> QED
    BY <1>4, <1>7, <1>8 DEF MultipartInv

LEMMA MetaKeeps == ASSUME MultipartInv, Meta PROVE MultipartInv'
  <1>1. /\ StreamTypes /\ StreamsInv /\ reading = "meta" /\ ReadUntil(Delimiter, "idle")
        /\ Behind(0) /\ atPart = 1 /\ searched <= 1 /\ Len(buf) <= MaxChunk + Len(Delimiter)
    BY DEF MultipartInv, ReaderInv, Meta
  <1>2. /\ content \in [Parts -> Payloads] /\ Len(buf) \in Nat /\ MaxChunk \in Nat
        /\ Len(Delimiter) \in Nat \ {0} /\ Delimiter \in Seq(Symbols) /\ Delimiter[1] = CRLF /\ Header # CRLF
    BY <1>1, StreamTyped, FramingShape, MultipartAssumption
  <1>3. /\ 1 + Len(Delimiter) <= Len(Body(content)) /\ Body(content)[1] = Header
        /\ \A k \in 1 .. Len(Delimiter) : Body(content)[1 + k] = Delimiter[k]
        /\ 1 \in Parts => Start(content, 1) = Len(Delimiter) + 5
    BY <1>2, MetaPlace
  <1>4. /\ UNCHANGED <<content, size, hungUp, atPart, out>>
        /\ buf' \in Seq(Heard) /\ wire' \in Seq(Heard) /\ searched' \in 0 .. Len(buf')
        /\ \/ /\ reading' = "idle" /\ searched' = 0 /\ status' = status
              /\ Len(buf') + 1 + Len(Delimiter) = Len(buf)
              /\ Arrived(0 + 1 + Len(Delimiter), Body(content), buf', wire', hungUp)
           \/ /\ reading' = reading /\ searched' <= 1 /\ status' = status
              /\ Len(buf') <= MaxChunk + Len(Delimiter)
              /\ Arrived(0, Body(content), buf', wire', hungUp)
           \/ hungUp /\ Truncated
    <2> DEFINE q == 0
               then == "idle"
    <2>1. /\ Behind(q) /\ searched <= 1 /\ q + 1 + Len(Delimiter) <= Len(Body(content))
          /\ \A k \in 1 .. Len(Delimiter) : Body(content)[q + 1 + k] = Delimiter[k]
          /\ Body(content)[q + 1] # Delimiter[1] /\ ReadUntil(Delimiter, then)
      BY <1>1, <1>2, <1>3
    <2> HIDE DEF q, then
    <2> QED
      BY <1>1, <1>2, <2>1, ReadUntilSteps DEF q, then
  <1>5. CASE hungUp /\ Truncated
    BY <1>1, <1>5, TruncatedKeeps
  <1>6. CASE status' = status /\ reading' \in {"idle", "meta"}
             /\ (reading' = "idle" => /\ searched' = 0 /\ Len(buf') + 1 + Len(Delimiter) = Len(buf)
                                      /\ Arrived(0 + 1 + Len(Delimiter), Body(content), buf', wire', hungUp))
             /\ (reading' = "meta" => /\ searched' <= 1 /\ Len(buf') <= MaxChunk + Len(Delimiter)
                                      /\ Arrived(0, Body(content), buf', wire', hungUp))
    <2>1. StreamTypes'
      <3>1. /\ hungUp' \in BOOLEAN /\ atPart' \in 1 .. PartCount + 1
            /\ status' \in [Parts -> {"unread", "reading", "whole", "failed", "cancelled"}]
            /\ reading' \in {"meta", "marker", "header", "body", "idle", "failed", "drained"}
            /\ out' \in [Parts -> Seq(Heard)]
        BY <1>1, <1>4, <1>6 DEF StreamTypes, MultipartTypeOK
      <3> QED
        BY <1>1, <1>4, <3>1, StreamTypesKept
    <2>2. \A i \in Parts : Untouched(i)' => Untouched(i)
      BY <1>1, <1>4 DEF Untouched
    <2>3. StreamsInv'
      BY <1>1, <1>4, <1>6, <2>2, StreamsKept
    <2>4. ASSUME reading' = "idle", 1 \in Parts
          PROVE  /\ Arrived(Start(content, 1) - 4, Body(content), buf', wire', hungUp)
                 /\ searched' = 0 /\ Len(buf') + 1 <= MaxChunk
      <3>1. Len(buf') \in Nat /\ Len(buf') + 1 + Len(Delimiter) = Len(buf)
        BY <1>4, <1>6, <2>4, LenProperties
      <3>2. Len(buf') + 1 <= MaxChunk
        BY <1>1, <1>2, <3>1
      <3>3. 0 + 1 + Len(Delimiter) = Start(content, 1) - 4
        BY <1>2, <1>3, <2>4
      <3> QED
        BY <1>6, <2>4, <3>2, <3>3
    <2>5. ReaderInv'
      BY <1>1, <1>4, <1>6, <2>4 DEF ReaderInv, Behind
    <2> QED
      BY <2>1, <2>3, <2>5 DEF MultipartInv
  <1> QED
    BY <1>1, <1>4, <1>5, <1>6

LEMMA OpenKeeps == ASSUME MultipartInv, NEW i \in Parts, Open(i) PROVE MultipartInv'
  <1>1. /\ reading = "idle" /\ i = atPart /\ status[i] = "unread" /\ reading' = "marker"
        /\ status' = [status EXCEPT ![i] = "reading"]
        /\ UNCHANGED <<content, size, hungUp, wire, buf, searched, atPart, out>>
    BY DEF Open, sender
  <1>2. /\ StreamTypes /\ StreamsInv /\ buf \in Seq(Heard) /\ wire \in Seq(Heard) /\ hungUp \in BOOLEAN
        /\ searched \in 0 .. Len(buf) /\ atPart \in 1 .. PartCount + 1 /\ out \in [Parts -> Seq(Heard)]
        /\ status \in [Parts -> {"unread", "reading", "whole", "failed", "cancelled"}]
        /\ Len(buf) \in Nat /\ MaxChunk \in Nat
    BY StreamTyped DEF MultipartInv, StreamTypes, MultipartTypeOK
  <1>3. Behind(Start(content, atPart) - 4) /\ searched = 0 /\ Len(buf) + 1 <= MaxChunk
    BY <1>1 DEF MultipartInv, ReaderInv
  <1>4. /\ status' \in [Parts -> {"unread", "reading", "whole", "failed", "cancelled"}]
        /\ status'[i] = "reading" /\ \A j \in Parts \ {i} : status'[j] = status[j]
    BY <1>1, <1>2
  <1>5. StreamTypes'
    BY <1>1, <1>2, <1>4, StreamTypesKept
  <1>6. \A j \in Parts : Untouched(j)' => Untouched(j)
    BY <1>1 DEF Untouched
  <1>7. StreamsInv'
    BY <1>1, <1>2, <1>4, <1>6, StreamsKept
  <1>8. Len(buf') <= MaxChunk
    BY <1>1, <1>2, <1>3
  <1>9. ReaderInv'
    BY <1>1, <1>3, <1>4, <1>8 DEF ReaderInv, Behind
  <1> QED
    BY <1>5, <1>7, <1>9 DEF MultipartInv

LEMMA MarkerKeeps == ASSUME MultipartInv, Marker PROVE MultipartInv'
  <1> DEFINE q == Start(content, atPart) - 4
  <1>1. /\ reading = "marker" /\ atPart \in Parts /\ status[atPart] = "reading"
        /\ Behind(q) /\ searched = 0 /\ Len(buf) <= MaxChunk
    BY DEF MultipartInv, ReaderInv, Marker
  <1>2. /\ StreamTypes /\ StreamsInv /\ buf \in Seq(Heard) /\ wire \in Seq(Heard) /\ hungUp \in BOOLEAN
        /\ atPart \in 1 .. PartCount + 1 /\ out \in [Parts -> Seq(Heard)]
        /\ status \in [Parts -> {"unread", "reading", "whole", "failed", "cancelled"}]
        /\ Len(buf) \in Nat /\ MaxChunk \in Nat /\ content \in [Parts -> Payloads]
    BY StreamTyped DEF MultipartInv, StreamTypes, MultipartTypeOK
  <1>3. /\ Start(content, atPart) \in Nat /\ 4 <= Start(content, atPart)
        /\ Start(content, atPart) <= Len(Body(content))
    BY <1>1, <1>2, HeaderPlace
  <1>4. CASE /\ buf # <<>> /\ Take(1) /\ reading' = "header"
             /\ UNCHANGED <<sender, wire, searched, atPart, out, status>>
    <2>1. 1 \in 0 .. Len(buf)
      BY <1>2, <1>4, EmptySeq
    <2>2. /\ buf' \in Seq(Heard) /\ Len(buf') \in Nat /\ Len(buf') = Len(buf) - 1
          /\ Arrived(q + 1, Body(content), buf', wire, hungUp)
      <3> HIDE DEF q
      <3> QED
        BY <1>1, <1>2, <1>4, <2>1, TakeSteps
    <2>3. q + 1 = Start(content, atPart) - 3
      BY <1>3
    <2>4. Len(buf') <= MaxChunk + 2
      BY <1>1, <1>2, <2>2
    <2>5. UNCHANGED <<content, size, hungUp, wire, searched, atPart, out, status>>
      BY <1>4 DEF sender
    <2>6. StreamTypes'
      <3>1. searched' \in 0 .. Len(buf')
        BY <1>1, <2>2, <2>5
      <3> QED
        BY <1>2, <1>4, <2>2, <2>5, <3>1, StreamTypesKept
    <2>7. \A j \in Parts : Untouched(j)' => Untouched(j)
      BY <1>1, <1>4, <2>5 DEF Untouched
    <2>8. StreamsInv'
      BY <1>2, <2>5, <2>7, StreamsKept
    <2>9. Arrived(Start(content, atPart) - 3, Body(content), buf', wire, hungUp)
      BY <2>2, <2>3
    <2>10. ReaderInv'
      BY <1>1, <1>4, <2>4, <2>5, <2>9 DEF ReaderInv, Behind
    <2> QED
      BY <2>6, <2>8, <2>10 DEF MultipartInv
  <1>5. CASE buf = <<>> /\ Fill /\ UNCHANGED <<sender, searched, reading, atPart, out, status>>
    <2>1. /\ buf' \in Seq(Heard) /\ wire' \in Seq(Heard) /\ Len(buf') \in Nat
          /\ Len(buf') <= Len(buf) + MaxChunk /\ Arrived(q, Body(content), buf', wire', hungUp)
      BY <1>1, <1>2, <1>5, FillSteps
    <2>2. Len(buf) = 0
      BY <1>5, EmptySeq
    <2>3. Len(buf') <= MaxChunk
      BY <1>2, <2>1, <2>2
    <2>4. UNCHANGED <<content, size, hungUp, searched, reading, atPart, out, status>>
      BY <1>5 DEF sender
    <2>5. StreamTypes'
      <3>1. searched' \in 0 .. Len(buf')
        BY <1>1, <2>1, <2>4
      <3> QED
        BY <1>1, <1>2, <2>1, <2>4, <3>1, StreamTypesKept
    <2>6. \A j \in Parts : Untouched(j)' => Untouched(j)
      BY <2>4 DEF Untouched
    <2>7. StreamsInv'
      BY <1>2, <2>4, <2>6, StreamsKept
    <2>8. ReaderInv'
      BY <1>1, <2>1, <2>3, <2>4 DEF ReaderInv, Behind
    <2> QED
      BY <2>5, <2>7, <2>8 DEF MultipartInv
  <1>6. CASE buf = <<>> /\ Truncated
    <2>1. /\ Len(buf) = 0 /\ Len(wire) = 0 /\ q \in Nat
          /\ hungUp \/ q + Len(buf) + Len(wire) = Len(Body(content))
      BY <1>1, <1>6, EmptySeq DEF Truncated, Behind, Arrived
    <2>2. q + 0 + 0 # Len(Body(content))
      <3>1. Len(Body(content)) \in Nat
        BY <1>2, StreamTyped
      <3> QED
        BY <1>3, <3>1
    <2>3. hungUp
      BY <2>1, <2>2
    <2> QED
      BY <1>1, <1>6, <2>3, TruncatedKeeps
  <1> QED
    BY <1>4, <1>5, <1>6 DEF Marker

LEMMA PartHeaderKeeps == ASSUME MultipartInv, PartHeader PROVE MultipartInv'
  <1> DEFINE q == Start(content, atPart) - 3
  <1>1. /\ reading = "header" /\ atPart \in Parts /\ status[atPart] = "reading"
        /\ Behind(q) /\ searched <= 1 /\ Len(buf) <= MaxChunk + 2 /\ ReadUntil(HeaderEnd, "body")
    BY DEF MultipartInv, ReaderInv, PartHeader
  <1>2. /\ StreamTypes /\ StreamsInv /\ hungUp \in BOOLEAN
        /\ atPart \in 1 .. PartCount + 1 /\ out \in [Parts -> Seq(Heard)]
        /\ status \in [Parts -> {"unread", "reading", "whole", "failed", "cancelled"}]
        /\ Len(buf) \in Nat /\ MaxChunk \in Nat /\ content \in [Parts -> Payloads]
        /\ Len(Delimiter) \in Nat \ {0}
    BY StreamTyped DEF MultipartInv, StreamTypes, MultipartTypeOK
  <1>3. /\ Start(content, atPart) \in Nat /\ 4 <= Start(content, atPart)
        /\ Start(content, atPart) <= Len(Body(content))
        /\ Body(content)[Start(content, atPart) - 2] = Header
        /\ Body(content)[Start(content, atPart) - 1] = CRLF /\ Body(content)[Start(content, atPart)] = CRLF
    BY <1>1, <1>2, HeaderPlace
  <1>4. /\ HeaderEnd \in Seq(Symbols) /\ Len(HeaderEnd) = 2 /\ HeaderEnd[1] = CRLF /\ HeaderEnd[2] = CRLF
        /\ Header # CRLF
    BY MultipartAssumption DEF HeaderEnd
  <1>5. /\ q + 1 = Start(content, atPart) - 2 /\ q + 1 + 1 = Start(content, atPart) - 1
        /\ q + 1 + 2 = Start(content, atPart)
    BY <1>3
  <1>6. /\ q + 1 + Len(HeaderEnd) <= Len(Body(content)) /\ q + 1 + Len(HeaderEnd) = Start(content, atPart)
        /\ Body(content)[q + 1] # HeaderEnd[1]
    BY <1>3, <1>4, <1>5
  <1>7. \A k \in 1 .. Len(HeaderEnd) : Body(content)[q + 1 + k] = HeaderEnd[k]
    <2>1. /\ Body(content)[q + 1 + 1] = HeaderEnd[1] /\ Body(content)[q + 1 + 2] = HeaderEnd[2]
      BY <1>3, <1>4, <1>5
    <2>2. \A k \in 1 .. Len(HeaderEnd) : k = 1 \/ k = 2
      BY <1>4
    <2> QED
      BY <2>1, <2>2
  <1>8. /\ UNCHANGED <<content, size, hungUp, atPart, out>>
        /\ buf' \in Seq(Heard) /\ wire' \in Seq(Heard) /\ searched' \in 0 .. Len(buf')
        /\ \/ /\ reading' = "body" /\ searched' = 0 /\ status' = status
              /\ Len(buf') + 1 + 2 = Len(buf)
              /\ Arrived(Start(content, atPart), Body(content), buf', wire', hungUp)
           \/ /\ reading' = reading /\ searched' <= 1 /\ status' = status
              /\ Len(buf') <= MaxChunk + 2
              /\ Arrived(q, Body(content), buf', wire', hungUp)
           \/ hungUp /\ Truncated
    <2> DEFINE then == "body"
    <2>1. Len(HeaderEnd) \in Nat \ {0} /\ ReadUntil(HeaderEnd, then)
      BY <1>1, <1>4
    <2> HIDE DEF q, then
    <2>2. /\ UNCHANGED <<content, size, hungUp, atPart, out>>
          /\ buf' \in Seq(Heard) /\ wire' \in Seq(Heard) /\ searched' \in 0 .. Len(buf')
          /\ \/ /\ reading' = then /\ searched' = 0 /\ status' = status
                /\ Len(buf') + 1 + Len(HeaderEnd) = Len(buf)
                /\ Arrived(q + 1 + Len(HeaderEnd), Body(content), buf', wire', hungUp)
             \/ /\ reading' = reading /\ searched' <= 1 /\ status' = status
                /\ Len(buf') <= MaxChunk + Len(HeaderEnd)
                /\ Arrived(q, Body(content), buf', wire', hungUp)
             \/ hungUp /\ Truncated
      BY <1>1, <1>2, <1>4, <1>6, <1>7, <2>1, ReadUntilSteps
    <2> QED
      BY <1>4, <1>6, <2>2 DEF then
  <1>9. CASE hungUp /\ Truncated
    BY <1>1, <1>9, TruncatedKeeps
  <1>10. CASE status' = status /\ reading' \in {"body", "header"}
             /\ (reading' = "body" => /\ searched' = 0 /\ Len(buf') + 1 + 2 = Len(buf)
                                      /\ Arrived(Start(content, atPart), Body(content), buf', wire', hungUp))
             /\ (reading' = "header" => /\ searched' <= 1 /\ Len(buf') <= MaxChunk + 2
                                        /\ Arrived(q, Body(content), buf', wire', hungUp))
    <2>1. StreamTypes'
      BY <1>2, <1>8, <1>10, StreamTypesKept
    <2>2. \A i \in Parts : Untouched(i)' => Untouched(i)
      BY <1>1, <1>8, <1>10 DEF Untouched
    <2>3. StreamsInv'
      BY <1>2, <1>8, <1>10, <2>2, StreamsKept
    <2>4. ASSUME reading' = "body"
          PROVE  /\ Arrived(Start(content, atPart) + Len(out[atPart]), Body(content), buf', wire', hungUp)
                 /\ searched' = 0 /\ Len(buf') <= MaxChunk + Len(Delimiter) - 1
      <3>1. out[atPart] = <<>>
        BY <1>1, <1>2 DEF StreamsInv, Untouched
      <3>2. Start(content, atPart) + Len(out[atPart]) = Start(content, atPart)
        BY <1>3, <3>1, EmptySeq
      <3>3. Len(buf') \in Nat /\ Len(buf') + 1 + 2 = Len(buf)
        BY <1>8, <1>10, <2>4, LenProperties
      <3>4. Len(buf') <= MaxChunk + Len(Delimiter) - 1
        BY <1>1, <1>2, <3>3
      <3> QED
        BY <1>10, <2>4, <3>2, <3>4
    <2>5. ReaderInv'
      BY <1>1, <1>8, <1>10, <2>4 DEF ReaderInv, Behind
    <2> QED
      BY <2>1, <2>3, <2>5 DEF MultipartInv
  <1> QED
    BY <1>1, <1>8, <1>9, <1>10

\* Before the delimiter behind a part it does not occur.
LEMMA NoEarlier ==
    ASSUME NEW p \in [Parts -> Payloads], NEW i \in Parts, NEW j \in 1 .. Len(p[i])
    PROVE  \E k \in 1 .. Len(Delimiter) : Body(p)[Start(p, i) + j + k - 1] # Delimiter[k]
  <1> DEFINE c == p[i]
             s == Start(p, i)
             body == Body(p)
  <1>1. /\ s \in Nat /\ Len(c) \in Nat /\ Len(Delimiter) \in Nat \ {0}
        /\ \A k \in 1 .. Len(c) : body[s + k] = c[k]
        /\ \A k \in 1 .. Len(Delimiter) : body[s + Len(c) + k] = Delimiter[k]
    BY ContentPlace, FramingShape
  <1>2. /\ c \in Seq(Symbols) /\ Delimiter \in Seq(Symbols) /\ ~OccursAt(Delimiter, c \o Delimiter, j)
    BY MultipartAssumption
  <1> DEFINE text == c \o Delimiter
  <1>3. /\ text \in Seq(Symbols) /\ Len(text) = Len(c) + Len(Delimiter)
        /\ \A k \in 1 .. Len(c) : text[k] = c[k]
        /\ \A k \in 1 .. Len(Delimiter) : text[Len(c) + k] = Delimiter[k]
    <2>1. c \in Seq(Symbols) /\ Delimiter \in Seq(Symbols)
      BY <1>2
    <2> HIDE DEF c
    <2> QED
      BY <2>1, JoinAt
  <1>4. ~OccursAt(Delimiter, text, j) /\ j \in 1 .. Len(c)
    BY <1>2
  <1> HIDE DEF text, s, body, c
  <1>5. /\ j \in Nat /\ 1 <= j /\ j <= Len(c) /\ j \in 1 .. Len(text) /\ j + Len(Delimiter) - 1 <= Len(text)
    BY <1>1, <1>3, <1>4
  <1>6. PICK k \in 1 .. Len(Delimiter) : text[j + k - 1] # Delimiter[k]
    <2>1. OccursAt(Delimiter, text, j) <=> \A k \in 1 .. Len(Delimiter) : text[j + k - 1] = Delimiter[k]
      <3>1. text \in Seq(Symbols) /\ Delimiter \in Seq(Symbols)
        BY <1>2, <1>3
      <3>2. j \in 1 .. Len(text)
        BY <1>5
      <3>3. j + Len(Delimiter) - 1 <= Len(text)
        BY <1>5
      <3> DEFINE needle == Delimiter
      <3>4. needle \in Seq(Symbols) /\ j + Len(needle) - 1 <= Len(text)
        BY <3>1, <3>3
      <3> HIDE DEF needle
      <3>5. OccursAt(needle, text, j) <=> \A k \in 1 .. Len(needle) : text[j + k - 1] = needle[k]
        BY <3>1, <3>2, <3>4, OccursByElements
      <3> QED
        BY <3>5 DEF needle
    <2> QED
      BY <1>4, <2>1
  <1> DEFINE m == j + k - 1
  <1>7. /\ m \in Nat /\ 1 <= m /\ m <= Len(c) + Len(Delimiter) /\ s + j + k - 1 = s + m
    BY <1>1, <1>5
  <1>8. text[m] # Delimiter[k]
    BY <1>6
  <1> HIDE DEF m
  <1>9. body[s + m] = text[m]
    <2>1. CASE m <= Len(c)
      <3>1. m \in 1 .. Len(c)
        BY <1>1, <1>7, <2>1
      <3> QED
        BY <1>1, <1>3, <3>1
    <2>2. CASE ~(m <= Len(c))
      <3> DEFINE d == m - Len(c)
      <3>1. d \in 1 .. Len(Delimiter) /\ m = Len(c) + d /\ s + m = s + Len(c) + d
        BY <1>1, <1>7, <2>2
      <3> HIDE DEF d
      <3> QED
        BY <1>1, <1>3, <3>1
    <2> QED
      BY <2>1, <2>2
  <1> QED
    BY <1>7, <1>8, <1>9 DEF s, body, c

\* In the body of a part: what is left of it is before the delimiter.
LEMMA BodyPlace ==
    ASSUME MultipartInv, reading = "body"
    PROVE  LET i == atPart
               q == Start(content, i) + Len(out[i])
               m == Len(content[i]) - Len(out[i])
           IN  /\ i \in Parts /\ status[i] = "reading" /\ searched = 0 /\ Behind(q)
               /\ q \in Nat /\ m \in Nat /\ Len(out[i]) \in Nat /\ Len(content[i]) \in Nat /\ size[i] \in Nat
               /\ Len(buf) <= MaxChunk + Len(Delimiter) - 1
               /\ \A k \in 1 .. m : Body(content)[q + k] = content[i][Len(out[i]) + k]
               /\ Found(Delimiter, 0) # {} =>
                     m + Len(Delimiter) <= Len(buf) /\ First(Found(Delimiter, 0)) = m + 1
               /\ Found(Delimiter, 0) = {} => Len(buf) < m + Len(Delimiter)
               /\ wire = <<>> /\ Found(Delimiter, 0) = {} => hungUp
  <1> DEFINE i == atPart
             o == Len(out[i])
             c == Len(content[i])
             s == Start(content, i)
             q == s + o
             m == c - o
             d == Len(Delimiter)
             body == Body(content)
  <1>1. /\ i \in Parts /\ status[i] = "reading" /\ searched = 0 /\ Behind(q)
        /\ Len(buf) <= MaxChunk + d - 1
    BY DEF MultipartInv, ReaderInv
  <1>2. /\ StreamTypes /\ out \in [Parts -> Seq(Heard)] /\ content \in [Parts -> Payloads]
        /\ size[i] \in Nat /\ d \in Nat \ {0} /\ Delimiter \in Seq(Symbols)
    BY <1>1, StreamTyped, MultipartAssumption DEF MultipartInv, StreamTypes
  <1>3. o \in Nat /\ o <= c
    BY <1>1, <1>2, LenProperties DEF MultipartInv, StreamsInv
  <1>4. /\ s \in Nat /\ c \in Nat /\ s + c + d <= Len(body)
        /\ \A k \in 1 .. c : body[s + k] = content[i][k]
        /\ \A k \in 1 .. d : body[s + c + k] = Delimiter[k]
    BY <1>1, <1>2, ContentPlace
  <1>5. \A j \in 1 .. c : \E k \in 1 .. d : body[s + j + k - 1] # Delimiter[k]
    BY <1>1, <1>2, NoEarlier
  <1> HIDE DEF i, o, c, s, d, body
  <1>6. q \in Nat /\ m \in Nat /\ q + m = s + c /\ 0 <= m
    BY <1>3, <1>4
  <1>7. \A k \in 1 .. m : body[q + k] = content[i][o + k]
    <2>1. ASSUME NEW k \in 1 .. m PROVE body[q + k] = content[i][o + k]
      <3>1. o + k \in 1 .. c /\ q + k = s + (o + k)
        BY <1>3, <1>4
      <3> QED
        BY <1>4, <3>1
    <2> QED
      BY <2>1
  <1>8. \A j \in 1 .. m : \E k \in 1 .. d : body[q + j + k - 1] # Delimiter[k]
    <2>1. ASSUME NEW j \in 1 .. m PROVE \E k \in 1 .. d : body[q + j + k - 1] # Delimiter[k]
      <3>1. o + j \in 1 .. c
        BY <1>3, <1>4
      <3>2. PICK k \in 1 .. d : body[s + (o + j) + k - 1] # Delimiter[k]
        BY <1>5, <3>1
      <3>3. s + (o + j) + k - 1 = q + j + k - 1
        BY <1>2, <1>3, <1>4
      <3> QED
        BY <3>2, <3>3
    <2> QED
      BY <2>1
  <1> HIDE DEF q, m
  <1>9. /\ Found(Delimiter, 0) # {} =>
              m + Len(Delimiter) <= Len(buf) /\ First(Found(Delimiter, 0)) = m + 1
        /\ Found(Delimiter, 0) = {} => Len(buf) < m + Len(Delimiter)
        /\ wire = <<>> /\ Found(Delimiter, 0) = {} => hungUp
    <2> DEFINE from == 0
    <2>1. from \in Nat /\ from <= m /\ Len(Delimiter) \in Nat \ {0}
      BY <1>2, <1>6 DEF d
    <2>2. Ahead(Delimiter, q, m)
      <3>1. q + m + Len(Delimiter) <= Len(Body(content))
        BY <1>2, <1>4, <1>6 DEF d, body
      <3>2. \A k \in 1 .. Len(Delimiter) : Body(content)[q + m + k] = Delimiter[k]
        BY <1>4, <1>6 DEF d, body
      <3>3. \A j \in 1 .. m : \E k \in 1 .. Len(Delimiter) : Body(content)[q + j + k - 1] # Delimiter[k]
        BY <1>8 DEF d, body
      <3> QED
        BY <3>1, <3>2, <3>3 DEF Ahead
    <2>3. StreamTypes /\ Delimiter \in Seq(Symbols)
      BY <1>2
    <2>4. Behind(q) /\ m \in Nat
      BY <1>1, <1>6 DEF q, s, o, i
    <2> HIDE DEF from
    <2>5. /\ Found(Delimiter, from) # {} =>
                m + Len(Delimiter) <= Len(buf) /\ First(Found(Delimiter, from)) = m + 1
          /\ Found(Delimiter, from) = {} => Len(buf) < m + Len(Delimiter)
          /\ wire = <<>> /\ Found(Delimiter, from) = {} => hungUp
      BY <2>1, <2>2, <2>3, <2>4, NeedleAhead
    <2> QED
      BY <2>5 DEF from
  <1>10. /\ q = Start(content, atPart) + Len(out[atPart])
         /\ m = Len(content[atPart]) - Len(out[atPart])
    BY DEF q, m, s, o, c, i
  <1> QED
    BY <1>1, <1>2, <1>3, <1>4, <1>6, <1>7, <1>9, <1>10 DEF i, o, c, d, body

\* What the streams have delivered is within what was declared, so a part has
\* the whole of the request's room for what its own declaration leaves.
LEMMA RoomForTheRest ==
    ASSUME MultipartInv, NEW i \in Parts, NEW n \in Nat, Len(out[i]) + n <= size[i]
    PROVE  Total([j \in Parts |-> Len(out[j])]) + n <= MaxBytes
  <1> DEFINE f == [j \in Parts |-> Len(out[j])]
  <1>1. /\ StreamTypes /\ out \in [Parts -> Seq(Heard)] /\ size \in [Parts -> 0 .. MaxBytes]
        /\ MaxBytes \in Nat /\ Total(size) <= MaxBytes /\ PartCount \in Nat
    BY MultipartAssumption DEF MultipartInv, StreamTypes
  <1>2. f \in [Parts -> Nat]
    BY <1>1, LenProperties
  <1>3. \A j \in Parts : f[j] <= size[j]
    BY DEF MultipartInv, StreamsInv
  <1>4. size \in [Parts -> Nat] /\ f[i] + n <= size[i]
    BY <1>1
  <1>5. IsFiniteSet(Parts)
    BY <1>1, FS_Interval DEF Parts
  <1> HIDE DEF f
  <1>6. /\ Total(f) \in Nat /\ Total(size) \in Nat
        /\ \A a \in Parts, k \in Nat : f[a] + k <= size[a] => Total(f) + k <= Total(size)
    <2> DEFINE E == Parts
               D == Parts
    <2>1. /\ IsFiniteSet(E) /\ size \in [E -> Nat] /\ D \in SUBSET E /\ f \in [D -> Nat]
          /\ \A j \in D : f[j] <= size[j]
      BY <1>2, <1>3, <1>4, <1>5
    <2> HIDE DEF E, D
    <2>2. /\ Total(f) \in Nat /\ Total(size) \in Nat
          /\ \A a \in D, k \in Nat : f[a] + k <= size[a] => Total(f) + k <= Total(size)
      BY <2>1, TotalWithRoom
    <2> QED
      BY <2>2 DEF D
  <1>7. Total(f) + n <= Total(size)
    BY <1>4, <1>6
  <1>8. Total(f) + n <= MaxBytes
    <2>1. Total(f) \in Nat /\ Total(size) \in Nat /\ Total(size) <= MaxBytes /\ MaxBytes \in Nat
      BY <1>1, <1>6
    <2> QED
      BY <1>7, <2>1
  <1> QED
    BY <1>8 DEF f

LEMMA OutTotal == ASSUME MultipartInv PROVE Total([j \in Parts |-> Len(out[j])]) \in Nat
  <1> DEFINE f == [j \in Parts |-> Len(out[j])]
  <1>1. out \in [Parts -> Seq(Heard)] /\ PartCount \in Nat
    BY MultipartAssumption DEF MultipartInv, StreamTypes
  <1>2. f \in [Parts -> Nat]
    BY <1>1, LenProperties
  <1>3. IsFiniteSet(Parts)
    BY <1>1, FS_Interval DEF Parts
  <1> HIDE DEF f
  <1> DEFINE E == Parts
             D == Parts
  <1>4. /\ IsFiniteSet(E) /\ f \in [E -> Nat] /\ D \in SUBSET E /\ f \in [D -> Nat]
        /\ \A j \in D : f[j] <= f[j]
    BY <1>2, <1>3
  <1> HIDE DEF E, D
  <1>5. Total(f) \in Nat
    BY <1>4, TotalWithRoom
  <1> QED
    BY <1>5 DEF f

\* The part gets what is before the delimiter, or fails at its declared size.
LEMMA YieldKeeps ==
    ASSUME MultipartInv, reading = "body", NEW n \in Nat \ {0}, n <= Len(buf),
           n <= Len(content[atPart]) - Len(out[atPart]), Yield(n)
    PROVE  MultipartInv'
  <1> DEFINE i == atPart
             o == Len(out[i])
             c == Len(content[i])
             q == Start(content, i) + o
             m == c - o
  <1>1. /\ i \in Parts /\ status[i] = "reading" /\ searched = 0 /\ Behind(q)
        /\ q \in Nat /\ m \in Nat /\ o \in Nat /\ c \in Nat /\ size[i] \in Nat
        /\ Len(buf) <= MaxChunk + Len(Delimiter) - 1
        /\ \A k \in 1 .. m : Body(content)[q + k] = content[i][o + k]
    BY BodyPlace
  <1>2. /\ StreamTypes /\ StreamsInv /\ buf \in Seq(Heard) /\ wire \in Seq(Heard) /\ hungUp \in BOOLEAN
        /\ atPart \in 1 .. PartCount + 1 /\ out \in [Parts -> Seq(Heard)]
        /\ status \in [Parts -> {"unread", "reading", "whole", "failed", "cancelled"}]
        /\ Len(buf) \in Nat /\ MaxChunk \in Nat /\ Len(Delimiter) \in Nat /\ content \in [Parts -> Payloads]
    BY StreamTyped DEF MultipartInv, StreamTypes, MultipartTypeOK
  <1>3. /\ Take(n) /\ UNCHANGED <<content, size, hungUp, wire, searched, atPart>>
        /\ IF o + n > size[i] \/ Total([j \in Parts |-> Len(out[j])]) + n > MaxBytes
           THEN /\ reading' = "failed" /\ status' = [status EXCEPT ![i] = "failed"] /\ UNCHANGED out
           ELSE /\ out' = [out EXCEPT ![i] = @ \o SubSeq(buf, 1, n)] /\ UNCHANGED <<reading, status>>
    BY DEF Yield, sender
  <1>4. n <= m /\ n <= c - o
    OBVIOUS
  <1>5. Len(content[i]) = c /\ Len(out[i]) = o
    OBVIOUS
  <1>6. /\ buf' \in Seq(Heard) /\ Len(buf') \in Nat /\ Len(buf') = Len(buf) - n
        /\ Arrived(q + n, Body(content), buf', wire, hungUp)
    <2>1. n \in 0 .. Len(buf)
      BY <1>2
    <2> HIDE DEF q
    <2> QED
      BY <1>1, <1>2, <1>3, <2>1, TakeSteps
  <1>7. searched' \in 0 .. Len(buf')
    BY <1>1, <1>3, <1>6
  <1>8. CASE o + n > size[i]
    <2>1. /\ reading' = "failed" /\ out' = out
          /\ status' = [status EXCEPT ![i] = "failed"]
      BY <1>3, <1>8
    <2>2. size[i] # Len(content[i])
      <3> HIDE DEF o, c
      <3> QED
        BY <1>1, <1>4, <1>5, <1>8
    <2>3. /\ status' \in [Parts -> {"unread", "reading", "whole", "failed", "cancelled"}]
          /\ status'[i] = "failed" /\ \A j \in Parts \ {i} : status'[j] = status[j]
      BY <1>1, <1>2, <2>1
    <2>4. StreamTypes'
      BY <1>2, <1>3, <1>6, <1>7, <2>1, <2>3, StreamTypesKept
    <2>5. \A j \in Parts : Untouched(j)' => Untouched(j)
      BY <1>1, <1>3, <2>1, <2>3 DEF Untouched
    <2>6. StreamsInv'
      BY <1>2, <1>3, <2>1, <2>2, <2>3, <2>5, StreamsKept
    <2>7. ReaderInv'
      BY <2>1 DEF ReaderInv
    <2> QED
      BY <2>4, <2>6, <2>7 DEF MultipartInv
  <1>9. CASE ~(o + n > size[i])
    <2>1. o + n <= size[i]
      <3> HIDE DEF o
      <3> QED
        BY <1>1, <1>9
    <2>2. ~(Total([j \in Parts |-> Len(out[j])]) + n > MaxBytes)
      <3> DEFINE t == Total([j \in Parts |-> Len(out[j])]) + n
      <3>1. t <= MaxBytes
        BY <1>1, <2>1, RoomForTheRest
      <3> HIDE DEF t
      <3>2. t \in Int /\ MaxBytes \in Nat
        <4>1. Total([j \in Parts |-> Len(out[j])]) \in Nat
          BY OutTotal
        <4> QED
          BY <4>1, MultipartAssumption DEF t
      <3>3. ~(t > MaxBytes)
        BY <3>1, <3>2
      <3> QED
        BY <3>3 DEF t
    <2> DEFINE new == SubSeq(buf, 1, n)
    <2>3. out' = [out EXCEPT ![i] = out[i] \o new] /\ UNCHANGED <<reading, status>>
      BY <1>3, <1>9, <2>2
    <2>4. new \in Seq(Heard) /\ Len(new) = n /\ \A k \in 1 .. n : new[k] = buf[k]
      <3>1. 1 \in 1 .. Len(buf) + 1 /\ n \in 1 - 1 .. Len(buf) /\ n - 1 + 1 = n
        BY <1>2
      <3>2. /\ new \in Seq(Heard) /\ Len(new) = n - 1 + 1
            /\ \A k \in 1 .. n - 1 + 1 : new[k] = buf[1 + k - 1]
        BY <1>2, <3>1, SliceAt
      <3>3. \A k \in 1 .. n : 1 + k - 1 = k
        OBVIOUS
      <3> QED
        BY <3>1, <3>2, <3>3
    <2> HIDE DEF new
    <2> DEFINE longer == out[i] \o new
    <2>5. /\ longer \in Seq(Heard) /\ Len(longer) = o + n
          /\ \A k \in 1 .. o : longer[k] = out[i][k]
          /\ \A k \in 1 .. n : longer[o + k] = new[k]
      <3>1. out[i] \in Seq(Heard) /\ new \in Seq(Heard)
        BY <1>1, <1>2, <2>4
      <3>2. /\ longer \in Seq(Heard) /\ Len(longer) = Len(out[i]) + Len(new)
            /\ \A k \in 1 .. Len(out[i]) : longer[k] = out[i][k]
            /\ \A k \in 1 .. Len(new) : longer[Len(out[i]) + k] = new[k]
        BY <3>1, JoinAt
      <3> QED
        BY <2>4, <3>2
    <2>6. out' \in [Parts -> Seq(Heard)] /\ out'[i] = longer /\ \A j \in Parts \ {i} : out'[j] = out[j]
      <3> HIDE DEF longer
      <3>1. longer \in Seq(Heard) /\ out' = [out EXCEPT ![i] = longer]
        BY <2>3, <2>5 DEF longer
      <3> QED
        BY <1>1, <1>2, <3>1
    <2> HIDE DEF longer
    <2>7. \A k \in 1 .. o + n : longer[k] = content[i][k]
      <3> SUFFICES ASSUME NEW k \in 1 .. o + n PROVE longer[k] = content[i][k]
        OBVIOUS
      <3>1. CASE k \in 1 .. o
        <4>1. longer[k] = out[i][k]
          BY <2>5, <3>1
        <4>2. out[i][k] = content[i][k]
          BY <1>1, <1>2, <3>1 DEF StreamsInv
        <4> QED
          BY <4>1, <4>2
      <3>2. CASE k \notin 1 .. o
        <4> DEFINE d == k - o
        <4> HIDE DEF o, m, q
        <4>1. d \in 1 .. n /\ d \in 1 .. m /\ k = o + d /\ d \in 1 .. Len(buf)
          BY <1>1, <1>2, <1>4, <3>2
        <4> HIDE DEF d
        <4>2. longer[k] = buf[d]
          BY <2>4, <2>5, <4>1
        <4>3. buf[d] = Body(content)[q + d]
          BY <1>1, <4>1, BufferedIs
        <4>4. Body(content)[q + d] = content[i][o + d]
          BY <1>1, <4>1
        <4> QED
          BY <4>1, <4>2, <4>3, <4>4
      <3> QED
        BY <3>1, <3>2
    <2>8. o + n <= c
      <3> HIDE DEF o, c
      <3> QED
        BY <1>1, <1>4
    <2>9. StreamTypes'
      BY <1>2, <1>3, <1>6, <1>7, <2>3, <2>6, StreamTypesKept
    <2>10. StreamsInv'
      <3> SUFFICES ASSUME NEW j \in Parts
                   PROVE  /\ Len(out'[j]) <= Len(content[j]) /\ Len(out'[j]) <= size[j]
                          /\ \A k \in 1 .. Len(out'[j]) : out'[j][k] = content[j][k]
                          /\ status[j] = "whole" => Len(out'[j]) = Len(content[j])
                          /\ status[j] = "failed" => hungUp \/ size[j] # Len(content[j])
                          /\ Untouched(j)' => out'[j] = <<>>
        <4>1. UNCHANGED <<content, size, hungUp, status>>
          BY <1>3, <2>3
        <4> QED
          BY <4>1 DEF StreamsInv
      <3>1. CASE j = i
        <4>1. ~Untouched(j)'
          BY <1>1, <1>2, <1>3, <2>3, <3>1 DEF Untouched, Parts
        <4> HIDE DEF o, c, i
        <4> QED
          BY <1>1, <1>5, <2>1, <2>5, <2>6, <2>7, <2>8, <3>1, <4>1
      <3>2. CASE j # i
        <4>1. out'[j] = out[j] /\ (Untouched(j)' => Untouched(j))
          BY <1>3, <2>3, <2>6, <3>2 DEF Untouched
        <4> QED
          BY <1>2, <4>1 DEF StreamsInv
      <3> QED
        BY <3>1, <3>2
    <2>11. Arrived(Start(content, i) + Len(out'[i]), Body(content), buf', wire', hungUp)
      <3>1. Start(content, i) + (o + n) = q + n
        <4>1. Start(content, i) \in Nat
          BY <1>1, <1>2, ContentPlace
        <4> HIDE DEF i, o
        <4> QED
          BY <1>1, <4>1
      <3> QED
        BY <1>3, <1>6, <2>5, <2>6, <3>1
    <2>12. Len(buf') <= MaxChunk + Len(Delimiter) - 1
      <3>1. Len(buf') <= Len(buf)
        BY <1>2, <1>6
      <3> QED
        BY <1>1, <1>2, <1>6, <3>1
    <2>13. ReaderInv'
      BY <1>1, <1>3, <2>3, <2>11, <2>12 DEF ReaderInv, Behind
    <2> QED
      BY <2>9, <2>10, <2>13 DEF MultipartInv
  <1> QED
    BY <1>8, <1>9

\* The delimiter right ahead.
LEMMA PartEndsKeeps ==
    ASSUME MultipartInv, reading = "body", Len(out[atPart]) = Len(content[atPart]),
           Len(Delimiter) <= Len(buf), PartEnds
    PROVE  MultipartInv'
  <1> DEFINE i == atPart
             q == Start(content, i) + Len(out[i])
             d == Len(Delimiter)
  <1>1. /\ i \in Parts /\ status[i] = "reading" /\ searched = 0 /\ Behind(q)
        /\ Len(buf) <= MaxChunk + d - 1 /\ q = Start(content, i) + Len(content[i])
    BY BodyPlace
  <1>2. /\ StreamTypes /\ StreamsInv /\ buf \in Seq(Heard) /\ wire \in Seq(Heard) /\ hungUp \in BOOLEAN
        /\ i \in 1 .. PartCount + 1 /\ out \in [Parts -> Seq(Heard)] /\ PartCount \in Nat
        /\ status \in [Parts -> {"unread", "reading", "whole", "failed", "cancelled"}]
        /\ Len(buf) \in Nat /\ MaxChunk \in Nat /\ d \in Nat \ {0} /\ content \in [Parts -> Payloads]
    BY StreamTyped, MultipartAssumption DEF MultipartInv, StreamTypes, MultipartTypeOK
  <1>3. /\ Take(d) /\ UNCHANGED <<content, size, hungUp, wire, searched, out>>
        /\ IF Len(out[i]) = size[i]
           THEN status' = [status EXCEPT ![i] = "whole"] /\ atPart' = i + 1 /\ reading' = "idle"
           ELSE status' = [status EXCEPT ![i] = "failed"] /\ reading' = "failed" /\ UNCHANGED atPart
    BY DEF PartEnds, sender
  <1>4. /\ buf' \in Seq(Heard) /\ Len(buf') \in Nat /\ Len(buf') = Len(buf) - d
        /\ Arrived(q + d, Body(content), buf', wire, hungUp)
    <2>1. d \in 0 .. Len(buf)
      BY <1>2
    <2> HIDE DEF q, d
    <2> QED
      BY <1>1, <1>2, <1>3, <2>1, TakeSteps
  <1>5. searched' \in 0 .. Len(buf')
    BY <1>1, <1>3, <1>4
  <1>6. CASE Len(out[i]) = size[i]
    <2>1. /\ status' = [status EXCEPT ![i] = "whole"] /\ atPart' = i + 1 /\ reading' = "idle"
          /\ i \in Nat /\ i + 1 \in 1 .. PartCount + 1
      BY <1>1, <1>2, <1>3, <1>6 DEF Parts
    <2>2. /\ status' \in [Parts -> {"unread", "reading", "whole", "failed", "cancelled"}]
          /\ status'[i] = "whole" /\ \A j \in Parts \ {i} : status'[j] = status[j]
      BY <1>1, <1>2, <2>1
    <2>3. StreamTypes'
      BY <1>2, <1>3, <1>4, <1>5, <2>1, <2>2, StreamTypesKept
    <2>4. ASSUME NEW j \in Parts, Untouched(j)' PROVE Untouched(j)
      <3>1. j \in Nat /\ (j > i + 1 \/ j = i + 1)
        BY <1>2, <2>1, <2>4 DEF Untouched, Parts
      <3>2. j > i
        BY <2>1, <3>1
      <3> QED
        BY <3>2 DEF Untouched
    <2>5. StreamsInv'
      BY <1>2, <1>3, <2>2, <2>4, StreamsKept
    <2>6. ASSUME i + 1 \in Parts
          PROVE  /\ Arrived(Start(content, i + 1) - 4, Body(content), buf', wire', hungUp)
                 /\ searched' = 0 /\ Len(buf') + 1 <= MaxChunk
      <3>1. Start(content, i + 1) - 4 = q + d
        BY <1>1, <1>2, <2>6, ContentPlace
      <3>2. Len(buf') + 1 <= MaxChunk
        <4> HIDE DEF d, q
        <4> QED
          BY <1>1, <1>2, <1>4
      <3> QED
        BY <1>1, <1>3, <1>4, <3>1, <3>2
    <2>7. ReaderInv'
      BY <1>3, <2>1, <2>6 DEF ReaderInv, Behind
    <2> QED
      BY <2>3, <2>5, <2>7 DEF MultipartInv
  <1>7. CASE Len(out[i]) # size[i]
    <2>1. /\ status' = [status EXCEPT ![i] = "failed"] /\ reading' = "failed" /\ UNCHANGED atPart
      BY <1>3, <1>7
    <2>2. /\ status' \in [Parts -> {"unread", "reading", "whole", "failed", "cancelled"}]
          /\ status'[i] = "failed" /\ \A j \in Parts \ {i} : status'[j] = status[j]
          /\ size[i] # Len(content[i])
      BY <1>1, <1>2, <1>7, <2>1
    <2>3. StreamTypes'
      BY <1>2, <1>3, <1>4, <1>5, <2>1, <2>2, StreamTypesKept
    <2>4. \A j \in Parts : Untouched(j)' => Untouched(j)
      BY <2>1, <2>2 DEF Untouched
    <2>5. StreamsInv'
      BY <1>2, <1>3, <2>2, <2>4, StreamsKept
    <2>6. ReaderInv'
      BY <2>1 DEF ReaderInv
    <2> QED
      BY <2>3, <2>5, <2>6 DEF MultipartInv
  <1> QED
    BY <1>6, <1>7

\* The three things a pull may find: the delimiter behind the rest of the part,
\* only a part of that rest, or too little to tell.
LEMMA PullKeeps == ASSUME MultipartInv, Pull PROVE MultipartInv'
  <1> DEFINE i == atPart
             o == Len(out[i])
             c == Len(content[i])
             q == Start(content, i) + o
             m == c - o
             d == Len(Delimiter)
             found == Found(Delimiter, 0)
  <1>1. reading = "body"
    BY DEF Pull
  <1>2. /\ i \in Parts /\ status[i] = "reading" /\ searched = 0 /\ Behind(q)
        /\ q \in Nat /\ m \in Nat /\ o \in Nat /\ c \in Nat
        /\ Len(buf) <= MaxChunk + d - 1
        /\ found # {} => m + d <= Len(buf) /\ First(found) = m + 1
        /\ found = {} => Len(buf) < m + d
        /\ wire = <<>> /\ found = {} => hungUp
    BY <1>1, BodyPlace
  <1>3. /\ StreamTypes /\ StreamsInv /\ hungUp \in BOOLEAN
        /\ i \in 1 .. PartCount + 1 /\ out \in [Parts -> Seq(Heard)]
        /\ status \in [Parts -> {"unread", "reading", "whole", "failed", "cancelled"}]
        /\ Len(buf) \in Nat /\ MaxChunk \in Nat /\ d \in Nat \ {0}
    BY StreamTyped DEF MultipartInv, StreamTypes, MultipartTypeOK
  <1>4. Safe = IF Len(buf) >= d THEN Len(buf) - (d - 1) ELSE 0
    BY DEF Safe
  <1>5. CASE found # {} /\ First(found) > 1 /\ Yield(First(found) - 1)
    <2>1. m + d <= Len(buf) /\ First(found) = m + 1
      BY <1>2, <1>5
    <2> HIDE DEF m, d, found
    <2>2. First(found) - 1 = m /\ m \in Nat \ {0} /\ m <= Len(buf)
      BY <1>2, <1>3, <1>5, <2>1
    <2>3. Yield(m)
      BY <1>5, <2>2
    <2>4. m <= Len(content[atPart]) - Len(out[atPart])
      BY <1>2 DEF m
    <2> QED
      BY <1>1, <2>2, <2>3, <2>4, YieldKeeps
  <1>6. CASE found # {} /\ First(found) = 1 /\ PartEnds
    <2>1. m + d <= Len(buf) /\ 1 = m + 1
      BY <1>2, <1>6
    <2>2. m = 0 /\ d <= Len(buf)
      <3> HIDE DEF m, d
      <3> QED
        BY <1>2, <1>3, <2>1
    <2>3. Len(out[atPart]) = Len(content[atPart])
      <3>1. c - o = 0 /\ Len(out[atPart]) = o /\ Len(content[atPart]) = c
        BY <2>2
      <3> HIDE DEF c, o
      <3> QED
        BY <1>2, <3>1
    <2> QED
      BY <1>1, <1>6, <2>2, <2>3, PartEndsKeeps
  <1>7. CASE found = {} /\ Safe > 0 /\ Yield(Safe)
    <2>1. Len(buf) < m + d
      BY <1>2, <1>7
    <2> HIDE DEF m, d
    <2>2. Safe = Len(buf) - (d - 1)
      BY <1>3, <1>4, <1>7
    <2>3. Safe \in Nat \ {0} /\ Safe <= Len(buf) /\ Safe <= m
      BY <1>2, <1>3, <1>7, <2>1, <2>2
    <2> DEFINE n == Safe
    <2>4. n \in Nat \ {0} /\ n <= Len(buf) /\ Yield(n) /\ n <= Len(content[atPart]) - Len(out[atPart])
      BY <1>7, <2>3 DEF m
    <2> HIDE DEF n
    <2> QED
      BY <1>1, <2>4, YieldKeeps
  <1>8. CASE found = {} /\ Safe = 0 /\ Fill /\ UNCHANGED <<sender, searched, reading, atPart, out, status>>
    <2>1. /\ buf' \in Seq(Heard) /\ wire' \in Seq(Heard) /\ Len(buf') \in Nat
          /\ Len(buf') <= Len(buf) + MaxChunk /\ Arrived(q, Body(content), buf', wire', hungUp)
      BY <1>2, <1>3, <1>8, FillSteps
    <2>2. Len(buf') <= MaxChunk + d - 1
      <3> HIDE DEF d
      <3>1. Len(buf) <= d - 1
        BY <1>3, <1>4, <1>8
      <3> QED
        BY <1>3, <2>1, <3>1
    <2>3. UNCHANGED <<content, size, hungUp, searched, reading, atPart, out, status>>
      BY <1>8 DEF sender
    <2>4. StreamTypes'
      <3>1. searched' \in 0 .. Len(buf')
        BY <1>2, <2>1, <2>3
      <3> QED
        BY <1>1, <1>3, <2>1, <2>3, <3>1, StreamTypesKept
    <2>5. \A j \in Parts : Untouched(j)' => Untouched(j)
      BY <2>3 DEF Untouched
    <2>6. StreamsInv'
      BY <1>3, <2>3, <2>5, StreamsKept
    <2>7. ReaderInv'
      BY <1>1, <1>2, <2>1, <2>2, <2>3 DEF ReaderInv, Behind
    <2> QED
      BY <2>4, <2>6, <2>7 DEF MultipartInv
  <1>9. CASE found = {} /\ Safe = 0 /\ Truncated
    <2>1. hungUp
      BY <1>2, <1>9 DEF Truncated
    <2> QED
      BY <1>1, <1>9, <2>1, TruncatedKeeps
  <1>10. \/ found # {} /\ First(found) > 1 /\ Yield(First(found) - 1)
         \/ found # {} /\ First(found) = 1 /\ PartEnds
         \/ found = {} /\ Safe > 0 /\ Yield(Safe)
         \/ found = {} /\ Safe = 0 /\ Fill /\ UNCHANGED <<sender, searched, reading, atPart, out, status>>
         \/ found = {} /\ Safe = 0 /\ Truncated
    BY DEF Pull
  <1> QED
    BY <1>5, <1>6, <1>7, <1>8, <1>9, <1>10

LEMMA CancelKeeps == ASSUME MultipartInv, Cancel PROVE MultipartInv'
  <1>1. /\ reading = "body" /\ reading' = "idle" /\ status' = [status EXCEPT ![atPart] = "cancelled"]
        /\ UNCHANGED <<content, size, hungUp, wire, buf, searched, atPart, out>>
    BY DEF Cancel, sender
  <1>2. /\ StreamTypes /\ StreamsInv /\ buf \in Seq(Heard) /\ wire \in Seq(Heard) /\ hungUp \in BOOLEAN
        /\ searched \in 0 .. Len(buf) /\ atPart \in 1 .. PartCount + 1 /\ out \in [Parts -> Seq(Heard)]
        /\ status \in [Parts -> {"unread", "reading", "whole", "failed", "cancelled"}]
    BY DEF MultipartInv, StreamTypes, MultipartTypeOK
  <1>3. atPart \in Parts
    BY <1>1, BodyPlace
  <1>4. /\ status' \in [Parts -> {"unread", "reading", "whole", "failed", "cancelled"}]
        /\ status'[atPart] = "cancelled" /\ \A j \in Parts \ {atPart} : status'[j] = status[j]
    BY <1>1, <1>2, <1>3
  <1>5. StreamTypes'
    BY <1>1, <1>2, <1>4, StreamTypesKept
  <1>6. \A j \in Parts : Untouched(j)' => Untouched(j)
    BY <1>1, <1>4 DEF Untouched
  <1>7. StreamsInv'
    BY <1>1, <1>2, <1>4, <1>6, StreamsKept
  <1>8. ReaderInv'
    BY <1>1, <1>4 DEF ReaderInv
  <1> QED
    BY <1>5, <1>7, <1>8 DEF MultipartInv

LEMMA DrainKeeps == ASSUME MultipartInv, Drain PROVE MultipartInv'
  <1>1. /\ reading' = "drained" /\ wire' \in {<<>>, wire}
        /\ UNCHANGED <<content, size, hungUp, buf, searched, atPart, out, status>>
    BY DEF Drain, sender
  <1>2. /\ StreamTypes /\ StreamsInv /\ buf \in Seq(Heard) /\ wire \in Seq(Heard) /\ hungUp \in BOOLEAN
        /\ searched \in 0 .. Len(buf) /\ atPart \in 1 .. PartCount + 1 /\ out \in [Parts -> Seq(Heard)]
        /\ status \in [Parts -> {"unread", "reading", "whole", "failed", "cancelled"}]
    BY DEF MultipartInv, StreamTypes, MultipartTypeOK
  <1>3. wire' \in Seq(Heard)
    BY <1>1, <1>2, EmptySeq
  <1>4. StreamTypes'
    BY <1>1, <1>2, <1>3, StreamTypesKept
  <1>5. \A j \in Parts : Untouched(j)' => Untouched(j)
    BY <1>1 DEF Untouched
  <1>6. StreamsInv'
    BY <1>1, <1>2, <1>5, StreamsKept
  <1>7. ReaderInv'
    BY <1>1 DEF ReaderInv
  <1> QED
    BY <1>4, <1>6, <1>7 DEF MultipartInv

LEMMA HangUpKeeps == ASSUME MultipartInv, HangUp PROVE MultipartInv'
  <1>1. /\ wire' = <<>> /\ hungUp' = TRUE
        /\ UNCHANGED <<content, size, buf, searched, reading, atPart, out, status>>
    BY DEF HangUp
  <1>2. /\ StreamTypes /\ StreamsInv /\ ReaderInv /\ buf \in Seq(Heard) /\ wire \in Seq(Heard)
        /\ searched \in 0 .. Len(buf) /\ atPart \in 1 .. PartCount + 1 /\ out \in [Parts -> Seq(Heard)]
        /\ status \in [Parts -> {"unread", "reading", "whole", "failed", "cancelled"}]
        /\ reading \in {"meta", "marker", "header", "body", "idle", "failed", "drained"}
    BY DEF MultipartInv, StreamTypes, MultipartTypeOK
  <1>3. wire' \in Seq(Heard)
    BY <1>1, EmptySeq
  <1>4. StreamTypes'
    BY <1>1, <1>2, <1>3, StreamTypesKept
  <1>5. \A j \in Parts : Untouched(j)' => Untouched(j)
    BY <1>1 DEF Untouched
  <1>6. StreamsInv'
    BY <1>1, <1>2, <1>5, StreamsKept
  <1>7. \A q : Behind(q) => Arrived(q, Body(content), buf', wire', hungUp')
    <2> SUFFICES ASSUME NEW q, Behind(q) PROVE Arrived(q, Body(content), buf', wire', hungUp')
      OBVIOUS
    <2> DEFINE body == Body(content)
               S == Heard
    <2>1. /\ Len(body) \in Nat /\ buf \in Seq(S) /\ wire \in Seq(S) /\ Arrived(q, body, buf, wire, hungUp)
      BY <1>2, StreamTyped DEF Behind
    <2> HIDE DEF body, S
    <2>2. Arrived(q, body, buf, <<>>, TRUE)
      BY <2>1, ArrivedCut
    <2> QED
      BY <1>1, <2>2 DEF body
  <1>8. ReaderInv'
    BY <1>1, <1>2, <1>7 DEF ReaderInv, Behind
  <1> QED
    BY <1>4, <1>6, <1>8 DEF MultipartInv

\* At first all of the body has yet to arrive.
LEMMA MultipartBegins == MultipartInit => MultipartInv
  <1> SUFFICES ASSUME MultipartInit PROVE MultipartInv
    OBVIOUS
  <1>1. /\ content \in [Parts -> Payloads] /\ size \in [Parts -> 0 .. MaxBytes] /\ Total(size) <= MaxBytes
        /\ wire = Body(content) /\ hungUp = FALSE /\ buf = <<>> /\ searched = 0
        /\ reading = "meta" /\ atPart = 1
        /\ out = [i \in Parts |-> <<>>] /\ status = [i \in Parts |-> "unread"]
        /\ PartCount \in Nat /\ MaxChunk \in Nat /\ MaxBytes \in Nat /\ Len(Delimiter) \in Nat
    BY MultipartAssumption, FramingShape DEF MultipartInit
  <1>2. Len(buf) = 0 /\ \A i \in Parts : out[i] = <<>> /\ Len(out[i]) = 0
    BY <1>1, EmptySeq
  <1>3. Len(Body(content)) \in Nat /\ DOMAIN Body(content) = 1 .. Len(Body(content))
    BY <1>1, BodyShape
  <1>4. Body(content) \in Seq(Heard)
    <2> DEFINE f == Body(content)
    <2>1. f = [k \in DOMAIN f |-> f[k]]
      BY DEF Body
    <2>2. \A k \in DOMAIN f : f[k] \in Heard
      BY DEF Heard
    <2> HIDE DEF f
    <2>3. f \in [DOMAIN f -> Heard]
      BY <2>1, <2>2
    <2>4. DOMAIN f = 1 .. Len(f) /\ Len(f) \in Nat
      BY <1>3 DEF f
    <2>5. f \in Seq(Heard)
      BY <2>3, <2>4, SeqDef
    <2> QED
      BY <2>5 DEF f
  <1>5. \A i \in Parts : Len(content[i]) \in Nat
    BY <1>1, ContentPlace
  <1>6. StreamTypes
    <2>1. buf \in Seq(Heard) /\ out \in [Parts -> Seq(Heard)]
      BY <1>1, EmptySeq
    <2>2. MultipartTypeOK
      BY <1>1, <1>2 DEF MultipartTypeOK
    <2> QED
      BY <1>1, <1>4, <2>1, <2>2 DEF StreamTypes
  <1>7. StreamsInv
    <2> SUFFICES ASSUME NEW i \in Parts
                 PROVE  /\ Len(out[i]) <= Len(content[i]) /\ Len(out[i]) <= size[i]
                        /\ \A k \in 1 .. Len(out[i]) : out[i][k] = content[i][k]
                        /\ status[i] = "whole" => Len(out[i]) = Len(content[i])
                        /\ status[i] = "failed" => hungUp \/ size[i] # Len(content[i])
                        /\ Untouched(i) => out[i] = <<>>
      BY DEF StreamsInv
    <2>1. out[i] = <<>> /\ Len(out[i]) = 0 /\ status[i] = "unread" /\ size[i] \in Nat
      BY <1>1, <1>2
    <2> QED
      BY <1>5, <2>1
  <1>8. Behind(0)
    <2> DEFINE q == 0
               body == Body(content)
    <2>1. \A k \in 1 .. Len(wire) : wire[k] = body[q + Len(buf) + k]
      <3>1. ASSUME NEW k \in 1 .. Len(wire) PROVE q + Len(buf) + k = k
        BY <1>2
      <3> QED
        BY <1>1, <3>1
    <2>2. q + Len(buf) + Len(wire) = Len(body)
      BY <1>1, <1>2, <1>3
    <2>3. 1 .. Len(buf) = {}
      BY <1>2
    <2>4. q \in Nat /\ q + Len(buf) + Len(wire) <= Len(body)
      BY <1>3, <2>2
    <2> QED
      BY <2>1, <2>2, <2>3, <2>4 DEF Behind, Arrived
  <1>9. ReaderInv
    BY <1>1, <1>2, <1>8 DEF ReaderInv
  <1> QED
    BY <1>6, <1>7, <1>9 DEF MultipartInv

LEMMA MultipartKept == MultipartInv /\ [MultipartNext]_multipartVars => MultipartInv'
  <1> SUFFICES ASSUME MultipartInv, [MultipartNext]_multipartVars PROVE MultipartInv'
    OBVIOUS
  <1>1. CASE Meta
    BY <1>1, MetaKeeps
  <1>2. CASE \E i \in Parts : Open(i)
    BY <1>2, OpenKeeps
  <1>3. CASE Marker
    BY <1>3, MarkerKeeps
  <1>4. CASE PartHeader
    BY <1>4, PartHeaderKeeps
  <1>5. CASE Pull
    BY <1>5, PullKeeps
  <1>6. CASE Cancel
    BY <1>6, CancelKeeps
  <1>7. CASE Drain
    BY <1>7, DrainKeeps
  <1>8. CASE HangUp
    BY <1>8, HangUpKeeps
  <1>9. CASE UNCHANGED multipartVars
    <2>1. /\ UNCHANGED <<content, size, wire, hungUp, buf, searched, reading, atPart, out, status>>
          /\ StreamTypes /\ StreamsInv /\ ReaderInv /\ MultipartTypeOK
          /\ buf \in Seq(Heard) /\ wire \in Seq(Heard) /\ hungUp \in BOOLEAN /\ out \in [Parts -> Seq(Heard)]
      BY <1>9 DEF multipartVars, MultipartInv, StreamTypes
    <2>2. StreamTypes'
      BY <2>1, StreamTypesKept DEF MultipartTypeOK
    <2>3. StreamsInv'
      <3>1. \A j \in Parts : Untouched(j)' => Untouched(j)
        BY <2>1 DEF Untouched
      <3> QED
        BY <2>1, <3>1, StreamsKept
    <2>4. ReaderInv'
      BY <2>1 DEF ReaderInv, Behind
    <2> QED
      BY <2>2, <2>3, <2>4 DEF MultipartInv
  <1> QED
    BY <1>1, <1>2, <1>3, <1>4, <1>5, <1>6, <1>7, <1>8, <1>9 DEF MultipartNext

\* A sequence whose elements begin another.
LEMMA BeginsWith ==
    ASSUME NEW S, NEW s \in Seq(S), NEW t \in Seq(S), Len(s) <= Len(t),
           \A k \in 1 .. Len(s) : s[k] = t[k]
    PROVE  IsPrefix(s, t)
  <1> DEFINE n == Len(s)
             one == 1
  <1>1. n \in Nat /\ Len(t) \in Nat /\ n <= Len(t)
    BY LenProperties
  <1>2. /\ one \in 1 .. Len(s) + 1 /\ n \in one - 1 .. Len(s)
        /\ one \in 1 .. Len(t) + 1 /\ n \in one - 1 .. Len(t) /\ n - one + 1 = n
        /\ \A k \in 1 .. n : one + k - 1 = k
    <2> HIDE DEF n
    <2>1. n <= n /\ Len(s) = n
      BY <1>1 DEF n
    <2> QED
      BY <1>1, <2>1
  <1>3. /\ SubSeq(s, one, n) \in Seq(S) /\ Len(SubSeq(s, one, n)) = n - one + 1
        /\ \A k \in 1 .. n - one + 1 : SubSeq(s, one, n)[k] = s[one + k - 1]
    <2> HIDE DEF n, one
    <2> QED
      BY <1>2, SliceAt
  <1>4. /\ SubSeq(t, one, n) \in Seq(S) /\ Len(SubSeq(t, one, n)) = n - one + 1
        /\ \A k \in 1 .. n - one + 1 : SubSeq(t, one, n)[k] = t[one + k - 1]
    <2> HIDE DEF n, one
    <2> QED
      BY <1>2, SliceAt
  <1> DEFINE a == SubSeq(s, one, n)
             b == SubSeq(t, one, n)
  <1>5. /\ a \in Seq(S) /\ b \in Seq(S) /\ Len(a) = n /\ Len(b) = n
        /\ \A k \in 1 .. n : a[k] = s[k] /\ b[k] = t[k]
    BY <1>2, <1>3, <1>4
  <1> HIDE DEF a, b
  <1>6. a = b
    <2>1. \A k \in 1 .. Len(a) : a[k] = b[k]
      BY <1>5
    <2> QED
      BY <1>5, <2>1, SeqEqual
  <1>7. SubSeq(s, 1, Len(s)) = SubSeq(t, 1, Len(s))
    BY <1>6 DEF a, b, n, one
  <1> QED
    BY <1>7 DEF IsPrefix

\* Where the reader is and what the streams have got is the whole of the
\* argument for the streams.
LEMMA StreamsFollow == MultipartInv => PartsGoThrough
  <1> SUFFICES ASSUME MultipartInv PROVE PartsGoThrough
    OBVIOUS
  <1>1. /\ content \in [Parts -> Payloads] /\ out \in [Parts -> Seq(Heard)]
        /\ Payloads \subseteq Seq(Symbols)
    BY MultipartAssumption DEF MultipartInv, StreamTypes, MultipartTypeOK
  <1>2. ASSUME NEW i \in Parts
        PROVE  /\ IsPrefix(out[i], content[i])
               /\ status[i] = "whole" => out[i] = content[i]
               /\ status[i] = "failed" => hungUp \/ size[i] # Len(content[i])
    <2> DEFINE s == out[i]
               t == content[i]
               S == Heard \cup Symbols
    <2>1. /\ Len(s) <= Len(t) /\ \A k \in 1 .. Len(s) : s[k] = t[k]
          /\ status[i] = "whole" => Len(s) = Len(t)
          /\ status[i] = "failed" => hungUp \/ size[i] # Len(content[i])
      BY DEF MultipartInv, StreamsInv
    <2>2. s \in Seq(S) /\ t \in Seq(S)
      BY <1>1, SeqMonotonic
    <2>3. IsPrefix(s, t)
      <3> HIDE DEF s, t, S
      <3> QED
        BY <2>1, <2>2, BeginsWith
    <2>4. status[i] = "whole" => s = t
      <3> HIDE DEF s, t, S
      <3> QED
        BY <2>1, <2>2, SeqEqual
    <2> QED
      BY <2>1, <2>3, <2>4
  <1>3. reading = "body" => Len(buf) <= MaxChunk + Len(Delimiter) - 1
    BY DEF MultipartInv, ReaderInv
  <1> QED
    BY <1>2, <1>3 DEF PartsGoThrough

\* The reader is always at a known place of the body, and the streams have what
\* is before it (multipart.ts, parseRpcMultipart).
THEOREM MultipartInvHolds == MultipartSpec => []MultipartInv
  <1>1. MultipartInit => MultipartInv
    BY MultipartBegins
  <1>2. MultipartInv /\ [MultipartNext]_multipartVars => MultipartInv'
    BY MultipartKept
  <1> QED
    BY <1>1, <1>2, PTL DEF MultipartSpec

\* What the request's streams deliver, however its body is cut into chunks,
\* whatever the parts hold and whatever is left unread: nothing but the part,
\* the whole of it if the stream ends well, and an error only for a reason
\* (multipart.ts, chunksUntil, readUntil and consumePart).
THEOREM StreamsDeliver == MultipartSpec => []PartsGoThrough
  <1>1. MultipartInv => PartsGoThrough
    BY StreamsFollow
  <1> QED
    BY <1>1, MultipartInvHolds, PTL

\* The reader's variables keep their types (multipart.ts).
THEOREM MultipartTypes == MultipartSpec => []MultipartTypeOK
  <1>1. MultipartInv => MultipartTypeOK
    BY DEF MultipartInv, StreamTypes
  <1> QED
    BY <1>1, MultipartInvHolds, PTL
=============================================================================
