--------------------------- MODULE LiveShadowProofs ---------------------------
(***************************************************************************)
(* Theorems about LiveShadow for any pool, page size, number of pages, row  *)
(* limit and number of deaths: types, NoDuplicateRows, BackfillMovesBack,   *)
(* CursorCovers and ReplayIsComplete.                                       *)
(***************************************************************************)
EXTENDS LiveShadow, FiniteSetTheorems, SequenceTheorems, TLAPS

-----------------------------------------------------------------------------
(***************************************************************************)
(* Files and appends.                                                      *)
(***************************************************************************)
\* No record stands on two lines of its own; lines are not empty, and only a file with a
\* line can be open.
Sound(file) ==
    /\ file.open => file.lines # <<>>
    /\ \A l \in DOMAIN file.lines : Len(file.lines[l]) > 0
    /\ \A l, m \in DOMAIN file.lines :
          l # m /\ Whole(file.lines[l]) => file.lines[l] # file.lines[m]

LEMMA KeysOf ==
    ASSUME NEW K, NEW file \in File(K)
    PROVE  /\ Keys(file) \subseteq K \ {Cut}
           /\ Keys(file) \subseteq Written(file)
           /\ \A l \in DOMAIN file.lines : Whole(file.lines[l]) => file.lines[l][1] \in Keys(file)
<1>1. file.lines \in Seq(Seq(K \cup {Cut}))
  BY DEF File
<1>2. \A l \in DOMAIN file.lines : file.lines[l] \in Seq(K \cup {Cut})
  BY <1>1
<1>3. \A l \in DOMAIN file.lines : Whole(file.lines[l]) =>
          /\ file.lines[l][1] \in K \ {Cut}
          /\ 1 \in DOMAIN file.lines[l]
  BY <1>2 DEF Whole
<1>. QED  BY <1>3 DEF Keys, Written

\* Records as lines.
LEMMA LinesOf ==
    ASSUME NEW T, NEW records \in Seq(T), records # <<>>
    PROVE  /\ Lines(records) \in Seq(Seq(T)) /\ Lines(records) # <<>>
           /\ Len(records) \in Nat \ {0} /\ Len(Lines(records)) = Len(records)
           /\ \A j \in 1..Len(records) : Lines(records)[j] = <<records[j]>> /\ records[j] \in T
<1>1. /\ Len(records) \in Nat \ {0} /\ DOMAIN records = 1..Len(records)
      /\ \A j \in 1..Len(records) : records[j] \in T
  BY EmptySeq, LenProperties, ElementOfSeq
<1>2. /\ DOMAIN Lines(records) = 1..Len(records)
      /\ \A j \in 1..Len(records) : Lines(records)[j] = <<records[j]>> /\ <<records[j]>> \in Seq(T)
  BY <1>1 DEF Lines
<1>3. Lines(records) \in [1..Len(records) -> Seq(T)]
  BY <1>1, <1>2 DEF Lines
<1>. QED  BY <1>1, <1>2, <1>3

\* The last line goes on.
LEMMA ContinuedLine ==
    ASSUME NEW T, NEW lines \in Seq(Seq(T)), lines # <<>>, NEW record \in T
    PROVE  /\ Continued(lines, record) \in Seq(Seq(T))
           /\ Len(lines) \in Nat \ {0} /\ Len(Continued(lines, record)) = Len(lines)
           /\ \A l \in 1..(Len(lines) - 1) : Continued(lines, record)[l] = lines[l]
           /\ Continued(lines, record)[Len(lines)] = Append(lines[Len(lines)], record)
<1>1. Len(lines) \in Nat \ {0} /\ Len(lines) \in 1..Len(lines)
  BY EmptySeq
<1>2. lines[Len(lines)] \in Seq(T)
  BY <1>1, ElementOfSeq
<1>3. Append(lines[Len(lines)], record) \in Seq(T)
  BY <1>2, AppendProperties
<1>. DEFINE e == Append(lines[Len(lines)], record)
<1>4. Continued(lines, record) = [lines EXCEPT ![Len(lines)] = e]
  BY DEF Continued
<1>. HIDE DEF e
<1>5. /\ [lines EXCEPT ![Len(lines)] = e] \in Seq(Seq(T))
      /\ Len([lines EXCEPT ![Len(lines)] = e]) = Len(lines)
      /\ \A j \in 1..Len(lines) :
           [lines EXCEPT ![Len(lines)] = e][j] = IF j = Len(lines) THEN e ELSE lines[j]
  BY <1>1, <1>3, ExceptSeq DEF e
<1>6. Len(lines) - 1 \in Nat /\ \A j \in 1..(Len(lines) - 1) : j \in 1..Len(lines) /\ j # Len(lines)
  BY <1>1
<1>7. \A j \in 1..(Len(lines) - 1) : [lines EXCEPT ![Len(lines)] = e][j] = lines[j]
  BY <1>5, <1>6, Zenon
<1>8. [lines EXCEPT ![Len(lines)] = e][Len(lines)] = e
  BY <1>1, <1>5, Zenon
<1>. QED  BY <1>1, <1>4, <1>5, <1>7, <1>8, Zenon DEF e

\* Two sequences one after the other.
LEMMA Glue ==
    ASSUME NEW S, NEW s \in Seq(S), NEW t \in Seq(S)
    PROVE  /\ s \o t \in Seq(S) /\ Len(s) \in Nat /\ Len(t) \in Nat
           /\ Len(s \o t) = Len(s) + Len(t)
           /\ \A l \in 1..Len(s) : (s \o t)[l] = s[l]
           /\ \A l \in (Len(s) + 1)..(Len(s) + Len(t)) : (s \o t)[l] = t[l - Len(s)]
<1>1. Len(s) \in Nat /\ Len(t) \in Nat
  BY LenProperties
<1>2. /\ s \o t \in Seq(S) /\ Len(s \o t) = Len(s) + Len(t)
      /\ \A l \in 1..Len(s) + Len(t) : (s \o t)[l] = IF l <= Len(s) THEN s[l] ELSE t[l - Len(s)]
  BY ConcatProperties
<1>. QED  BY <1>1, <1>2

\* An append after a torn line.
Extended(old, records) == Continued(old, records[1]) \o Tail(Lines(records))

Continues(T, old, records, x) ==
    /\ x \in Seq(Seq(T)) /\ Len(old) \in Nat \ {0} /\ Len(records) \in Nat \ {0}
    /\ Len(x) = Len(old) + Len(records) - 1
    /\ \A l \in 1..(Len(old) - 1) : x[l] = old[l]
    /\ x[Len(old)] = Append(old[Len(old)], records[1])
    /\ \A j \in 2..Len(records) : x[Len(old) + j - 1] = <<records[j]>>

\* The lines after an append that continues the last line.
LEMMA OpenLines ==
    ASSUME NEW T, NEW old \in Seq(Seq(T)), old # <<>>, NEW records \in Seq(T), records # <<>>
    PROVE  Continues(T, old, records, Extended(old, records))
<1>. DEFINE first == Continued(old, records[1])
            rest == Tail(Lines(records))
            x == first \o rest
<1>1. /\ Lines(records) \in Seq(Seq(T)) /\ Lines(records) # <<>>
      /\ Len(records) \in Nat \ {0} /\ Len(Lines(records)) = Len(records)
      /\ \A j \in 1..Len(records) : Lines(records)[j] = <<records[j]>> /\ records[j] \in T
  BY LinesOf
<1>2. records[1] \in T
  BY <1>1
<1>3. /\ first \in Seq(Seq(T)) /\ Len(old) \in Nat \ {0} /\ Len(first) = Len(old)
      /\ \A l \in 1..(Len(old) - 1) : first[l] = old[l]
      /\ first[Len(old)] = Append(old[Len(old)], records[1])
  <2>. DEFINE c == records[1]
  <2>1. c \in T
    BY <1>2
  <2>. HIDE DEF c
  <2>2. /\ Continued(old, c) \in Seq(Seq(T))
        /\ Len(old) \in Nat \ {0} /\ Len(Continued(old, c)) = Len(old)
        /\ \A l \in 1..(Len(old) - 1) : Continued(old, c)[l] = old[l]
        /\ Continued(old, c)[Len(old)] = Append(old[Len(old)], c)
    BY <2>1, ContinuedLine, ZenonT(60)
  <2>. QED  BY <2>2 DEF c
<1>4. /\ rest \in Seq(Seq(T)) /\ Len(rest) = Len(records) - 1
      /\ \A j \in 1..(Len(records) - 1) : rest[j] = Lines(records)[j + 1]
  BY <1>1, HeadTailProperties
<1>. HIDE DEF first, rest
<1>5. /\ x \in Seq(Seq(T)) /\ Len(x) = Len(first) + Len(rest)
      /\ \A l \in 1..Len(first) : x[l] = first[l]
      /\ \A l \in (Len(first) + 1)..(Len(first) + Len(rest)) : x[l] = rest[l - Len(first)]
  <2>1. first \in Seq(Seq(T)) /\ rest \in Seq(Seq(T))
    BY <1>3, <1>4
  <2>. QED  BY <2>1, Glue, ZenonT(60)
<1>. HIDE DEF x
<1>6. \A j \in 2..Len(records) : x[Len(old) + j - 1] = <<records[j]>>
  <2>. SUFFICES ASSUME NEW j \in 2..Len(records) PROVE x[Len(old) + j - 1] = <<records[j]>>
    OBVIOUS
  <2>. DEFINE l == Len(old) + j - 1
  <2>1. /\ l \in (Len(first) + 1)..(Len(first) + Len(rest)) /\ l - Len(first) = j - 1
        /\ j - 1 \in 1..(Len(records) - 1) /\ j - 1 + 1 = j /\ j \in 1..Len(records)
    BY <1>1, <1>3, <1>4
  <2>. HIDE DEF l
  <2>2. x[l] = rest[j - 1]
    <3>1. x[l] = rest[l - Len(first)]
      BY <1>5, <2>1, Zenon
    <3>. QED  BY <2>1, <3>1, Zenon
  <2>3. rest[j - 1] = Lines(records)[j]
    BY <1>4, <2>1
  <2>. QED  BY <1>1, <2>1, <2>2, <2>3, Zenon DEF l
<1>7. /\ Len(x) = Len(old) + Len(records) - 1
      /\ \A l \in 1..(Len(old) - 1) : x[l] = old[l]
      /\ x[Len(old)] = Append(old[Len(old)], records[1])
  <2>1. /\ Len(first) + Len(rest) = Len(old) + Len(records) - 1
        /\ Len(old) \in 1..Len(first)
        /\ \A l \in 1..(Len(old) - 1) : l \in 1..Len(first)
    BY <1>1, <1>3, <1>4, SMTT(60)
  <2>. QED  BY <1>3, <1>5, <2>1, Zenon
<1>8. Continues(T, old, records, x)
  BY <1>1, <1>3, <1>5, <1>6, <1>7, Zenon DEF Continues
<1>. QED  BY <1>8, Zenon DEF x, first, rest, Extended

\* What stands where after an append: an old line, a line of two or more, or a record.
Placed(old, records, x, d) ==
    \A l \in DOMAIN x : \/ l \in DOMAIN old /\ x[l] = old[l]
                        \/ Len(x[l]) > 1
                        \/ \E j \in DOMAIN records : l = d + j /\ x[l] = <<records[j]>>

\* What was written before, and every record, is written after.
Kept(old, records, x) ==
    /\ \A l \in DOMAIN old : \E m \in DOMAIN x : \A j \in DOMAIN old[l] :
            j \in DOMAIN x[m] /\ x[m][j] = old[l][j]
    /\ \A k \in DOMAIN records : \E m \in DOMAIN x : \E j \in DOMAIN x[m] : x[m][j] = records[k]

LEMMA ClosedShape ==
    ASSUME NEW T, NEW old \in Seq(Seq(T)), NEW records \in Seq(T), records # <<>>
    PROVE  LET x == old \o Lines(records)
           IN  /\ x \in Seq(Seq(T)) /\ x # <<>>
               /\ Placed(old, records, x, Len(old)) /\ Kept(old, records, x)
<1>. DEFINE x == old \o Lines(records)
<1>1. /\ Lines(records) \in Seq(Seq(T))
      /\ Len(records) \in Nat \ {0} /\ Len(Lines(records)) = Len(records)
      /\ \A j \in 1..Len(records) : Lines(records)[j] = <<records[j]>>
  BY LinesOf
<1>2. /\ x \in Seq(Seq(T)) /\ Len(old) \in Nat
      /\ Len(x) = Len(old) + Len(Lines(records))
      /\ \A l \in 1..Len(old) : x[l] = old[l]
      /\ \A l \in (Len(old) + 1)..(Len(old) + Len(Lines(records))) :
            x[l] = Lines(records)[l - Len(old)]
  BY <1>1, Glue, ZenonT(60)
<1>. HIDE DEF x
<1>3. ASSUME NEW j \in 1..Len(records) PROVE x[Len(old) + j] = <<records[j]>>
  <2>. DEFINE l == Len(old) + j
  <2>1. l \in (Len(old) + 1)..(Len(old) + Len(Lines(records))) /\ l - Len(old) = j
    <3>1. Len(old) \in Nat /\ Len(records) \in Nat /\ Len(Lines(records)) = Len(records)
      BY <1>1, <1>2
    <3>. QED  BY <3>1
  <2>. HIDE DEF l
  <2>2. x[l] = Lines(records)[l - Len(old)]
    BY <1>2, <2>1, Zenon
  <2>. QED  BY <1>1, <2>1, <2>2, Zenon DEF l
<1>4. /\ x \in Seq(Seq(T)) /\ Len(old) \in Nat /\ Len(records) \in Nat \ {0}
      /\ Len(x) = Len(old) + Len(records)
      /\ \A l \in 1..Len(old) : x[l] = old[l]
      /\ \A j \in 1..Len(records) : x[Len(old) + j] = <<records[j]>>
  BY <1>1, <1>2, <1>3, Zenon
<1>5. DOMAIN old = 1..Len(old) /\ DOMAIN x = 1..Len(x) /\ DOMAIN records = 1..Len(records)
  BY <1>4, LenProperties
<1>6. \A l \in DOMAIN x : l \in DOMAIN old \/ \E j \in DOMAIN records : l = Len(old) + j
  <2>. SUFFICES ASSUME NEW l \in DOMAIN x, l \notin DOMAIN old
                PROVE  \E j \in DOMAIN records : l = Len(old) + j
    OBVIOUS
  <2>1. l - Len(old) \in DOMAIN records /\ l = Len(old) + (l - Len(old))
    BY <1>4, <1>5, SMTT(60)
  <2>. QED  BY <2>1
<1>7. Placed(old, records, x, Len(old))
  <2>1. \A l \in DOMAIN old : x[l] = old[l]
    BY <1>4, <1>5
  <2>2. \A j \in DOMAIN records : x[Len(old) + j] = <<records[j]>>
    BY <1>4, <1>5
  <2>. QED  BY <1>6, <2>1, <2>2, Zenon DEF Placed
<1>8. \A l \in DOMAIN old : l \in DOMAIN x
  BY <1>4, <1>5
<1>9. \A k \in DOMAIN records : Len(old) + k \in DOMAIN x
  BY <1>4, <1>5, SMTT(60)
<1>10. \A r : 1 \in DOMAIN <<r>> /\ <<r>>[1] = r
  OBVIOUS
<1>11. \A k \in DOMAIN records : \E m \in DOMAIN x : \E j \in DOMAIN x[m] : x[m][j] = records[k]
  <2>. SUFFICES ASSUME NEW k \in DOMAIN records
                PROVE  \E m \in DOMAIN x : \E j \in DOMAIN x[m] : x[m][j] = records[k]
    OBVIOUS
  <2>1. x[Len(old) + k] = <<records[k]>>
    BY <1>4, <1>5, Zenon
  <2>2. 1 \in DOMAIN x[Len(old) + k] /\ x[Len(old) + k][1] = records[k]
    BY <1>10, <2>1
  <2>. QED  BY <1>9, <2>2, Zenon
<1>12. \A l \in DOMAIN old : \E m \in DOMAIN x : \A j \in DOMAIN old[l] :
          j \in DOMAIN x[m] /\ x[m][j] = old[l][j]
  BY <1>4, <1>5, <1>8, Zenon
<1>13. x # <<>>
  BY <1>4, <1>5
<1>. QED  BY <1>4, <1>7, <1>11, <1>12, <1>13, Zenon DEF Kept, x

LEMMA OpenShape ==
    ASSUME NEW T, NEW old \in Seq(Seq(T)), old # <<>>, \A l \in DOMAIN old : Len(old[l]) > 0,
           NEW records \in Seq(T), records # <<>>
    PROVE  LET x == Extended(old, records)
           IN  /\ x \in Seq(Seq(T)) /\ x # <<>>
               /\ Placed(old, records, x, Len(old) - 1) /\ Kept(old, records, x)
<1>. DEFINE b == Len(old)
            x == Extended(old, records)
<1>1. /\ x \in Seq(Seq(T)) /\ b \in Nat \ {0} /\ Len(records) \in Nat \ {0}
      /\ Len(x) = b + Len(records) - 1
      /\ \A l \in 1..(b - 1) : x[l] = old[l]
      /\ x[b] = Append(old[b], records[1])
      /\ \A j \in 2..Len(records) : x[b + j - 1] = <<records[j]>>
  <2>1. Continues(T, old, records, x)
    BY OpenLines, Zenon
  <2>. HIDE DEF x
  <2>. QED  BY <2>1, Zenon DEF Continues
<1>. HIDE DEF x
<1>2. /\ DOMAIN old = 1..b /\ DOMAIN x = 1..(b + Len(records) - 1)
      /\ DOMAIN records = 1..Len(records) /\ b \in Nat \ {0} /\ Len(records) \in Nat \ {0}
  BY <1>1, LenProperties
<1>3. /\ Len(old[b]) > 0 /\ old[b] \in Seq(T) /\ records[1] \in T
      /\ b \in DOMAIN old /\ b \in DOMAIN x /\ 1 \in DOMAIN records
  <2>1. b \in DOMAIN old /\ b \in DOMAIN x /\ 1 \in DOMAIN records
    BY <1>2
  <2>. QED  BY <1>2, <2>1, ElementOfSeq
<1>. DEFINE line == old[b]
            record == records[1]
<1>4. /\ Len(x[b]) = Len(line) + 1 /\ Len(line) \in Nat /\ Len(line) > 0
      /\ DOMAIN line = 1..Len(line) /\ DOMAIN x[b] = 1..Len(line) + 1
      /\ \A j \in 1..Len(line) : x[b][j] = line[j]
      /\ x[b][Len(line) + 1] = record
  <2>1. x[b] = Append(line, record) /\ line \in Seq(T) /\ record \in T /\ Len(line) > 0
    BY <1>1, <1>3
  <2>. HIDE DEF line, record
  <2>2. /\ Append(line, record) \in Seq(T) /\ Len(Append(line, record)) = Len(line) + 1
        /\ \A j \in 1..Len(line) : Append(line, record)[j] = line[j]
        /\ Append(line, record)[Len(line) + 1] = record
    BY <2>1, AppendProperties
  <2>3. /\ Len(line) \in Nat /\ DOMAIN line = 1..Len(line)
        /\ DOMAIN Append(line, record) = 1..Len(line) + 1
    BY <2>1, <2>2, LenProperties
  <2>. QED  BY <2>1, <2>2, <2>3, Zenon
<1>. HIDE DEF b, line, record
<1>5. \A l \in DOMAIN x : \/ l \in 1..(b - 1) \/ l = b
                          \/ \E j \in 2..Len(records) : l = b + j - 1 /\ l = b - 1 + j
  <2>. SUFFICES ASSUME NEW l \in DOMAIN x, l \notin 1..(b - 1), l # b
                PROVE  \E j \in 2..Len(records) : l = b + j - 1 /\ l = b - 1 + j
    OBVIOUS
  <2>. DEFINE j == l - b + 1
  <2>1. j \in 2..Len(records) /\ l = b + j - 1 /\ l = b - 1 + j
    BY <1>2, SMTT(60)
  <2>. HIDE DEF j
  <2>. QED  BY <2>1, Zenon
<1>6. /\ \A l \in 1..(b - 1) : l \in DOMAIN old /\ l \in DOMAIN x
      /\ \A j \in 2..Len(records) : j \in DOMAIN records
      /\ \A k \in DOMAIN records : k = 1 \/ (k \in 2..Len(records) /\ b + k - 1 \in DOMAIN x)
      /\ \A l \in DOMAIN old : l \in 1..(b - 1) \/ l = b
  BY <1>2, SMTT(60)
<1>7. Placed(old, records, x, b - 1)
  <2>1. Len(x[b]) > 1
    <3>. DEFINE n == Len(x[b])
                m == Len(line)
    <3>1. n = m + 1 /\ m \in Nat /\ m > 0
      BY <1>4
    <3>. HIDE DEF n, m
    <3>2. n > 1
      BY <3>1
    <3>. QED  BY <3>2 DEF n
  <2>2. \A l \in 1..(b - 1) : l \in DOMAIN old /\ x[l] = old[l]
    BY <1>1, <1>6, Zenon
  <2>. QED  BY <1>1, <1>5, <1>6, <2>1, <2>2, ZenonT(60) DEF Placed
<1>8. \A l \in DOMAIN old : \E m \in DOMAIN x : \A j \in DOMAIN old[l] :
          j \in DOMAIN x[m] /\ x[m][j] = old[l][j]
  <2>1. \A l \in 1..(b - 1) : l \in DOMAIN x /\ x[l] = old[l]
    BY <1>1, <1>6, Zenon
  <2>2. \A j \in DOMAIN old[b] : j \in DOMAIN x[b] /\ x[b][j] = old[b][j]
    BY <1>4, SMTT(60) DEF line
  <2>. QED  BY <1>3, <1>6, <2>1, <2>2, ZenonT(60)
<1>9. \A k \in DOMAIN records : \E m \in DOMAIN x : \E j \in DOMAIN x[m] : x[m][j] = records[k]
  <2>. SUFFICES ASSUME NEW k \in DOMAIN records
                PROVE  \E m \in DOMAIN x : \E j \in DOMAIN x[m] : x[m][j] = records[k]
    OBVIOUS
  <2>1. CASE k = 1
    <3>1. Len(line) + 1 \in DOMAIN x[b]
      <4>. DEFINE m == Len(line)
      <4>1. m \in Nat /\ DOMAIN x[b] = 1..m + 1
        BY <1>4
      <4>. HIDE DEF m
      <4>2. m + 1 \in DOMAIN x[b]
        BY <4>1
      <4>. QED  BY <4>2 DEF m
    <3>2. x[b][Len(line) + 1] = records[k]
      BY <1>4, <2>1, Zenon DEF record
    <3>. QED  BY <1>3, <3>1, <3>2, Zenon
  <2>2. CASE k # 1
    <3>1. x[b + k - 1] = <<records[k]>> /\ b + k - 1 \in DOMAIN x
      BY <1>1, <1>6, <2>2, Zenon
    <3>2. 1 \in DOMAIN x[b + k - 1] /\ x[b + k - 1][1] = records[k]
      BY <3>1
    <3>. QED  BY <3>1, <3>2, Zenon
  <2>. QED  BY <2>1, <2>2
<1>10. x # <<>>
  BY <1>3
<1>. QED  BY <1>1, <1>7, <1>8, <1>9, <1>10, Zenon DEF Kept, b, x

\* Records that may be appended to a file: no two alike, none that the file has.
Appendable(records, file) ==
    /\ records # <<>>
    /\ \A j, k \in DOMAIN records : j # k => records[j] # records[k]
    /\ \A j \in DOMAIN records : records[j] # Cut => records[j] \notin Keys(file)

LEMMA WriteShape ==
    ASSUME NEW K, NEW file \in File(K), Sound(file),
           NEW records \in Seq(K \cup {Cut}), records # <<>>, NEW open \in BOOLEAN
    PROVE  \E x \in Seq(Seq(K \cup {Cut})) :
              /\ Write(file, records, open) = [lines |-> x, open |-> open] /\ x # <<>>
              /\ \E d : Placed(file.lines, records, x, d)
              /\ Kept(file.lines, records, x)
<1>. DEFINE old == file.lines
            T == K \cup {Cut}
<1>1. old \in Seq(Seq(T)) /\ records \in Seq(T)
  BY DEF File
<1>2. CASE file.open
  <2>. DEFINE x == Extended(old, records)
  <2>1. Write(file, records, open) = [lines |-> x, open |-> open]
    BY <1>2 DEF Write, Extended
  <2>2. old # <<>> /\ \A l \in DOMAIN old : Len(old[l]) > 0
    BY <1>2 DEF Sound
  <2>. HIDE DEF old, T
  <2>3. /\ x \in Seq(Seq(T)) /\ x # <<>>
        /\ Placed(old, records, x, Len(old) - 1) /\ Kept(old, records, x)
    BY <1>1, <2>2, OpenShape, Zenon
  <2>. HIDE DEF x
  <2>. QED  BY <2>1, <2>3, Zenon DEF old, T
<1>3. CASE ~file.open
  <2>. DEFINE x == old \o Lines(records)
  <2>1. Write(file, records, open) = [lines |-> x, open |-> open]
    BY <1>3 DEF Write
  <2>. HIDE DEF old, T
  <2>2. /\ x \in Seq(Seq(T)) /\ x # <<>>
        /\ Placed(old, records, x, Len(old)) /\ Kept(old, records, x)
    BY <1>1, ClosedShape, Zenon
  <2>. HIDE DEF x
  <2>. QED  BY <2>1, <2>2, Zenon DEF old, T
<1>. QED  BY <1>2, <1>3

\* An append of such records keeps a file sound, and all that was written.
LEMMA WriteKeeps ==
    ASSUME NEW K, NEW file \in File(K), Sound(file), NEW records \in Seq(K \cup {Cut}),
           Appendable(records, file), NEW open \in BOOLEAN
    PROVE  LET w == Write(file, records, open)
           IN  /\ w \in File(K) /\ Sound(w) /\ Written(file) \subseteq Written(w)
               /\ \A k \in DOMAIN records : records[k] \in Written(w)
<1>. DEFINE old == file.lines
            w == Write(file, records, open)
<1>1. PICK x \in Seq(Seq(K \cup {Cut})) :
          /\ w = [lines |-> x, open |-> open] /\ x # <<>>
          /\ \E d : Placed(old, records, x, d)
          /\ Kept(old, records, x)
  BY WriteShape DEF Appendable
<1>2. PICK d : Placed(old, records, x, d)
  BY <1>1
<1>3. w \in File(K) /\ w.lines = x /\ w.open = open
  BY <1>1 DEF File
<1>. HIDE DEF w, old
<1>4. \A r : Len(<<r>>) = 1 /\ <<r>>[1] = r
  OBVIOUS
<1>5. \A l \in DOMAIN old : /\ Len(old[l]) > 0
                            /\ Whole(old[l]) => old[l][1] \in Keys(file) /\ old[l][1] # Cut
  BY KeysOf DEF Sound, Whole, old
<1>6. \A l \in DOMAIN x : Len(x[l]) > 0
  <2>. SUFFICES ASSUME NEW l \in DOMAIN x PROVE Len(x[l]) > 0
    OBVIOUS
  <2>1. CASE l \in DOMAIN old /\ x[l] = old[l]
    BY <1>5, <2>1
  <2>2. CASE Len(x[l]) > 1
    <3>1. Len(x[l]) \in Nat
      BY <1>1, LenProperties, ElementOfSeq
    <3>. QED  BY <2>2, <3>1
  <2>3. CASE \E j \in DOMAIN records : x[l] = <<records[j]>>
    BY <1>4, <2>3
  <2>. QED  BY <1>2, <2>1, <2>2, <2>3, Zenon DEF Placed
<1>7. ASSUME NEW l \in DOMAIN x, NEW m \in DOMAIN x, l # m, Whole(x[l]), x[l] = x[m]
      PROVE  FALSE
  <2>1. ~(Len(x[l]) > 1) /\ ~(Len(x[m]) > 1)
    <3>1. Len(x[l]) = 1 /\ Len(x[m]) = 1
      BY <1>7, Zenon DEF Whole
    <3>. QED  BY <3>1
  <2>2. CASE /\ l \in DOMAIN old /\ x[l] = old[l] /\ m \in DOMAIN old /\ x[m] = old[m]
    BY <1>7, <2>2 DEF Sound, old
  <2>3. ASSUME NEW a \in {l, m}, a \in DOMAIN old, x[a] = old[a],
               NEW b \in {l, m}, NEW j \in DOMAIN records, x[b] = <<records[j]>>
        PROVE  FALSE
    <3>1. Whole(old[a]) /\ old[a] = <<records[j]>>
      BY <1>7, <2>3
    <3>2. old[a][1] = records[j]
      BY <1>4, <3>1
    <3>. QED  BY <1>5, <2>3, <3>1, <3>2 DEF Appendable
  <2>4. ASSUME NEW j \in DOMAIN records, l = d + j, x[l] = <<records[j]>>,
               NEW k \in DOMAIN records, m = d + k, x[m] = <<records[k]>>
        PROVE  FALSE
    <3>1. records[j] = records[k]
      BY <1>4, <1>7, <2>4
    <3>2. j # k
      BY <1>7, <2>4
    <3>. QED  BY <3>1, <3>2 DEF Appendable
  <2>. QED  BY <1>2, <2>1, <2>2, <2>3, <2>4, Zenon DEF Placed
<1>8. Sound(w)
  BY <1>1, <1>3, <1>6, <1>7, Zenon DEF Sound
<1>9. Written(file) \subseteq Written(w)
  BY <1>1, <1>3 DEF Written, Kept, old
<1>10. \A k \in DOMAIN records : records[k] \in Written(w)
  BY <1>1, <1>3 DEF Written, Kept
<1>. QED  BY <1>3, <1>8, <1>9, <1>10 DEF w

\* So does an append that does not complete.
LEMMA TornKeeps ==
    ASSUME NEW K, NEW file \in File(K), Sound(file), NEW records \in Seq(K), Cut \notin K,
           Appendable(records, file), NEW g \in TornWrites(file, records)
    PROVE  g \in File(K) /\ Sound(g) /\ Written(file) \subseteq Written(g)
<1>. DEFINE T == K \cup {Cut}
<1>1. /\ Len(records) \in Nat \ {0} /\ DOMAIN records = 1..Len(records)
      /\ \A j \in DOMAIN records : records[j] \in K /\ records[j] \in T
  <2>1. Len(records) \in Nat \ {0} /\ DOMAIN records = 1..Len(records)
    BY EmptySeq, LenProperties DEF Appendable
  <2>. QED  BY <2>1, ElementOfSeq
<1>2. ASSUME NEW part \in Seq(T), part # <<>>, NEW open \in BOOLEAN, g = Write(file, part, open),
             \A j \in DOMAIN part : part[j] # Cut => j \in DOMAIN records /\ part[j] = records[j],
             \A j, k \in DOMAIN part : j # k => part[j] # Cut \/ part[k] # Cut
      PROVE  g \in File(K) /\ Sound(g) /\ Written(file) \subseteq Written(g)
  <2>1. Appendable(part, file)
    <3>1. \A j \in DOMAIN part : part[j] # Cut => part[j] \notin Keys(file)
      BY <1>2, Zenon DEF Appendable
    <3>2. ASSUME NEW j \in DOMAIN part, NEW k \in DOMAIN part, j # k, part[j] = part[k]
          PROVE  FALSE
      <4>1. part[j] # Cut /\ part[k] # Cut
        BY <1>2, <3>2, Zenon
      <4>2. /\ j \in DOMAIN records /\ part[j] = records[j]
            /\ k \in DOMAIN records /\ part[k] = records[k]
        BY <1>2, <4>1, Zenon
      <4>3. records[j] = records[k]
        BY <3>2, <4>2, Zenon
      <4>. QED  BY <3>2, <4>2, <4>3, Zenon DEF Appendable
    <3>. QED  BY <1>2, <3>1, <3>2, Zenon DEF Appendable
  <2>. QED  BY <1>2, <2>1, WriteKeeps
<1>3. ASSUME NEW k \in DOMAIN records
      PROVE  LET part == SubSeq(records, 1, k)
             IN  /\ part \in Seq(T) /\ part # <<>> /\ DOMAIN part \subseteq DOMAIN records
                 /\ \A j \in DOMAIN part : part[j] = records[j] /\ part[j] # Cut
  <2>. DEFINE part == SubSeq(records, 1, k)
  <2>1. k \in Nat \ {0} /\ k <= Len(records) /\ 1..k \subseteq DOMAIN records
    BY <1>1
  <2>2. /\ part \in Seq(T) /\ Len(part) = k
        /\ \A j \in 1..k : part[j] = records[j]
    <3>1. \A j \in 1..k : records[j] \in T
      BY <1>1, <2>1
    <3>. HIDE DEF T
    <3>2. /\ part \in Seq(T) /\ Len(part) = (IF 1 <= k THEN k - 1 + 1 ELSE 0)
          /\ \A j \in 1..(k - 1 + 1) : part[j] = records[1 + j - 1]
      BY <2>1, <3>1, SubSeqProperties
    <3>. HIDE DEF part
    <3>. QED  BY <2>1, <3>2
  <2>. HIDE DEF part
  <2>3. DOMAIN part = 1..k
    BY <2>2, LenProperties
  <2>4. part # <<>>
    BY <2>1, <2>3
  <2>. QED  BY <1>1, <2>1, <2>2, <2>3, <2>4, Zenon DEF part
<1>4. ASSUME NEW k \in DOMAIN records
      PROVE  LET part == Append(SubSeq(records, 1, k - 1), Cut)
             IN  /\ part \in Seq(T) /\ part # <<>>
                 /\ \A j \in DOMAIN part : part[j] # Cut => j \in DOMAIN records /\ part[j] = records[j]
                 /\ \A i, j \in DOMAIN part : i # j => part[i] # Cut \/ part[j] # Cut
  <2>. DEFINE head == SubSeq(records, 1, k - 1)
              part == Append(head, Cut)
  <2>1. k \in Nat \ {0} /\ k <= Len(records) /\ 1..(k - 1) \subseteq DOMAIN records
    BY <1>1
  <2>2. head \in Seq(T) /\ Len(head) = k - 1 /\ \A j \in 1..(k - 1) : head[j] = records[j]
    <3>1. \A j \in 1..(k - 1) : records[j] \in T
      BY <1>1, <2>1
    <3>2. k - 1 \in Int
      BY <2>1
    <3>. HIDE DEF T
    <3>3. /\ head \in Seq(T) /\ Len(head) = (IF 1 <= k - 1 THEN k - 1 - 1 + 1 ELSE 0)
          /\ \A j \in 1..(k - 1 - 1 + 1) : head[j] = records[1 + j - 1]
      BY <3>1, <3>2, SubSeqProperties
    <3>. HIDE DEF head
    <3>. QED  BY <2>1, <3>3
  <2>. HIDE DEF head
  <2>3. /\ part \in Seq(T) /\ Len(part) = Len(head) + 1 /\ part # <<>>
        /\ \A j \in 1..Len(head) : part[j] = head[j]
        /\ part[Len(head) + 1] = Cut
    BY <2>2, AppendProperties, SMTT(60)
  <2>. HIDE DEF part
  <2>4. Len(part) = k /\ Len(head) + 1 = k
    BY <2>1, <2>2, <2>3
  <2>5. DOMAIN part = 1..k
    BY <2>3, <2>4, LenProperties
  <2>6. part[k] = Cut
    BY <2>3, <2>4, Zenon
  <2>7. \A j \in DOMAIN part : j # k => /\ j \in DOMAIN records /\ part[j] = records[j]
                                        /\ part[j] # Cut
    <3>. SUFFICES ASSUME NEW j \in DOMAIN part, j # k
                  PROVE  j \in DOMAIN records /\ part[j] = records[j] /\ part[j] # Cut
      OBVIOUS
    <3>1. j \in 1..(k - 1)
      BY <2>1, <2>5
    <3>2. j \in DOMAIN records /\ part[j] = records[j]
      BY <2>1, <2>2, <2>3, <3>1
    <3>. QED  BY <1>1, <3>2
  <2>. QED  BY <2>3, <2>6, <2>7, Zenon DEF part, head
<1>5. PICK k \in DOMAIN records :
          \/ g = Write(file, SubSeq(records, 1, k), FALSE)
          \/ g = Write(file, SubSeq(records, 1, k), TRUE)
          \/ g = Write(file, Append(SubSeq(records, 1, k - 1), Cut), TRUE)
  BY DEF TornWrites
<1>6. TRUE \in BOOLEAN /\ FALSE \in BOOLEAN
  OBVIOUS
<1>7. CASE \E open \in BOOLEAN : g = Write(file, SubSeq(records, 1, k), open)
  <2>. DEFINE part == SubSeq(records, 1, k)
  <2>1. PICK open \in BOOLEAN : g = Write(file, part, open)
    BY <1>7
  <2>2. /\ part \in Seq(T) /\ part # <<>> /\ DOMAIN part \subseteq DOMAIN records
        /\ \A j \in DOMAIN part : part[j] = records[j] /\ part[j] # Cut
    BY <1>3
  <2>. HIDE DEF part, T
  <2>. QED  BY <1>2, <2>1, <2>2, Zenon
<1>8. CASE g = Write(file, Append(SubSeq(records, 1, k - 1), Cut), TRUE)
  <2>. DEFINE part == Append(SubSeq(records, 1, k - 1), Cut)
  <2>1. /\ part \in Seq(T) /\ part # <<>>
        /\ \A j \in DOMAIN part : part[j] # Cut => j \in DOMAIN records /\ part[j] = records[j]
        /\ \A i, j \in DOMAIN part : i # j => part[i] # Cut \/ part[j] # Cut
    BY <1>4
  <2>2. g = Write(file, part, TRUE)
    BY <1>8
  <2>. HIDE DEF part, T
  <2>. QED  BY <1>2, <1>6, <2>1, <2>2, Zenon
<1>. QED  BY <1>5, <1>6, <1>7, <1>8, Zenon

\* The records of the two append steps.
LEMMA AscendingFacts ==
    ASSUME NEW S \in SUBSET Tx, NEW records \in Ascending(S)
    PROVE  /\ records \in Seq(S)
           /\ \A i \in S : \E j \in DOMAIN records : records[j] = i
           /\ \A j, k \in DOMAIN records : j # k => records[j] # records[k]
<1>1. IsFiniteSet(S) /\ Cardinality(S) \in Nat
  <2>1. IsFiniteSet(Tx)
    <3>1. 1 \in Int /\ N \in Int
      BY ChainAssumption
    <3>. QED  BY <3>1, FS_Interval DEF Tx
  <2>2. IsFiniteSet(S)
    BY <2>1, FS_Subset
  <2>. QED  BY <2>2, FS_CardinalityType
<1>2. records \in [1..Cardinality(S) -> S] /\ DOMAIN records = 1..Cardinality(S)
  BY DEF Ascending
<1>3. \A j, k \in DOMAIN records : j < k => records[j] < records[k]
  BY DEF Ascending
<1>4. records \in Seq(S)
  BY <1>1, <1>2
<1>5. ASSUME NEW j \in DOMAIN records, NEW k \in DOMAIN records, j # k
      PROVE  records[j] # records[k]
  <2>1. j \in Int /\ k \in Int /\ records[j] \in Int /\ records[k] \in Int
    <3>1. records[j] \in Tx /\ records[k] \in Tx
      BY <1>2
    <3>. QED  BY <1>1, <1>2, <3>1, ChainAssumption DEF Tx
  <2>2. j < k \/ k < j
    BY <1>5, <2>1
  <2>. QED  BY <1>3, <2>1, <2>2
<1>6. \A i \in S : \E j \in DOMAIN records : records[j] = i
  BY DEF Ascending
<1>. QED  BY <1>4, <1>5, <1>6

LEMMA FreshRows ==
    ASSUME TypeOK, NEW records \in Fresh
    PROVE  /\ records \in Seq(Tx) /\ Cut \notin Tx
           /\ records # <<>> => Appendable(records, flow)
           /\ \A i \in rows : i \in Keys(flow) \/ \E j \in DOMAIN records : records[j] = i
<1>. DEFINE S == rows \ Keys(flow)
<1>1. S \in SUBSET Tx /\ records \in Ascending(S)
  BY DEF TypeOK, Fresh
<1>2. /\ records \in Seq(S)
      /\ \A i \in S : \E j \in DOMAIN records : records[j] = i
      /\ \A j, k \in DOMAIN records : j # k => records[j] # records[k]
  BY <1>1, AscendingFacts
<1>3. \A j \in DOMAIN records : records[j] \in S
  BY <1>2, LenProperties, ElementOfSeq
<1>4. records \in Seq(Tx) /\ Cut \notin Tx
  <2>1. records \in Seq(Tx)
    BY <1>1, <1>2, SeqMonotonic
  <2>2. Cut \notin Tx
    BY DEF Tx, Cut
  <2>. QED  BY <2>1, <2>2
<1>. QED  BY <1>2, <1>3, <1>4 DEF Appendable

LEMMA FreshSnapshot ==
    ASSUME TypeOK
    PROVE  /\ NewSnapshot \in Seq(1..LastSlot) /\ Cut \notin 1..LastSlot
           /\ NewSnapshot # <<>> => Appendable(NewSnapshot, snaps)
<1>1. now \in 1..LastSlot /\ Cut \notin 1..LastSlot
  BY DEF TypeOK, Cut
<1>2. NewSnapshot = <<>> \/ (NewSnapshot = <<now>> /\ now \notin Keys(snaps))
  BY DEF NewSnapshot
<1>3. DOMAIN <<now>> = {1} /\ <<now>>[1] = now /\ <<now>> \in Seq(1..LastSlot) /\ <<now>> # <<>>
  BY <1>1
<1>4. CASE NewSnapshot = <<>>
  BY <1>1, <1>4
<1>5. CASE NewSnapshot = <<now>> /\ now \notin Keys(snaps)
  <2>1. Appendable(<<now>>, snaps)
    BY <1>3, <1>5, Zenon DEF Appendable
  <2>. QED  BY <1>1, <1>3, <1>5, <2>1, Zenon
<1>. QED  BY <1>2, <1>4, <1>5

-----------------------------------------------------------------------------
(***************************************************************************)
(* Types and files.                                                        *)
(***************************************************************************)
FilesInv == TypeOK /\ Sound(flow) /\ Sound(snaps)

LEMMA InitFiles == Init => FilesInv
<1>. SUFFICES ASSUME Init PROVE FilesInv
  OBVIOUS
<1>1. 1 \in 1..LastSlot
  <2>1. 1 \in Tx
    BY ChainAssumption DEF Tx
  <2>2. SlotOf[1] \in 1..LastSlot /\ LastSlot \in Nat
    BY <2>1, ChainAssumption
  <2>. QED  BY <2>2
<1>2. \A K : EmptyFile \in File(K) /\ Sound(EmptyFile)
  BY DEF EmptyFile, File, Sound
<1>3. /\ now \in 1..LastSlot /\ pc \in Commands
      /\ flow \in File(Tx) /\ Sound(flow) /\ snaps \in File(1..LastSlot) /\ Sound(snaps)
  BY <1>1, <1>2 DEF Init, Commands
<1>4. 0 \in 0..N /\ 0 \in 0..MaxPages /\ 0 \in 0..MaxDeaths
  BY ChainAssumption, ArgsAssumption
<1>. QED  BY <1>3, <1>4 DEF Init, FilesInv, TypeOK

\* The whole append of a step.
LEMMA WriteStep ==
    ASSUME NEW K, NEW file \in File(K), Sound(file), NEW records \in Seq(K), Cut \notin K,
           records # <<>> => Appendable(records, file)
    PROVE  LET w == Write(file, records, FALSE)
           IN  /\ w \in File(K) /\ Sound(w) /\ Written(file) \subseteq Written(w)
               /\ \A k \in DOMAIN records : records[k] \in Written(w)
<1>1. CASE records = <<>>
  BY <1>1 DEF Write
<1>2. CASE records # <<>>
  <2>1. records \in Seq(K \cup {Cut}) /\ FALSE \in BOOLEAN
    BY SeqMonotonic
  <2>. QED  BY <1>2, <2>1, WriteKeeps
<1>. QED  BY <1>1, <1>2

LEMMA TornStep ==
    ASSUME NEW K, NEW file \in File(K), Sound(file), NEW records \in Seq(K), Cut \notin K,
           records # <<>> => Appendable(records, file), NEW g \in TornWrites(file, records)
    PROVE  g \in File(K) /\ Sound(g) /\ Written(file) \subseteq Written(g)
<1>1. CASE records = <<>>
  BY <1>1 DEF TornWrites
<1>2. CASE records # <<>>
  BY <1>2, TornKeeps
<1>. QED  BY <1>1, <1>2

\* What a step does to the files: they stay sound, and keep what was written.
LEMMA FilesStep ==
    ASSUME FilesInv, [Next]_vars
    PROVE  /\ flow' \in File(Tx) /\ Sound(flow') /\ Written(flow) \subseteq Written(flow')
           /\ snaps' \in File(1..LastSlot) /\ Sound(snaps')
<1>1. flow \in File(Tx) /\ snaps \in File(1..LastSlot) /\ TypeOK /\ Sound(flow) /\ Sound(snaps)
  BY DEF FilesInv, TypeOK
<1>2. ASSUME NEW records \in Fresh, NEW g, g = Write(flow, records, FALSE) \/ g \in TornWrites(flow, records)
      PROVE  g \in File(Tx) /\ Sound(g) /\ Written(flow) \subseteq Written(g)
  <2>1. /\ records \in Seq(Tx) /\ Cut \notin Tx
        /\ records # <<>> => Appendable(records, flow)
    BY <1>1, FreshRows
  <2>2. CASE g = Write(flow, records, FALSE)
    BY <1>1, <2>1, <2>2, WriteStep
  <2>3. CASE g \in TornWrites(flow, records)
    BY <1>1, <2>1, <2>3, TornStep
  <2>. QED  BY <1>2, <2>2, <2>3
<1>3. ASSUME NEW g, g = Write(snaps, NewSnapshot, FALSE) \/ g \in TornWrites(snaps, NewSnapshot)
      PROVE  g \in File(1..LastSlot) /\ Sound(g)
  <2>1. /\ NewSnapshot \in Seq(1..LastSlot) /\ Cut \notin 1..LastSlot
        /\ NewSnapshot # <<>> => Appendable(NewSnapshot, snaps)
    BY <1>1, FreshSnapshot
  <2>2. CASE g = Write(snaps, NewSnapshot, FALSE)
    BY <1>1, <2>1, <2>2, WriteStep
  <2>3. CASE g \in TornWrites(snaps, NewSnapshot)
    BY <1>1, <2>1, <2>3, TornStep
  <2>. QED  BY <1>3, <2>2, <2>3
<1>4. CASE UNCHANGED <<flow, snaps>>
  BY <1>1, <1>4
<1>5. CASE WriteFlow
  BY <1>1, <1>2, <1>5 DEF WriteFlow
<1>6. CASE Snapshot
  BY <1>1, <1>3, <1>6 DEF Snapshot
<1>7. CASE Die
  BY <1>1, <1>2, <1>3, <1>7 DEF Die
<1>8. Next => UNCHANGED <<flow, snaps>> \/ WriteFlow \/ Snapshot \/ Die
  BY DEF Next, Tick, Heartbeat, Begin, FetchPage, EndPages, FetchTx, EndPage, TruncateCursor,
         WriteCursor, NothingToSave, Join, JoinFails, Gate, Replay, run, saved
<1>9. UNCHANGED vars => UNCHANGED <<flow, snaps>>
  BY DEF vars
<1>. QED  BY <1>4, <1>5, <1>6, <1>7, <1>8, <1>9

LEMMA NextFiles == FilesInv /\ [Next]_vars => FilesInv'
<1>. SUFFICES ASSUME FilesInv, [Next]_vars PROVE FilesInv'
  OBVIOUS
<1>1. /\ flow' \in File(Tx) /\ Sound(flow') /\ snaps' \in File(1..LastSlot) /\ Sound(snaps')
  BY FilesStep
<1>. DEFINE Rest == /\ now \in 1..LastSlot /\ pc \in Commands
                    /\ before \in 0..N /\ cursor \in 0..N /\ cursorFile \in 0..N
                    /\ top \in 0..N /\ fileTop \in 0..N
                    /\ queue \subseteq Tx /\ pages \in 0..MaxPages
                    /\ rows \subseteq Tx /\ proxy \subseteq Tx
                    /\ refused \subseteq Tx /\ dropped \subseteq Tx
                    /\ deaths \in 0..MaxDeaths
<1>2. Rest /\ flow \in File(Tx)
  BY DEF FilesInv, TypeOK
<1>. SUFFICES Rest'
  BY <1>1 DEF FilesInv, TypeOK, Sound
<1>3. N \in Nat /\ LastSlot \in Nat /\ Tx \subseteq 0..N /\ MaxPages \in Nat /\ MaxDeaths \in Nat
  BY ChainAssumption, ArgsAssumption DEF Tx
<1>4. CASE Tick
  BY <1>2, <1>3, <1>4 DEF Tick, run, saved, lost
<1>5. CASE Begin
  BY <1>2, <1>3, <1>5 DEF Begin, saved, lost, Commands
<1>6. CASE Snapshot
  BY <1>2, <1>6 DEF Snapshot, run, saved, lost, Commands
<1>7. CASE FetchPage
  <2>1. cursor' \in 0..N /\ top' \in 0..N /\ queue' \subseteq Tx
    BY <1>2, <1>3, <1>7 DEF FetchPage, Page
  <2>2. pages' \in 0..MaxPages
    BY <1>2, <1>3, <1>7 DEF FetchPage, PagesLeft
  <2>. QED  BY <1>2, <1>7, <2>1, <2>2 DEF FetchPage, saved, lost, Commands
<1>8. CASE EndPages
  BY <1>2, <1>8 DEF EndPages, run, saved, lost, Commands
<1>9. CASE FetchTx
  <2>1. /\ rows' \subseteq Tx /\ queue' \subseteq Tx /\ pc' \in Commands
        /\ refused' \subseteq Tx /\ dropped' \subseteq Tx
    BY <1>2, <1>9 DEF FetchTx, Commands
  <2>. QED  BY <1>2, <1>9, <2>1 DEF FetchTx, saved
<1>10. CASE EndPage
  BY <1>2, <1>10 DEF EndPage, run, saved, lost, Commands
<1>11. CASE WriteFlow
  BY <1>2, <1>11 DEF WriteFlow, run, saved, lost, Commands
<1>12. CASE TruncateCursor
  BY <1>2, <1>3, <1>12 DEF TruncateCursor, run, lost, Commands
<1>13. CASE WriteCursor
  BY <1>2, <1>13 DEF WriteCursor, run, lost, Commands
<1>14. CASE NothingToSave
  BY <1>2, <1>14 DEF NothingToSave, run, saved, lost, Commands
<1>15. CASE Join
  <2>1. Joined \subseteq Tx
    BY <1>2, KeysOf DEF Joined
  <2>. QED  BY <1>2, <1>15, <2>1 DEF Join, run, saved, lost, Commands
<1>16. CASE JoinFails
  BY <1>2, <1>16 DEF JoinFails, run, saved, lost, Commands
<1>17. CASE Gate
  BY <1>2, <1>17 DEF Gate, run, saved, lost, Commands
<1>18. CASE Replay
  BY <1>2, <1>18 DEF Replay, run, saved, lost, Commands
<1>19. CASE Die
  BY <1>2, <1>3, <1>19 DEF Die, run, saved, lost, Commands
<1>20. CASE UNCHANGED vars
  BY <1>2, <1>20 DEF vars, run, saved, lost
<1>. QED  BY <1>4, <1>5, <1>6, <1>7, <1>8, <1>9, <1>10, <1>11, <1>12, <1>13, <1>14, <1>15,
             <1>16, <1>17, <1>18, <1>19, <1>20 DEF Next, Heartbeat

LEMMA AlwaysFiles == Spec => []FilesInv
<1>1. Init => FilesInv
  BY InitFiles
<1>2. FilesInv /\ [Next]_vars => FilesInv'
  BY NextFiles
<1>. QED  BY <1>1, <1>2, PTL DEF Spec

\* Every variable of the heartbeats keeps its type; the walk stays within its pages.
THEOREM HeartbeatTypes == Spec => []TypeOK
<1>1. FilesInv => TypeOK
  BY DEF FilesInv
<1>. QED  BY <1>1, AlwaysFiles, PTL

\* Whatever deaths, torn appends and lost cursors: no swap and no slot's snapshot has two
\* lines (the dedupe of appendJsonlDeduped and of the snapshot step, over its own torn file).
THEOREM RowsOnce == Spec => []NoDuplicateRows
<1>1. FilesInv => NoDuplicateRows
  BY DEF FilesInv, Sound, NoDuplicateRows
<1>. QED  BY <1>1, AlwaysFiles, PTL

-----------------------------------------------------------------------------
(***************************************************************************)
(* The cursor.                                                             *)
(***************************************************************************)
\* A heartbeat that began with a cursor walks back from it.
WalkBack == before # 0 => cursor # 0 /\ cursor <= before

LEMMA NextWalk ==
    ASSUME TypeOK, WalkBack, [Next]_vars
    PROVE  /\ WalkBack'
           /\ cursorFile' \notin {0, cursorFile} /\ before # 0 => cursorFile' <= before
<1>1. /\ before \in 0..N /\ cursor \in 0..N /\ cursorFile \in 0..N /\ N \in Nat
      /\ Tx = 1..N
  BY ChainAssumption DEF TypeOK, Tx
<1>2. CASE Begin
  BY <1>1, <1>2 DEF Begin, WalkBack, saved
<1>3. CASE FetchPage
  <2>1. PICK c \in Tx : Oldest(c) /\ cursor' = c
    BY <1>3 DEF FetchPage
  <2>2. cursor = 0 \/ c < cursor
    BY <2>1 DEF Oldest, Page
  <2>. QED  BY <1>1, <1>3, <2>1, <2>2 DEF FetchPage, WalkBack, saved
<1>4. CASE WriteCursor
  BY <1>1, <1>4 DEF WriteCursor, WalkBack, run
<1>5. CASE TruncateCursor
  BY <1>1, <1>5 DEF TruncateCursor, WalkBack, run
<1>6. CASE UNCHANGED <<before, cursor, cursorFile>>
  BY <1>6 DEF WalkBack
<1>7. Next => \/ UNCHANGED <<before, cursor, cursorFile>>
              \/ Begin \/ FetchPage \/ WriteCursor \/ TruncateCursor
  BY DEF Next, Tick, Heartbeat, Snapshot, EndPages, FetchTx, EndPage, WriteFlow, NothingToSave,
         Join, JoinFails, Gate, Replay, Die, run, saved
<1>8. UNCHANGED vars => UNCHANGED <<before, cursor, cursorFile>>
  BY DEF vars, run, saved
<1>. QED  BY <1>2, <1>3, <1>4, <1>5, <1>6, <1>7, <1>8

\* A saved cursor is never newer than the one its heartbeat began with.
THEOREM WalkMovesBack == Spec => BackfillMovesBack
<1>1. Init => WalkBack
  BY DEF Init, WalkBack
<1>2. TypeOK /\ WalkBack /\ [Next]_vars =>
        /\ WalkBack'
        /\ cursorFile' \notin {0, cursorFile} /\ before # 0 => cursorFile' <= before
  BY NextWalk
<1>. QED  BY <1>1, <1>2, HeartbeatTypes, PTL DEF Spec, BackfillMovesBack

-----------------------------------------------------------------------------
(***************************************************************************)
(* What the cursor has passed.                                             *)
(***************************************************************************)
\* The swaps this heartbeat's cursor has passed, and where they are.
Read == IF cursor = 0 THEN {} ELSE {i \in cursor..top : KindOf[i] = "swap"}

Reading == pc \in {"before", "pages", "txs", "write"} =>
                Read \subseteq Written(flow) \cup refused \cup dropped \cup rows \cup queue
Saving  == pc \in {"save", "saving"} => Read \subseteq Written(flow) \cup refused \cup dropped
Drained == pc \in {"before", "pages", "write"} => queue = {}
Mined   == /\ cursor # 0 => SlotOf[cursor] <= now
           /\ cursorFile # 0 => SlotOf[cursorFile] <= now

CursorInv == Reading /\ Saving /\ Drained /\ Mined /\ CursorCovers

\* A page has no holes.
LEMMA PageIsDense ==
    ASSUME TypeOK, Mined, NEW c \in Page, NEW i \in Tx, c <= i, SlotOf[i] <= now,
           cursor = 0 \/ i < cursor
    PROVE  i \in Page
<1>. DEFINE listed == {j \in Tx : SlotOf[j] <= now /\ (cursor = 0 \/ j < cursor)}
            After(k) == {j \in listed : j > k}
<1>1. i \in listed /\ c \in listed /\ Cardinality(After(c)) < PageSize
  BY DEF Page
<1>2. After(i) \subseteq After(c)
  BY <1>1, ChainAssumption, SMTT(60) DEF Tx
<1>3. IsFiniteSet(After(c))
  <2>1. IsFiniteSet(Tx)
    <3>1. 1 \in Int /\ N \in Int
      BY ChainAssumption
    <3>. QED  BY <3>1, FS_Interval DEF Tx
  <2>2. After(c) \in SUBSET Tx
    OBVIOUS
  <2>. QED  BY <2>1, <2>2, FS_Subset
<1>4. Cardinality(After(i)) < PageSize
  <2>1. /\ Cardinality(After(i)) <= Cardinality(After(c))
        /\ Cardinality(After(i)) \in Nat /\ Cardinality(After(c)) \in Nat
    <3>. HIDE DEF After
    <3>. QED  BY <1>2, <1>3, FS_Subset, FS_CardinalityType
  <2>2. PageSize \in Nat
    BY ArgsAssumption
  <2>. HIDE DEF After
  <2>. QED  BY <1>1, <2>1, <2>2
<1>. QED  BY <1>1, <1>4 DEF Page

\* The cursor moves over a page that is all in the queue.
LEMMA FetchPageCovers ==
    ASSUME TypeOK, CursorInv, FetchPage
    PROVE  CursorInv'
<1>1. PICK c \in Tx : Oldest(c) /\ cursor' = c
  BY DEF FetchPage
<1>2. PICK t \in Tx : Newest(t) /\ top' = (IF cursor = 0 THEN t ELSE top)
  BY DEF FetchPage
<1>3. /\ pc = "pages" /\ pc' = "txs" /\ queue' = {i \in Page : KindOf[i] # "failed"}
      /\ UNCHANGED <<now, rows, flow, refused, dropped, cursorFile, fileTop>>
  BY DEF FetchPage, saved, lost
<1>4. /\ Tx = 1..N /\ N \in Nat /\ cursor \in 0..N /\ top \in 0..N /\ now \in 1..LastSlot
      /\ \A i, j \in Tx : i <= j => SlotOf[i] <= SlotOf[j]
      /\ LastSlot \in Nat /\ \A i \in Tx : SlotOf[i] \in 1..LastSlot
  BY ChainAssumption DEF TypeOK, Tx
<1>5. c \in Page /\ t \in Page /\ SlotOf[c] <= now /\ SlotOf[t] <= now /\ c # 0
  BY <1>1, <1>2, <1>4 DEF Oldest, Newest, Page
<1>6. ASSUME NEW i \in Tx, c <= i, cursor = 0 => i <= t, cursor # 0 => i < cursor
      PROVE  i \in Page
  <2>1. SlotOf[i] <= now
    <3>1. CASE cursor = 0
      BY <1>4, <1>5, <1>6, <3>1, SMTT(60)
    <3>2. CASE cursor # 0
      <4>1. cursor \in Tx /\ SlotOf[cursor] <= now /\ i <= cursor
        BY <1>4, <1>6, <3>2 DEF CursorInv, Mined
      <4>. QED  BY <1>4, <4>1
    <3>. QED  BY <3>1, <3>2
  <2>. QED  BY <1>5, <1>6, <2>1, PageIsDense DEF CursorInv
<1>7. Read' \subseteq Written(flow) \cup refused \cup dropped \cup rows \cup queue'
  <2>. SUFFICES ASSUME NEW i \in Read' PROVE i \in Written(flow) \cup refused \cup dropped \cup rows \cup queue'
    OBVIOUS
  <2>1. i \in c..(IF cursor = 0 THEN t ELSE top) /\ KindOf[i] = "swap"
    BY <1>1, <1>2, <1>5 DEF Read
  <2>2. i \in Tx /\ c <= i
    BY <1>4, <2>1
  <2>3. CASE cursor = 0 \/ i < cursor
    <3>1. i \in Page
      BY <1>4, <1>6, <2>1, <2>2, <2>3
    <3>. QED  BY <1>3, <2>1, <3>1
  <2>4. CASE cursor # 0 /\ ~(i < cursor)
    <3>1. i \in Read
      BY <1>4, <2>1, <2>2, <2>4 DEF Read
    <3>2. i \in Written(flow) \cup refused \cup dropped \cup rows \cup queue /\ queue = {}
      BY <1>3, <3>1 DEF CursorInv, Reading, Drained
    <3>. QED  BY <3>2
  <2>. QED  BY <2>3, <2>4
<1>8. Reading' /\ Saving' /\ Drained'
  BY <1>3, <1>7 DEF Reading, Saving, Drained
<1>9. Mined' /\ CursorCovers'
  BY <1>1, <1>3, <1>5 DEF CursorInv, Mined, CursorCovers, Passed
<1>. QED  BY <1>8, <1>9 DEF CursorInv

\* A transaction leaves the queue for the rows, or is refused; at the limit the rest of the
\* queue is dropped.
LEMMA FetchTxCovers ==
    ASSUME TypeOK, CursorInv, FetchTx
    PROVE  CursorInv'
<1>1. PICK i \in queue :
        /\ \/ /\ rows' = IF KindOf[i] = "swap" THEN rows \cup {i} ELSE rows
              /\ UNCHANGED refused
           \/ refused' = refused \cup {i} /\ UNCHANGED rows
        /\ IF Cardinality(rows') >= Limit
           THEN pc' = "write" /\ queue' = {} /\ dropped' = dropped \cup (queue \ {i})
           ELSE pc' = "txs" /\ queue' = queue \ {i} /\ UNCHANGED dropped
  BY DEF FetchTx
<1>2. pc = "txs" /\ UNCHANGED <<now, cursor, top, flow, cursorFile, fileTop>>
  BY DEF FetchTx, saved
<1>3. /\ pc' \in {"write", "txs"}
      /\ pc' = "write" => queue' = {}
      /\ refused \subseteq refused' /\ dropped \subseteq dropped'
      /\ rows \subseteq rows' /\ queue \ {i} \subseteq dropped' \cup queue'
      /\ KindOf[i] = "swap" => i \in rows' \cup refused'
  BY <1>1
<1>4. Read' = Read /\ \A j \in Read : KindOf[j] = "swap"
  BY <1>2 DEF Read
<1>5. Reading'
  BY <1>2, <1>3, <1>4 DEF CursorInv, Reading
<1>6. Saving' /\ Drained' /\ Mined'
  BY <1>2, <1>3 DEF CursorInv, Saving, Drained, Mined
<1>7. CursorCovers'
  BY <1>2, <1>3 DEF CursorInv, CursorCovers, Passed
<1>. QED  BY <1>5, <1>6, <1>7 DEF CursorInv

\* The rows are in the file once it is written.
LEMMA WriteFlowCovers ==
    ASSUME FilesInv, CursorInv, WriteFlow
    PROVE  CursorInv'
<1>1. PICK records \in Fresh : flow' = Write(flow, records, FALSE)
  BY DEF WriteFlow
<1>2. /\ pc = "write" /\ pc' = "save"
      /\ UNCHANGED <<now, cursor, top, queue, rows, refused, dropped, cursorFile, fileTop>>
  BY DEF WriteFlow, run, saved, lost
<1>3. TypeOK /\ flow \in File(Tx) /\ Sound(flow)
  BY DEF FilesInv, TypeOK
<1>4. /\ records \in Seq(Tx) /\ Cut \notin Tx
      /\ records # <<>> => Appendable(records, flow)
      /\ \A i \in rows : i \in Keys(flow) \/ \E j \in DOMAIN records : records[j] = i
  BY <1>3, FreshRows
<1>5. Written(flow) \subseteq Written(flow') /\ \A k \in DOMAIN records : records[k] \in Written(flow')
  <2>. DEFINE w == Write(flow, records, FALSE)
  <2>1. Written(flow) \subseteq Written(w) /\ \A k \in DOMAIN records : records[k] \in Written(w)
    BY <1>3, <1>4, WriteStep
  <2>2. flow' = w
    BY <1>1
  <2>. HIDE DEF w
  <2>3. Written(flow') = Written(w)
    BY <2>2
  <2>. QED  BY <2>1, <2>3
<1>6. rows \subseteq Written(flow')
  BY <1>3, <1>4, <1>5, KeysOf
<1>7. Read' = Read /\ Read \subseteq Written(flow) \cup refused \cup dropped \cup rows
  BY <1>2 DEF Read, CursorInv, Reading, Drained
<1>8. Reading' /\ Saving' /\ Drained'
  BY <1>2, <1>5, <1>6, <1>7 DEF Reading, Saving, Drained
<1>9. Mined' /\ CursorCovers'
  BY <1>2, <1>5 DEF CursorInv, Mined, CursorCovers, Passed
<1>. QED  BY <1>8, <1>9 DEF CursorInv

LEMMA NextCursor ==
    ASSUME FilesInv, CursorInv, [Next]_vars
    PROVE  CursorInv'
<1>1. TypeOK /\ TypeOK' /\ Written(flow) \subseteq Written(flow')
  BY FilesStep, NextFiles DEF FilesInv
<1>2. CASE Tick
  <2>1. /\ now' = now + 1 /\ now \in Int
        /\ UNCHANGED <<pc, cursor, top, queue, rows, flow, refused, dropped, cursorFile, fileTop>>
    BY <1>1, <1>2, ChainAssumption DEF Tick, run, saved, lost, TypeOK
  <2>2. Mined'
    <3>1. \A i \in Tx : SlotOf[i] \in Int
      BY ChainAssumption
    <3>2. cursor # 0 => cursor \in Tx
      BY <1>1, ChainAssumption DEF TypeOK, Tx
    <3>3. cursorFile # 0 => cursorFile \in Tx
      BY <1>1, ChainAssumption DEF TypeOK, Tx
    <3>. QED  BY <2>1, <3>1, <3>2, <3>3 DEF CursorInv, Mined
  <2>. QED  BY <2>1, <2>2 DEF CursorInv, Reading, Saving, Drained, CursorCovers, Passed, Read
<1>3. CASE Begin
  <2>1. /\ pc' = "before" /\ cursor' = cursorFile /\ top' = fileTop /\ queue' = {}
        /\ UNCHANGED <<now, flow, refused, dropped, cursorFile, fileTop>>
    BY <1>3 DEF Begin, saved, lost
  <2>2. Read' = Passed
    BY <2>1 DEF Read, Passed
  <2>. QED  BY <2>1, <2>2 DEF CursorInv, Reading, Saving, Drained, Mined, CursorCovers, Passed
<1>4. CASE FetchPage
  BY <1>1, <1>4, FetchPageCovers
<1>5. CASE FetchTx
  BY <1>1, <1>5, FetchTxCovers
<1>6. CASE WriteFlow
  BY <1>6, WriteFlowCovers
<1>7. CASE TruncateCursor
  <2>1. /\ pc = "save" /\ pc' = "saving" /\ cursorFile' = 0
        /\ UNCHANGED <<now, cursor, top, queue, rows, flow, refused, dropped>>
    BY <1>7 DEF TruncateCursor, run, lost
  <2>. QED  BY <2>1 DEF CursorInv, Reading, Saving, Drained, Mined, CursorCovers, Passed, Read
<1>8. CASE WriteCursor
  <2>1. /\ pc = "saving" /\ pc' = "after" /\ cursorFile' = cursor /\ fileTop' = top
        /\ UNCHANGED <<now, cursor, top, queue, rows, flow, refused, dropped>>
    BY <1>8 DEF WriteCursor, run, lost
  <2>2. Passed' = Read
    BY <2>1 DEF Passed, Read
  <2>. QED  BY <2>1, <2>2 DEF CursorInv, Reading, Saving, Drained, Mined, CursorCovers
<1>9. CASE Snapshot \/ EndPages \/ EndPage
  <2>1. /\ \/ pc = "before" /\ pc' = "pages"
           \/ pc = "after" /\ pc' = "join"
           \/ pc = "pages" /\ pc' = "write"
           \/ pc = "txs" /\ pc' = "pages" /\ queue = {}
        /\ UNCHANGED <<now, cursor, top, queue, rows, flow, refused, dropped, cursorFile, fileTop>>
    BY <1>9 DEF Snapshot, EndPages, EndPage, run, saved, lost
  <2>. QED  BY <2>1 DEF CursorInv, Reading, Saving, Drained, Mined, CursorCovers, Passed, Read
<1>10. CASE NothingToSave \/ Join \/ JoinFails \/ Gate \/ Replay \/ Die
  <2>1. /\ pc' \in {"after", "gate", "idle", "replay"}
        /\ UNCHANGED <<now, cursor, refused, dropped, cursorFile, fileTop>>
    BY <1>10 DEF NothingToSave, Join, JoinFails, Gate, Replay, Die, run, saved, lost
  <2>. QED  BY <1>1, <2>1 DEF CursorInv, Reading, Saving, Drained, Mined, CursorCovers, Passed
<1>11. CASE UNCHANGED vars
  BY <1>11 DEF vars, run, saved, lost, CursorInv, Reading, Saving, Drained, Mined, CursorCovers, Passed, Read
<1>. QED  BY <1>2, <1>3, <1>4, <1>5, <1>6, <1>7, <1>8, <1>9, <1>10, <1>11 DEF Next, Heartbeat

LEMMA AlwaysCursor == Spec => []CursorInv
<1>1. Init => CursorInv
  BY DEF Init, CursorInv, Reading, Saving, Drained, Mined, CursorCovers, Passed, Read
<1>2. FilesInv /\ CursorInv /\ [Next]_vars => CursorInv'
  BY NextCursor
<1>. QED  BY <1>1, <1>2, AlwaysFiles, PTL DEF Spec

\* No death, torn append or lost cursor loses a swap: what the saved cursor has passed is in
\* the flow file, was refused by the RPC, or stood in a page behind the FLOW_LIMIT-th row.
THEOREM CursorSound == Spec => []CursorCovers
<1>1. CursorInv => CursorCovers
  BY DEF CursorInv
<1>. QED  BY <1>1, AlwaysCursor, PTL

-----------------------------------------------------------------------------
(***************************************************************************)
(* What the replay reads.                                                  *)
(***************************************************************************)
\* From the join to the replay the files do not change.
JoinInv == pc \in {"gate", "replay"} =>
               ~Malformed(flow) /\ ~Malformed(snaps) /\ proxy = Joined

LEMMA NextJoin == JoinInv /\ [Next]_vars => JoinInv'
<1>. SUFFICES ASSUME JoinInv, [Next]_vars PROVE JoinInv'
  OBVIOUS
<1>1. CASE UNCHANGED <<pc, flow, snaps, proxy>>
  BY <1>1 DEF JoinInv, Malformed, Joined, Keys
<1>2. CASE Join
  BY <1>2 DEF Join, JoinInv, Joinable, Malformed, Joined, Keys
<1>3. CASE Gate
  BY <1>3 DEF Gate, JoinInv, Malformed, Joined, Keys
<1>4. CASE pc' \notin {"gate", "replay"}
  BY <1>4 DEF JoinInv
<1>5. Next => \/ UNCHANGED <<pc, flow, snaps, proxy>>
              \/ Join \/ Gate
              \/ pc' \notin {"gate", "replay"}
  BY DEF Next, Tick, Heartbeat, Begin, Snapshot, FetchPage, EndPages, FetchTx, EndPage, WriteFlow,
         TruncateCursor, WriteCursor, NothingToSave, JoinFails, Replay, Die, run, saved
<1>6. UNCHANGED vars => UNCHANGED <<pc, flow, snaps, proxy>>
  BY DEF vars
<1>. QED  BY <1>1, <1>2, <1>3, <1>4, <1>5, <1>6

\* The replay reads whole records only, and every swap the cursor has passed that is close
\* to a stored snapshot, but those the RPC refused and those behind the row limit.
THEOREM ReplaySound == Spec => []ReplayIsComplete
<1>1. Init => JoinInv
  BY DEF Init, JoinInv
<1>2. JoinInv /\ [Next]_vars => JoinInv'
  BY NextJoin
<1>3. JoinInv /\ CursorCovers => ReplayIsComplete
  <2>. SUFFICES ASSUME JoinInv, CursorCovers, pc = "replay", NEW i \in Passed \ (refused \cup dropped),
                       \E s \in Keys(snaps) : Near(i, s)
                PROVE  i \in proxy
    BY DEF ReplayIsComplete, JoinInv
  <2>1. i \in Written(flow) /\ ~Malformed(flow) /\ proxy = Joined
    BY DEF CursorCovers, JoinInv
  <2>2. PICK l \in DOMAIN flow.lines : \E j \in DOMAIN flow.lines[l] : flow.lines[l][j] = i
    BY <2>1 DEF Written
  <2>3. Whole(flow.lines[l])
    BY <2>1, <2>2 DEF Malformed
  <2>4. i \in Keys(flow)
    BY <2>2, <2>3 DEF Keys, Whole
  <2>. QED  BY <2>1, <2>4 DEF Joined
<1>. QED  BY <1>1, <1>2, <1>3, CursorSound, PTL DEF Spec

=============================================================================
