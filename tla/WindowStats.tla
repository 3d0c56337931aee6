----------------------------- MODULE WindowStats -----------------------------
(***************************************************************************)
(* What the rolling-window commands of apps/cli/src/main.rs share: the      *)
(* statistics over window rows.  Means are kept as sums next to the number  *)
(* of rows, and compared with a threshold by multiplying it out.            *)
(***************************************************************************)
EXTENDS Integers, Sequences, FiniteSets, FiniteSetsExt

CONSTANT None

\* filter: the elements of a sequence at the places in I, in their order.
Pick(s, I) ==
    LET picked[k \in 0..Len(s)] ==
            IF k = 0 THEN <<>> ELSE IF k \in I THEN Append(picked[k - 1], s[k]) ELSE picked[k - 1]
    IN  picked[Len(s)]

\* sort and dedup: a set of numbers as a sequence, at place k the one with k - 1 below it.
Ascending(S) == [k \in 1..Cardinality(S) |-> CHOOSE x \in S : Cardinality({y \in S : y < x}) = k - 1]

Column(field, rows) == [j \in DOMAIN rows |-> rows[j][field]]

\* The numerator of mean_values.
Total(values) ==
    LET sum[k \in 0..Len(values)] == IF k = 0 THEN 0 ELSE sum[k - 1] + values[k]
    IN  sum[Len(values)]

Worst(field, rows) == Max({0} \cup {rows[j][field] : j \in DOMAIN rows})

\* Bug: the rank is used as an index that counts from zero.
Percentile_bug(values, p) ==
    LET rank == Min({Len(values), 1 + Max({1, (p * Len(values) + 99) \div 100})})
    IN  IF values = <<>> THEN None
        ELSE CHOOSE v \in {values[j] : j \in DOMAIN values} :
                /\ Cardinality({j \in DOMAIN values : values[j] < v}) < rank
                /\ rank <= Cardinality({j \in DOMAIN values : values[j] <= v})

\* percentile_f64: the value of nearest rank, rounded up, so that p05 of up to twenty
\* values is the worst one.
Percentile(values, p) ==
    LET rank == Max({1, (p * Len(values) + 99) \div 100})
    IN  IF values = <<>> THEN None
        ELSE CHOOSE v \in {values[j] : j \in DOMAIN values} :
                /\ Cardinality({j \in DOMAIN values : values[j] < v}) < rank
                /\ rank <= Cardinality({j \in DOMAIN values : values[j] <= v})

\* Rows without a time span have no APR and are left out of its statistics.
Aprs(rows) == Pick(Column("apr", rows), {j \in DOMAIN rows : rows[j].apr # None})

Wins(rows) == Cardinality({j \in DOMAIN rows : rows[j].vsHold > 0})

Stats == [windows : Nat, wins : Nat, pnl : Int, vsHold : Int, aprs : Nat, apr : Int,
          p05 : Int \cup {None}, p50 : Int \cup {None}, p95 : Int \cup {None}, dd : Nat, rebalances : Nat]

\* The statistics of the rows of one policy.
Summary(rows) ==
    LET aprs == Aprs(rows)
    IN  [windows |-> Len(rows), wins |-> Wins(rows),
         pnl |-> Total(Column("pnl", rows)), vsHold |-> Total(Column("vsHold", rows)),
         aprs |-> Len(aprs), apr |-> Total(aprs),
         p05 |-> Percentile(aprs, 5), p50 |-> Percentile(aprs, 50), p95 |-> Percentile(aprs, 95),
         dd |-> Worst("dd", rows), rebalances |-> Total(Column("rebalances", rows))]
=============================================================================
