----------------------------- MODULE SwapSampler -----------------------------
(***************************************************************************)
(* sample-solana-pool-swaps and merge-normalized-swaps of                   *)
(* apps/cli/src/main.rs.  The sampler pages through the signatures of a     *)
(* pool from the newest to the oldest while the chain grows, fetches every  *)
(* transaction, finds the swaps of the pool in its log and writes them as   *)
(* one file; a later run goes on from the cursor an earlier one printed.    *)
(* The merge makes one stream of several files, for the replay to read.     *)
(* Abstracted: a signature is the transaction's place on the chain; an      *)
(* event is its pool and tick, a payload that does not decode has no pool;  *)
(* the tick stands for price, amounts and liquidity, and tells the swaps of *)
(* a slot apart; pauses, the samples file and printing are left out.        *)
(***************************************************************************)
EXTENDS Integers, Sequences, FiniteSetsExt, RpcClient

CONSTANTS
    Chain,      \* the pool's transactions, oldest first: [slot, failed, moved, log]
    Jobs,       \* command lines, but for the cursor
    Attempts,   \* tries per request
    Growth,     \* bound: transactions that arrive while the runs go on
    MaxFiles    \* bound: sampling runs that write a file

VARIABLES
    height,     \* transactions on the chain so far
    job, from,  \* the run's arguments; from: --before-signature, 0 for none
    pc,         \* idle, list, tx, write, merged
    attempt,    \* of the request under way
    cursor,     \* signature the next page ends before, 0 for none
    page, pages,    \* signatures of the page still to fetch, and pages listed
    samples, errors,
    top, lost,  \* ghosts: newest signature listed; transactions that did not come
    files, merged

samplerVars == <<height, job, from, pc, attempt, cursor, page, pages, samples, errors, top, lost, files, merged>>
run == <<cursor, page, pages, samples, errors, top, lost>>

NoMinimum == -1
SigSet    == 1 .. Len(Chain)

(***************************************************************************)
(* The log of a transaction.  A line is [is, event]: invoke, success and    *)
(* failed are those of the target program.                                  *)
(***************************************************************************)
Begins(log, i) == log[i].is = "invoke"
Ends(log, i)   == log[i].is \in {"success", "failed"}

\* target_program_swap_invocations: lines i..j are an invocation of the program that is
\* labelled a swap; a new invoke forgets one that has not ended.
Invocation(log, i, j) ==
    /\ i < j /\ Begins(log, i) /\ Ends(log, j)
    /\ \A k \in i + 1 .. j - 1 : ~Begins(log, k) /\ ~Ends(log, k)
    /\ \E k \in i + 1 .. j - 1 : log[k].is = "swap"

Invoked(log) == \E i, j \in DOMAIN log : Invocation(log, i, j)

\* Bug: a routed swap's payload of another pool is taken too.
Matches_bug(log, k) ==
    log[k].is = "data" /\ \E i \in 1..k, j \in k..Len(log) : Invocation(log, i, j)

PoolData(log, k) == log[k].is = "data" /\ log[k].event.pool = "pool"

\* Line k is a payload of such an invocation that decodes to an event of the pool.
Matches(log, k) ==
    PoolData(log, k) /\ \E i \in 1..k, j \in k..Len(log) : Invocation(log, i, j)

LogLine == [is : STRING, event : [pool : STRING, tick : Int]]

\* A swap of the pool is logged inside an invocation that says so, by a transaction that
\* succeeded and moved tokens; slots do not fall.
ASSUME ChainAssumption ==
    /\ Chain \in Seq([slot : Nat, failed : BOOLEAN, moved : BOOLEAN, log : Seq(LogLine)])
    /\ \A s, t \in SigSet : s <= t => Chain[s].slot <= Chain[t].slot
    /\ \A s \in SigSet : \A k \in DOMAIN Chain[s].log : PoolData(Chain[s].log, k) =>
          /\ ~Chain[s].failed /\ Chain[s].moved
          /\ \E i \in 1..k, j \in k..Len(Chain[s].log) : Invocation(Chain[s].log, i, j)
    /\ \A s, t \in SigSet : \A k \in DOMAIN Chain[s].log, l \in DOMAIN Chain[t].log :
          /\ PoolData(Chain[s].log, k) /\ PoolData(Chain[t].log, l) /\ <<s, k>> # <<t, l>>
          /\ Chain[s].slot = Chain[t].slot
          => Chain[s].log[k].event.tick # Chain[t].log[l].event.tick
ASSUME BoundAssumption ==
    Attempts \in Nat \ {0} /\ Growth \in 0..Len(Chain) /\ MaxFiles \in Nat
ASSUME JobAssumption ==
    \A j \in Jobs : /\ {j.limit, j.scan, j.pages} \subseteq Nat /\ j.min \in Nat \cup {NoMinimum}
                    /\ j.liquidity \in BOOLEAN

\* The lines of every transaction that match.
MatchedEvents ==
    [sig \in SigSet |-> {k \in DOMAIN Chain[sig].log : Matches(Chain[sig].log, k)}]

\* Orca's events have no liquidity, so without --active-liquidity they make no row.
Decodes == job.program = "raydium" \/ (job.program = "orca" /\ job.liquidity)

Previews(sig) == IF Decodes THEN MatchedEvents[sig] ELSE {}

\* parse_solana_pool_swap_sample: nothing, or one sample.
Parsed(sig) ==
    IF ~Invoked(Chain[sig].log) \/ ~Chain[sig].moved THEN <<>>
    ELSE <<[sig |-> sig, previews |-> Previews(sig)]>>

Normalized(s) == MapThenSumSet(LAMBDA k : Cardinality(s[k].previews), DOMAIN s)

GoalReached(s) ==
    IF job.min # NoMinimum THEN Normalized(s) >= job.min ELSE Len(s) >= job.limit

(***************************************************************************)
(* Rows of the files.  Rows are gathered as a function of their places: the *)
(* sample and the log line, or the input file and its row.  Places come in  *)
(* the order in which the code pushes the rows.                             *)
(***************************************************************************)
Pushed(p, q) == p[1] < q[1] \/ (p[1] = q[1] /\ p[2] < q[2])

SampleRow(s, k, line) ==
    [slot  |-> Chain[s[k].sig].slot,
     index |-> 1000 * (k - 1) + Cardinality({l \in s[k].previews : l < line}),
     tick  |-> Chain[s[k].sig].log[line].event.tick]

SampleRows(s) ==
    [p \in UNION {{k} \X s[k].previews : k \in DOMAIN s} |-> SampleRow(s, p[1], p[2])]

Earlier(a, b) ==
    \/ a.slot < b.slot
    \/ a.slot = b.slot /\ (a.index < b.index \/ (a.index = b.index /\ a.tick < b.tick))

\* The sorts are stable.
Sooner(rows, p, q) ==
    Earlier(rows[p], rows[q]) \/ (~Earlier(rows[q], rows[p]) /\ Pushed(p, q))

\* Sorted, and numbered from 0.
RankOf(rows, p)  == Cardinality({q \in DOMAIN rows : Sooner(rows, q, p)})
PlaceOf(rows, n) == CHOOSE p \in DOMAIN rows : RankOf(rows, p) = n - 1
InOrder(rows)    ==
    [n \in 1..Cardinality(DOMAIN rows) |-> [rows[PlaceOf(rows, n)] EXCEPT !.index = n - 1]]

Rows(s) == InOrder(SampleRows(s))

\* Bug: a swap that two files number differently is taken for two.
Key_bug(row) == <<row.slot, row.index, row.tick>>

Key(row) == <<row.slot, row.tick>>

\* The first of the rows with a key is kept.
IsFirst(rows, p) == \A q \in DOMAIN rows : Pushed(q, p) => Key(rows[q]) # Key(rows[p])
Unique(rows)     == [p \in {q \in DOMAIN rows : IsFirst(rows, q)} |-> rows[p]]

\* The rows of the input files, which are numbers of files.
InputRows(inputs) ==
    [p \in UNION {{j} \X DOMAIN files[inputs[j]].rows : j \in DOMAIN inputs} |->
        files[inputs[p[1]]].rows[p[2]]]

OldestKept == IF samples = <<>> THEN 0 ELSE samples[Len(samples)].sig

\* Bug: the cursor of the signature pages, which may be older than the last signature scanned.
Printed_bug == IF samples = <<>> THEN 0 ELSE cursor

\* next_before_signature
Printed == OldestKept

SamplerInit ==
    /\ height = Len(Chain) - Growth /\ pc = "idle"
    /\ job = <<>> /\ from = 0 /\ attempt = 0
    /\ cursor = 0 /\ page = {} /\ pages = 0 /\ samples = <<>> /\ errors = 0 /\ top = 0 /\ lost = {}
    /\ files = <<>> /\ merged = <<>>

\* The process is gone, and its variables with it.
Over ==
    /\ pc' = "idle" /\ job' = <<>> /\ from' = 0 /\ attempt' = 0
    /\ cursor' = 0 /\ page' = {} /\ pages' = 0 /\ samples' = <<>> /\ errors' = 0 /\ top' = 0 /\ lost' = {}

Grow ==
    /\ height < Len(Chain) /\ height' = height + 1
    /\ UNCHANGED <<job, from, pc, attempt, run, files, merged>>

\* A run starts at the newest signature, or behind a cursor an earlier run printed.
Start ==
    /\ pc = "idle" /\ Len(files) < MaxFiles
    /\ job' \in Jobs
    /\ \E b \in {0} \cup {files[k].next : k \in DOMAIN files} : from' = b /\ cursor' = b
    /\ pc' = "list"
    /\ UNCHANGED <<height, attempt, page, pages, samples, errors, top, lost, files, merged>>

\* The newest signatures before the cursor.
Listed ==
    LET newest == IF cursor = 0 THEN height ELSE cursor - 1
    IN  {sig \in 1..newest : newest - sig < job.scan}

Succeeded(listed) == {sig \in listed : ~Chain[sig].failed}

\* Pages come newest first, and their transactions are fetched in that order.
IsNext(sig) == sig \in page /\ \A other \in page : other <= sig

Retry ==
    /\ pc \in {"list", "tx"} /\ pc = "tx" => page # {}
    /\ \E reply \in Replies : TriedAgain(reply, SolanaRetried, attempt, Attempts)
    /\ attempt' = attempt + 1
    /\ UNCHANGED <<height, job, from, pc, run, files, merged>>

\* Bug: the cursor is the last signature of the page that is fetched, so a page of failed
\* transactions sends the run back to the newest.
ListPage_bug ==
    /\ pc = "list"
    /\ page' = Succeeded(Listed) /\ pages' = pages + 1 /\ attempt' = 0
    /\ cursor' = IF page' = {} THEN 0 ELSE Min(page')
    /\ pc' = IF Listed = {} THEN "write" ELSE "tx"
    /\ top' = IF pages = 0 /\ Listed # {} THEN Max(Listed) ELSE top
    /\ UNCHANGED <<height, job, from, samples, errors, lost, files, merged>>

ListPage ==
    /\ pc = "list"
    /\ page' = Succeeded(Listed) /\ pages' = pages + 1 /\ attempt' = 0
    /\ IF Listed = {}
       THEN pc' = "write" /\ UNCHANGED <<cursor, top>>
       ELSE /\ pc' = "tx" /\ cursor' = Min(Listed)
            /\ top' = IF pages = 0 THEN Max(Listed) ELSE top
    /\ UNCHANGED <<height, job, from, samples, errors, lost, files, merged>>

\* A page that does not come, or comes as null, ends the run with nothing written.
ListFails ==
    /\ pc = "list"
    /\ \E reply \in Replies : reply = "null" \/ Fails(reply, SolanaRetried, attempt, Attempts)
    /\ Over /\ UNCHANGED <<height, files, merged>>

\* A transaction the node does not have comes as null: no sample, and no error either.
FetchTx ==
    /\ pc = "tx"
    /\ \E sig \in page, reply \in Answers :
            /\ IsNext(sig) /\ page' = page \ {sig}
            /\ samples' = IF reply = "null" THEN samples ELSE samples \o Parsed(sig)
            /\ lost'    = IF reply = "null" THEN lost \cup {sig} ELSE lost
    /\ attempt' = 0
    /\ pc' = IF GoalReached(samples') THEN "write" ELSE "tx"
    /\ UNCHANGED <<height, job, from, cursor, pages, errors, top, files, merged>>

\* A transaction that does not come is counted and passed over.
TxFails ==
    /\ pc = "tx"
    /\ \E reply \in Replies : Fails(reply, SolanaRetried, attempt, Attempts)
    /\ \E sig \in page : IsNext(sig) /\ page' = page \ {sig} /\ lost' = lost \cup {sig}
    /\ errors' = errors + 1 /\ attempt' = 0
    /\ UNCHANGED <<height, job, from, pc, cursor, pages, samples, top, files, merged>>

PageDone ==
    /\ pc = "tx" /\ page = {}
    /\ pc' = IF GoalReached(samples) \/ pages >= job.pages THEN "write" ELSE "list"
    /\ UNCHANGED <<height, job, from, attempt, run, files, merged>>

WriteFile ==
    /\ pc = "write"
    /\ files' = Append(files, [from |-> from, top |-> top, next |-> Printed, rows |-> Rows(samples),
                               oldest |-> OldestKept, lost |-> lost, whole |-> Decodes])
    /\ Over /\ UNCHANGED <<height, merged>>

\* The inputs in any order; a file may be given twice.
Merge ==
    /\ pc = "idle" /\ files # <<>>
    /\ \E inputs \in {<<i>> : i \in DOMAIN files} \cup {<<i, j>> : i, j \in DOMAIN files} :
            merged' = InOrder(Unique(InputRows(inputs)))
    /\ pc' = "merged"
    /\ UNCHANGED <<height, job, from, attempt, run, files>>

Sample ==
    \/ Retry \/ ListPage \/ ListFails \/ FetchTx \/ TxFails \/ PageDone \/ WriteFile

SamplerNext == Grow \/ Start \/ Sample \/ Merge

SamplerSpec == SamplerInit /\ [][SamplerNext]_samplerVars

(***************************************************************************)
(* Properties.                                                              *)
(***************************************************************************)
\* A sample, a row, and a file of rows.
SampleSet == [sig : SigSet, previews : SUBSET (Nat \ {0})]
Row  == [slot : Nat, index : Nat, tick : Int]
File == [from : {0} \cup SigSet, top : {0} \cup SigSet, next : {0} \cup SigSet, rows : Seq(Row),
         oldest : {0} \cup SigSet, lost : SUBSET SigSet, whole : BOOLEAN]

SamplerTypeOK ==
    /\ height \in 0..Len(Chain) /\ job \in Jobs \cup {<<>>} /\ from \in {0} \cup SigSet
    /\ pc \in {"idle", "list", "tx", "write", "merged"} /\ attempt \in 0..Attempts - 1
    /\ cursor \in {0} \cup SigSet /\ page \subseteq SigSet /\ pages \in Nat
    /\ top \in {0} \cup SigSet /\ lost \subseteq SigSet /\ errors \in 0..Cardinality(lost)
    /\ samples \in Seq(SampleSet)
    /\ \A j, k \in DOMAIN samples : j < k => samples[j].sig > samples[k].sig
    /\ files \in Seq(File) /\ Len(files) <= MaxFiles /\ merged \in Seq(Row)

\* The pool's swaps on the chain: ground truth, not read by any action.
SwapsOf ==
    [sig \in SigSet |->
        {[slot |-> Chain[sig].slot, tick |-> Chain[sig].log[k].event.tick] :
            k \in {l \in DOMAIN Chain[sig].log : PoolData(Chain[sig].log, l)}}]

Content(file) == {[slot |-> file.rows[j].slot, tick |-> file.rows[j].tick] : j \in DOMAIN file.rows}

\* A file holds every swap of the pool between its oldest and its newest transaction, once and
\* no other, but for the transactions that did not come; and the file of a run that goes on
\* from its printed cursor joins it without a gap.
SampleIsExact ==
    \A k \in DOMAIN files : files[k].oldest # 0 /\ files[k].whole =>
        /\ Cardinality(Content(files[k])) = Len(files[k].rows)
        /\ Content(files[k]) = UNION {SwapsOf[sig] : sig \in (files[k].oldest .. files[k].top) \ files[k].lost}
        /\ \A i \in 1..k - 1 : files[i].whole /\ files[k].from # 0 /\ files[k].from = files[i].next =>
                UNION {SwapsOf[sig] : sig \in (files[k].oldest .. files[i].top) \ (files[i].lost \cup files[k].lost)}
                    \subseteq Content(files[i]) \cup Content(files[k])

\* Merging overlapping files, in any order, keeps each swap of theirs once, slot after slot.
MergeIsExact ==
    pc = "merged" =>
        /\ \A j \in DOMAIN merged : merged[j].index = j - 1
        /\ \A j, k \in DOMAIN merged : j < k => merged[j].slot <= merged[k].slot
        /\ \A j, k \in DOMAIN merged : j # k => ~(merged[j].slot = merged[k].slot /\ merged[j].tick = merged[k].tick)
        /\ \E K \in SUBSET DOMAIN files : Content([rows |-> merged]) = UNION {Content(files[k]) : k \in K}
=============================================================================
