----------------------------- MODULE LiveShadow -----------------------------
(***************************************************************************)
(* The live shadow of a DLMM pool: heartbeats of                            *)
(* scripts/meteora-dlmm-live-shadow.sh over the files of one out dir.  Each *)
(* takes a snapshot of the pool, pages backwards through its transactions   *)
(* from the saved cursor, appends the swaps it decodes, saves the cursor,   *)
(* takes a second snapshot, joins flow and snapshots and replays the join.  *)
(* Any command may fail or be killed; the next heartbeat starts over with   *)
(* what the files hold (set -e: a failing command ends the heartbeat).      *)
(*                                                                          *)
(* Simplifications: a transaction is a number, the oldest is 1, and its     *)
(* place in the slot order; every decoded swap has a price and an amount;   *)
(* every snapshot has liquidity; the raw and latest files, which nothing    *)
(* but the cursor step reads, are left out.                                 *)
(***************************************************************************)
EXTENDS Integers, Sequences, FiniteSets

CONSTANTS
    N,           \* transactions of the pool
    SlotOf,      \* the slot of each
    KindOf,      \* what each is
    LastSlot,    \* bound: the clock stops here
    PageSize,    \* SIGNATURE_SCAN_LIMIT
    MaxPages,    \* MAX_SIGNATURE_PAGES
    Limit,       \* FLOW_LIMIT
    SlotGap,     \* MAX_SLOT_DISTANCE
    Window, StepSize, MinWindows,   \* the gate's *_OBSERVATIONS and MIN_WINDOWS
    MaxDeaths    \* bound: deaths of a heartbeat

Tx   == 1..N
Kind == {"swap", "other", "failed"}

ASSUME ChainAssumption ==
    /\ N \in Nat \ {0} /\ LastSlot \in Nat
    /\ SlotOf \in [Tx -> 1..LastSlot] /\ \A i, j \in Tx : i <= j => SlotOf[i] <= SlotOf[j]
    /\ KindOf \in [Tx -> Kind]
ASSUME ArgsAssumption ==
    /\ {PageSize, MaxPages, Limit, StepSize} \subseteq Nat \ {0}
    /\ {SlotGap, Window, MinWindows, MaxDeaths} \subseteq Nat

VARIABLES
    now,         \* the chain's slot
    pc,          \* the command the heartbeat is in
    before,      \* BEFORE_SIGNATURE, 0 for none
    cursor,      \* cursor of the swap-flow command, 0 for none
    queue, pages,\* the rest of the page, and the pages read
    rows,        \* swaps decoded in this heartbeat
    flow, snaps, \* the two JSONL files
    cursorFile,  \* CURSOR_FILE, 0 when absent or empty
    proxy,       \* the joined rows
    deaths,
    refused,     \* model only: transactions the RPC did not return
    dropped,     \* model only: transactions left unread behind a full heartbeat
    top, fileTop \* model only: where the walk began that led to cursor, to cursorFile

run   == <<before, cursor, queue, pages, rows, top>>
saved == <<cursorFile, fileTop>>
lost  == <<refused, dropped>>
vars  == <<now, pc, run, flow, snaps, saved, proxy, deaths, lost>>

-----------------------------------------------------------------------------
(***************************************************************************)
(* JSONL files.  A line is the sequence of what was written to it; Cut is a *)
(* record broken off.  A file is open when its last line has no newline.    *)
(***************************************************************************)
Cut == 0
EmptyFile == [lines |-> <<>>, open |-> FALSE]

Whole(line) == Len(line) = 1 /\ line[1] # Cut
Keys(file)  == {file.lines[l][1] : l \in {m \in DOMAIN file.lines : Whole(file.lines[m])}}
Malformed(file) == \E l \in DOMAIN file.lines : ~Whole(file.lines[l])

\* What reached the file, readable or not.
Written(file) == UNION {{file.lines[l][j] : j \in DOMAIN file.lines[l]} : l \in DOMAIN file.lines}

\* The first record written to an open file continues its last line.
Lines(records)  == [j \in DOMAIN records |-> <<records[j]>>]
Continued(lines, record) == [lines EXCEPT ![Len(lines)] = Append(@, record)]

Write(file, records, open) ==
    IF records = <<>> THEN file
    ELSE IF file.open
    THEN [lines |-> Continued(file.lines, records[1]) \o Tail(Lines(records)), open |-> open]
    ELSE [lines |-> file.lines \o Lines(records), open |-> open]

\* An append that does not complete: some records, and the next one cut off or
\* without its newline.
TornWrites(file, records) ==
    UNION {{Write(file, SubSeq(records, 1, k), FALSE),
            Write(file, SubSeq(records, 1, k), TRUE),
            Write(file, Append(SubSeq(records, 1, k - 1), Cut), TRUE)} : k \in DOMAIN records}

-----------------------------------------------------------------------------
Init ==
    /\ now = 1 /\ pc = "idle"
    /\ before = 0 /\ cursor = 0 /\ queue = {} /\ pages = 0 /\ rows = {} /\ top = 0
    /\ flow = EmptyFile /\ snaps = EmptyFile
    /\ cursorFile = 0 /\ fileTop = 0
    /\ proxy = {} /\ deaths = 0 /\ refused = {} /\ dropped = {}

Tick == now < LastSlot /\ now' = now + 1
        /\ UNCHANGED <<pc, run, flow, snaps, saved, proxy, deaths, lost>>

\* (Names that end in _bug are faulty variants of the definition that follows them;
\* no specification uses them.  They show that a property can fail.)
\* A heartbeat starts from the saved cursor, if there is one.
Begin ==
    /\ pc = "idle" /\ pc' = "before"
    /\ before' = cursorFile /\ cursor' = cursorFile /\ top' = fileTop
    /\ queue' = {} /\ pages' = 0 /\ rows' = {}
    /\ UNCHANGED <<now, flow, snaps, saved, proxy, deaths, lost>>

\* Append a snapshot, unless the file has one of this slot.
NewSnapshot == IF now \in Keys(snaps) THEN <<>> ELSE <<now>>

Snapshot ==
    /\ \/ pc = "before" /\ pc' = "pages"
       \/ pc = "after" /\ pc' = "join"
    /\ snaps' = Write(snaps, NewSnapshot, FALSE)
    /\ UNCHANGED <<now, run, flow, saved, proxy, deaths, lost>>

-----------------------------------------------------------------------------
\* Bug: the page starts at the newest signature, whatever the cursor.
Page_bug == LET mined == {i \in Tx : SlotOf[i] <= now}
            IN  {i \in mined : Cardinality({j \in mined : j > i}) < PageSize}

\* getSignaturesForAddress: the newest signatures before the cursor.
Page == LET listed == {i \in Tx : SlotOf[i] <= now /\ (cursor = 0 \/ i < cursor)}
        IN  {i \in listed : Cardinality({j \in listed : j > i}) < PageSize}

\* Bug: one page too many.
PagesLeft_bug == pages <= MaxPages
PagesLeft == pages < MaxPages

\* Where the walk stands after a page, and where it began: the oldest signature of the
\* page, and its newest when there was no cursor.
Oldest(c) == c \in Page /\ \A i \in Page : c <= i
Newest(c) == c \in Page /\ \A i \in Page : i <= c

\* Bug: the last signature of a page is left for the next one.
FetchPage_bug ==
    /\ pc = "pages" /\ PagesLeft /\ Page # {}
    /\ pc' = "txs" /\ pages' = pages + 1
    /\ \E c \in Tx : Oldest(c) /\ cursor' = c
    /\ \E t \in Tx : Newest(t) /\ top' = (IF cursor = 0 THEN t ELSE top)
    /\ queue' = {i \in Page : KindOf[i] # "failed" /\ ~Oldest(i)}
    /\ UNCHANGED <<now, before, rows, flow, snaps, saved, proxy, deaths, lost>>

\* The cursor moves to the end of the page before its transactions are read.
FetchPage ==
    /\ pc = "pages" /\ PagesLeft /\ Page # {}
    /\ pc' = "txs" /\ pages' = pages + 1
    /\ \E c \in Tx : Oldest(c) /\ cursor' = c
    /\ \E t \in Tx : Newest(t) /\ top' = (IF cursor = 0 THEN t ELSE top)
    /\ queue' = {i \in Page : KindOf[i] # "failed"}
    /\ UNCHANGED <<now, before, rows, flow, snaps, saved, proxy, deaths, lost>>

EndPages ==
    /\ pc = "pages" /\ (~PagesLeft \/ Page = {}) /\ pc' = "write"
    /\ UNCHANGED <<now, run, flow, snaps, saved, proxy, deaths, lost>>

\* A transaction that errors, or is not there yet, is passed over.  When the rows are as
\* many as the limit, the rest of the page is not read.
FetchTx ==
    /\ pc = "txs"
    /\ \E i \in queue :
        /\ \A j \in queue : j <= i
        /\ \/ /\ rows' = IF KindOf[i] = "swap" THEN rows \cup {i} ELSE rows
              /\ UNCHANGED refused
           \/ refused' = refused \cup {i} /\ UNCHANGED rows
        /\ IF Cardinality(rows') >= Limit
           THEN pc' = "write" /\ queue' = {} /\ dropped' = dropped \cup (queue \ {i})
           ELSE pc' = "txs" /\ queue' = queue \ {i} /\ UNCHANGED dropped
    /\ UNCHANGED <<now, before, cursor, pages, top, flow, snaps, saved, proxy, deaths>>

EndPage ==
    /\ pc = "txs" /\ queue = {} /\ pc' = "pages"
    /\ UNCHANGED <<now, run, flow, snaps, saved, proxy, deaths, lost>>

-----------------------------------------------------------------------------
\* The one sequence of the members of S in ascending order.
Ascending(S) ==
    {s \in [1..Cardinality(S) -> S] : /\ \A i \in S : \E j \in DOMAIN s : s[j] = i
                                    /\ \A j, k \in DOMAIN s : j < k => s[j] < s[k]}

\* Bug: the rows the file already has are written again.
Fresh_bug == Ascending(rows)

\* The rows the file does not have, in the order of their slots.
Fresh == Ascending(rows \ Keys(flow))

WriteFlow ==
    /\ pc = "write" /\ pc' = "save"
    /\ \E records \in Fresh : flow' = Write(flow, records, FALSE)
    /\ UNCHANGED <<now, run, snaps, saved, proxy, deaths, lost>>

\* `>` truncates the file before printf writes the signature.
TruncateCursor ==
    /\ pc = "save" /\ cursor # 0 /\ pc' = "saving"
    /\ cursorFile' = 0 /\ fileTop' = 0
    /\ UNCHANGED <<now, run, flow, snaps, proxy, deaths, lost>>

\* Bug: the cursor is kept for a heartbeat that found no swaps.
WriteCursor_bug ==
    /\ pc = "saving" /\ pc' = "after"
    /\ cursorFile' = (IF rows = {} THEN before ELSE cursor) /\ fileTop' = top
    /\ UNCHANGED <<now, run, flow, snaps, proxy, deaths, lost>>

WriteCursor ==
    /\ pc = "saving" /\ pc' = "after"
    /\ cursorFile' = cursor /\ fileTop' = top
    /\ UNCHANGED <<now, run, flow, snaps, proxy, deaths, lost>>

NothingToSave ==
    /\ pc = "save" /\ cursor = 0 /\ pc' = "after"
    /\ UNCHANGED <<now, run, flow, snaps, saved, proxy, deaths, lost>>

-----------------------------------------------------------------------------
Near(i, s) == SlotOf[i] - s <= SlotGap /\ s - SlotOf[i] <= SlotGap

\* The join reads both files from the start and refuses a malformed line.
Joinable == ~Malformed(flow) /\ ~Malformed(snaps) /\ Keys(snaps) # {}

\* Bug: only snapshots taken before the swap count.
Joined_bug == {i \in Keys(flow) : \E s \in Keys(snaps) : s <= SlotOf[i] /\ Near(i, s)}
Joined == {i \in Keys(flow) : \E s \in Keys(snaps) : Near(i, s)}

Join ==
    /\ pc = "join" /\ Joinable /\ pc' = "gate"
    /\ proxy' = Joined
    /\ UNCHANGED <<now, run, flow, snaps, saved, deaths, lost>>

JoinFails ==
    /\ pc = "join" /\ ~Joinable /\ pc' = "idle"
    /\ UNCHANGED <<now, run, flow, snaps, saved, proxy, deaths, lost>>

EnoughWindows ==
    /\ Cardinality(proxy) >= Window
    /\ 1 + (Cardinality(proxy) - Window) \div StepSize >= MinWindows

Gate ==
    /\ pc = "gate" /\ pc' = (IF EnoughWindows THEN "replay" ELSE "idle")
    /\ UNCHANGED <<now, run, flow, snaps, saved, proxy, deaths, lost>>

Replay ==
    /\ pc = "replay" /\ pc' = "idle"
    /\ UNCHANGED <<now, run, flow, snaps, saved, proxy, deaths, lost>>

\* A command fails, or the heartbeat is killed: between its writes, or in an append.
Die ==
    /\ pc # "idle" /\ deaths < MaxDeaths
    /\ pc' = "idle" /\ deaths' = deaths + 1
    /\ \/ UNCHANGED <<flow, snaps>>
       \/ pc = "write" /\ (\E records \in Fresh : flow' \in TornWrites(flow, records)) /\ UNCHANGED snaps
       \/ pc \in {"before", "after"} /\ snaps' \in TornWrites(snaps, NewSnapshot) /\ UNCHANGED flow
    /\ UNCHANGED <<now, run, saved, proxy, lost>>

Heartbeat ==
    \/ Begin \/ Snapshot \/ FetchPage \/ EndPages \/ FetchTx \/ EndPage \/ WriteFlow
    \/ TruncateCursor \/ WriteCursor \/ NothingToSave \/ Join \/ JoinFails \/ Gate \/ Replay

Next == Tick \/ Heartbeat \/ Die

Spec     == Init /\ [][Next]_vars
FairSpec == Spec /\ WF_vars(Heartbeat)

-----------------------------------------------------------------------------
Commands == {"idle", "before", "pages", "txs", "write", "save", "saving", "after",
             "join", "gate", "replay"}

File(K) == [lines : Seq(Seq(K \cup {Cut})), open : BOOLEAN]

\* Types; the walk reads at most MaxPages pages.
TypeOK ==
    /\ now \in 1..LastSlot /\ pc \in Commands
    /\ before \in 0..N /\ cursor \in 0..N /\ cursorFile \in 0..N
    /\ top \in 0..N /\ fileTop \in 0..N
    /\ queue \subseteq Tx /\ pages \in 0..MaxPages
    /\ rows \subseteq Tx /\ proxy \subseteq Tx
    /\ refused \subseteq Tx /\ dropped \subseteq Tx
    /\ flow \in File(Tx) /\ snaps \in File(1..LastSlot)
    /\ deaths \in 0..MaxDeaths

\* Heartbeats that overlap after a death or a lost cursor store a swap once, and a
\* slot's snapshot once: the replay would otherwise count the fee twice.
NoDuplicateRows ==
    \A file \in {flow, snaps} : \A l, m \in DOMAIN file.lines :
        l # m /\ Whole(file.lines[l]) => file.lines[l] # file.lines[m]

\* What the saved cursor has passed since its walk began.
Passed == IF cursorFile = 0 THEN {} ELSE {i \in cursorFile..fileTop : KindOf[i] = "swap"}

\* A swap the saved cursor has passed and that is not in the flow file was refused by the
\* RPC or stood behind the row limit: no death between the append and the cursor, torn
\* append or lost cursor loses one.
CursorCovers == Passed \subseteq Written(flow) \cup refused \cup dropped

\* "future heartbeats can run small continuous backfill batches"
\* (docs/hot-pool-autoresearch.md:1114): what the saved cursor has passed has no hole but
\* where the RPC did not answer.
BatchesAreContinuous == Passed \subseteq Written(flow) \cup refused

\* Heartbeats with a cursor "run small continuous backfill batches"
\* (docs/hot-pool-autoresearch.md:1114): a heartbeat saves no cursor newer than the one
\* it began with.
BackfillMovesBack ==
    [][cursorFile' \notin {0, cursorFile} /\ before # 0 => cursorFile' <= before]_vars

\* The replay sees whole records only ("The consumer will surface malformed JSONL",
\* meteora-dlmm-swap-flow.cjs:223), and every swap the cursor has passed that was read and
\* is close to a stored snapshot, those of this heartbeat included.
ReplayIsComplete ==
    pc = "replay" =>
        /\ ~Malformed(flow) /\ ~Malformed(snaps)
        /\ \A i \in Passed \ (refused \cup dropped) : (\E s \in Keys(snaps) : Near(i, s)) => i \in proxy

\* Heartbeats that keep coming carry the cursor back to the pool's first transaction,
\* over deaths, lost cursors and refused transactions, once it is on the chain.
ReachesOldest == []<>(cursorFile = 1 \/ now < SlotOf[1])
=============================================================================
