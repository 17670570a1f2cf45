----------------------------- MODULE DiskBuffer -----------------------------
(***************************************************************************)
(* The SQLite spill buffer of the agent (agent/src/disk_buffer.cpp): the   *)
(* table pending, the in-memory row and byte counters that enforce the     *)
(* size limit, and every way a statement can fail. The counters live in    *)
(* the process and are recomputed by Open; the table lives in the file.    *)
(***************************************************************************)
EXTENDS Integers, Sequences

CONSTANTS
    Batch,          \* the payloads
    BatchSize,      \* the size in bytes of each payload
    Limits,         \* the values max_bytes takes from one start to the next
    Wrap,           \* 2^64, the width of the uint64_t counters
    MaxPop,         \* the largest count passed to Pop
    MaxRows,        \* bound: rows ever in the table
    MaxStarts       \* bound: process starts

(* SELECT sum(length(payload)) FROM pending                                *)
TotalBytes(t) ==
    LET sum[i \in 0 .. Len(t)] ==
            IF i = 0 THEN 0 ELSE sum[i - 1] + BatchSize[t[i]]
    IN  sum[Len(t)]

(* A file never holds 2^64 bytes.                                          *)
ASSUME DiskBufferAssumption ==
    /\ BatchSize \in [Batch -> Nat \ {0}]
    /\ {Wrap, MaxPop, MaxRows, MaxStarts} \subseteq Nat \ {0}
    /\ Limits \subseteq 1 .. (Wrap - 1)
    /\ \A n \in 0 .. MaxRows : \A t \in [1 .. n -> Batch] : TotalBytes(t) < Wrap

VARIABLES
    schema,         \* the file holds the table pending
    table,          \* its rows in seq order, as committed
    synced,         \* rows in stable storage
    alive,          \* a process is running
    db,             \* m_impl->db # nullptr
    rows,           \* m_impl->rows
    bytes,          \* m_impl->bytes
    maxBytes,       \* m_max_bytes
    exact,          \* history: no recount or scan failed in this process
    starts

vars == <<schema, table, synced, alive, db, rows, bytes, maxBytes, exact,
          starts>>

Oldest(t, n) == SubSeq(t, 1, n)
WithoutOldest(t, n) == SubSeq(t, n + 1, Len(t))

(* Saturating subtraction of Pop, and the wrapping one of Trim.            *)
Saturated(a, b) == IF a > b THEN a - b ELSE 0
Wrapped(a, b) == (a - b + Wrap) % Wrap

Init ==
    /\ schema = FALSE
    /\ table = << >>
    /\ synced = << >>
    /\ alive = FALSE
    /\ db = FALSE
    /\ rows = 0
    /\ bytes = 0
    /\ maxBytes \in Limits
    /\ exact = FALSE
    /\ starts = 0

(***************************************************************************)
(* Open. Four endings: no handle; a handle but a failed schema statement   *)
(* (Open returns false and leaves the handle set); a failed recount, which *)
(* leaves the counters at zero; success.                                   *)
(***************************************************************************)
Start(limit) ==
    /\ ~alive
    /\ starts < MaxStarts
    /\ starts' = starts + 1
    /\ alive' = TRUE
    /\ maxBytes' = limit
    /\ UNCHANGED <<table, synced>>

OpenNoHandle(limit) ==
    /\ Start(limit)
    /\ UNCHANGED schema
    /\ db' = FALSE /\ exact' = FALSE
    /\ rows' = 0 /\ bytes' = 0

OpenNoSchema(limit) ==
    /\ Start(limit)
    /\ UNCHANGED schema
    /\ db' = TRUE /\ exact' = FALSE
    /\ rows' = 0 /\ bytes' = 0

OpenNoCount(limit) ==
    /\ Start(limit)
    /\ schema' = TRUE
    /\ db' = TRUE /\ exact' = FALSE
    /\ rows' = 0 /\ bytes' = 0

(* Mutant: only the rows are recounted.                                    *)
OpenCounted_noBytes(limit) ==
    /\ Start(limit)
    /\ schema' = TRUE
    /\ db' = TRUE /\ exact' = TRUE
    /\ rows' = Len(table)
    /\ bytes' = 0

OpenCounted(limit) ==
    /\ Start(limit)
    /\ schema' = TRUE
    /\ db' = TRUE /\ exact' = TRUE
    /\ rows' = Len(table)
    /\ bytes' = TotalBytes(table)

Open(limit) ==
    \/ OpenNoHandle(limit)
    \/ OpenNoSchema(limit)
    \/ OpenNoCount(limit)
    \/ OpenCounted(limit)

(***************************************************************************)
(* Trim. The scan adds rows, oldest first, until what is kept fits.        *)
(***************************************************************************)
Kept(n) == Wrapped(bytes, TotalBytes(Oldest(table, n)))

ScanStops(n) ==
    /\ n = Len(table) \/ Kept(n) <= maxBytes
    /\ \A m \in 0 .. n - 1 : Kept(m) > maxBytes

ScanLength ==
    IF bytes <= maxBytes
      THEN 0
      ELSE CHOOSE n \in 0 .. Len(table) : ScanStops(n)

(* Mutant: the newest rows are trimmed instead of the oldest.              *)
AfterTrim_newestFirst(n) ==
    [table |-> Oldest(table, Len(table) - n),
     rows  |-> Saturated(rows, n),
     bytes |-> Kept(n)]

(* The table, rows and bytes after Trim scanned n rows.                    *)
AfterTrim(n) ==
    LET removed == IF n > rows THEN rows ELSE n
    IN  [table |-> WithoutOldest(table, removed),
         rows  |-> Saturated(rows, removed),
         bytes |-> Kept(n)]

(* A failing statement leaves everything alone, a failing sqlite3_step     *)
(* ends the scan early.                                                    *)
TrimOutcomes == {AfterTrim(n) : n \in 0 .. ScanLength}

(***************************************************************************)
(* Push, Pop. Push trims first, refuses what does not fit, then inserts.   *)
(***************************************************************************)
(* Mutant: the new payload is left out of the check.                       *)
Fits_ignoresNew(t, b) == t.bytes <= maxBytes

Fits(t, b) == t.bytes + BatchSize[b] <= maxBytes

PushStored(b) ==
    /\ db /\ schema
    /\ Len(table) < MaxRows
    /\ \E t \in TrimOutcomes :
         /\ Fits(t, b)
         /\ table' = Append(t.table, b)
         /\ rows' = t.rows + 1
         /\ bytes' = t.bytes + BatchSize[b]
    /\ UNCHANGED <<schema, synced, alive, db, maxBytes, exact,
                   starts>>

(* The INSERT failed (sqlite3_prepare or sqlite3_step), or no room is left. *)
PushRefused(b) ==
    /\ db
    /\ \E t \in TrimOutcomes :
         /\ table' = t.table
         /\ rows' = t.rows
         /\ bytes' = t.bytes
    /\ UNCHANGED <<schema, synced, alive, db, maxBytes, exact,
                   starts>>

(* Pop sums the sizes of the rows it is about to delete; the scan may end   *)
(* early on an error, and the DELETE still removes count rows. A failing    *)
(* DELETE changes nothing.                                                  *)
Pop(count) ==
    /\ db /\ schema
    /\ \E scanned \in 0 .. count :
         /\ scanned <= Len(table)
         /\ table' = WithoutOldest(table, count)
         /\ rows' = Saturated(rows, count)
         /\ bytes' = Saturated(bytes, TotalBytes(Oldest(table, scanned)))
         /\ exact' = (exact /\ (scanned = count \/ scanned = Len(table)))
    /\ UNCHANGED <<schema, synced, alive, db, maxBytes, starts>>

Sync ==
    /\ synced' = table
    /\ UNCHANGED <<schema, table, alive, db, rows, bytes, maxBytes,
                   exact, starts>>

(* The counters die with the process.                                      *)
Down ==
    /\ alive
    /\ alive' = FALSE /\ db' = FALSE
    /\ rows' = 0 /\ bytes' = 0
    /\ exact' = FALSE
    /\ UNCHANGED <<synced, maxBytes, starts>>

Exit == Down /\ UNCHANGED <<schema, table>>

(* Unsynced transactions are rolled back, the CREATE TABLE too.            *)
PowerLoss ==
    /\ Down
    /\ table' = synced
    /\ schema' \in {schema, schema /\ synced # << >>}

Next ==
    \/ \E limit \in Limits : Open(limit)
    \/ \E b \in Batch : PushStored(b)
    \/ \E b \in Batch : PushRefused(b)
    \/ \E count \in 1 .. MaxPop : Pop(count)
    \/ Sync
    \/ Exit
    \/ PowerLoss

Spec == Init /\ [][Next]_vars
-----------------------------------------------------------------------------
(* Counter drift: through any sequence of pushes, pops, trims, crashes,    *)
(* power losses and reopenings the incrementally kept counters equal what  *)
(* a fresh SELECT count, sum would return, as long as the recount of Open  *)
(* and the size scan of Pop did not fail in this process. Even if one did, *)
(* the unsigned subtraction of Trim (kept -= sz) never wraps: whenever     *)
(* Trim has work to do, bytes is at least the size of every prefix it can  *)
(* remove.                                                                 *)
CountersExact ==
    /\ exact => rows = Len(table) /\ bytes = TotalBytes(table)
    /\ bytes > maxBytes =>
         \A n \in 0 .. Len(table) : TotalBytes(Oldest(table, n)) <= bytes

(* disk-buffer-max-mb: with exact counters, a step that stores a row leaves *)
(* no more than the limit on disk, even right after the limit was lowered. *)
GrowthWithinLimit ==
    [][ (exact /\ exact' /\ \A n \in 0 .. Len(table) :
                                table' # WithoutOldest(table, n))
        => TotalBytes(table') <= maxBytes ]_vars

(* The table is the first-in first-out queue the main loop relies on: rows *)
(* leave from the old end only, and only an overfull table is trimmed.     *)
Queue == INSTANCE SpillQueue WITH
            spill <- table, spillUp <- db, overfull <- (bytes > maxBytes)

QueueSpec == Queue!SpillSpec
=============================================================================
