------------------------ MODULE NotificationBuffer ------------------------
(***************************************************************************)
(* The bounded queue of run notifications, and a client that replays it by *)
(* cursor: NotificationBuffer behind read_notifications.                   *)
(***************************************************************************)
EXTENDS Integers, Sequences

CONSTANTS
  MaxItems,   \* maxQueueItems
  MaxBytes,   \* maxQueueBytes
  Sizes,      \* sizes of notifications, some of them over MaxBytes
  MaxCursor   \* bound: notifications published

ASSUME BufferAssumption ==
  /\ MaxItems \in Nat \ {0} /\ MaxBytes \in Nat \ {0}
  /\ Sizes \subseteq Nat \ {0} /\ MaxCursor \in Nat

VARIABLES
  items,        \* #items: the notifications retained, [cursor, bytes]
  nextCursor,   \* #nextCursor
  totalBytes,   \* #totalBytes
  discarded,    \* #discardedThroughCursor
  cursor,       \* the cursor the client continues from
  got,          \* cursors of the notifications the client has received
  skipped       \* cursors the client was told it has lost

bufferVars == <<items, nextCursor, totalBytes, discarded, cursor, got, skipped>>

-----------------------------------------------------------------------------
Bytes(s) == LET sum[i \in 0 .. Len(s)] == IF i = 0 THEN 0 ELSE sum[i - 1] + s[i].bytes
            IN  sum[Len(s)]

\* The bug: the bytes are not counted.
FitsByItems(q, bytes, k) == k = Len(q) \/ Len(q) - k <= MaxItems

\* Nothing is over a limit when the first k of q are gone, or nothing is left.
Fits(q, bytes, k) ==
  \/ k = Len(q)
  \/ Len(q) - k <= MaxItems /\ bytes - Bytes(SubSeq(q, 1, k)) <= MaxBytes

\* The index of the first notification after c (from 1): the binary search.
Probes(c) ==
  LET search[range \in (0 .. Len(items)) \X (0 .. Len(items))] ==
        LET low    == range[1]
            high   == range[2]
            middle == low + (high - low) \div 2
        IN  IF low >= high THEN low
            ELSE IF items[middle + 1].cursor <= c THEN search[<<middle + 1, high>>]
                                                  ELSE search[<<low, middle>>]
  IN  search[<<0, Len(items)>>]

\* The bug: the search stops one notification late.
firstAfterLate(c) == Probes(c) + 2

firstAfter(c) == Probes(c) + 1

\* The bug: only the first one that is shifted out is recorded.
discardedFirst(q, k) == IF k = 0 THEN discarded ELSE q[1].cursor

\* discardedThroughCursor when the first k of q make room.
discardedThrough(q, k) == IF k = 0 THEN discarded ELSE q[k].cursor

-----------------------------------------------------------------------------
BufferInit ==
  /\ items = <<>> /\ nextCursor = 1 /\ totalBytes = 0 /\ discarded = 0
  /\ cursor = 0 /\ got = {} /\ skipped = {}

\* publish(): the oldest notifications make room for the new one.
Publish(bytes) ==
  /\ nextCursor <= MaxCursor /\ bytes <= MaxBytes
  /\ nextCursor' = nextCursor + 1
  /\ LET q     == Append(items, [cursor |-> nextCursor, bytes |-> bytes])
         total == totalBytes + bytes
     IN  \E k \in 0 .. Len(q) :
           /\ Fits(q, total, k) /\ \A j \in 0 .. k - 1 : ~Fits(q, total, j)
           /\ items' = SubSeq(q, k + 1, Len(q))
           /\ totalBytes' = total - Bytes(SubSeq(q, 1, k))
           /\ discarded' = discardedThrough(q, k)
  /\ UNCHANGED <<cursor, got, skipped>>

\* publish() throws NOTIFICATION_TOO_LARGE.
TooLarge(bytes) == bytes > MaxBytes /\ UNCHANGED bufferVars

latestCursor == nextCursor - 1

\* read() of the client's cursor, or CURSOR_EXPIRED with the cursor to resume from.
Read ==
  /\ IF cursor < discarded
     THEN /\ cursor' = discarded
          /\ skipped' = skipped \cup cursor + 1 .. discarded
          /\ UNCHANGED got
     ELSE /\ got' = got \cup {items[i].cursor : i \in firstAfter(cursor) .. Len(items)}
          /\ cursor' = latestCursor
          /\ UNCHANGED skipped
  /\ UNCHANGED <<items, nextCursor, totalBytes, discarded>>

BufferNext == (\E bytes \in Sizes : Publish(bytes) \/ TooLarge(bytes)) \/ Read

BufferSpec == BufferInit /\ [][BufferNext]_bufferVars

-----------------------------------------------------------------------------
\* The queue holds exactly the notifications after the last one discarded, in
\* order and without a hole, so that "discarded through" says what was lost.
Contiguous ==
  /\ nextCursor = discarded + Len(items) + 1
  /\ \A i \in 1 .. Len(items) : items[i].cursor = discarded + i

\* Neither limit is exceeded, and the byte counter that enforces the second
\* one has not drifted from what is queued.
WithinLimits ==
  /\ Len(items) <= MaxItems
  /\ totalBytes = Bytes(items) /\ totalBytes <= MaxBytes

\* A client that follows its cursor has received, or was told it lost, every
\* notification up to the cursor, and none of them twice as the other.
NothingMissed ==
  /\ got \cup skipped = 1 .. cursor
  /\ got \cap skipped = {}
=============================================================================
