------------------------ MODULE IntegerChunksProofs ------------------------
(***************************************************************************)
(* Proofs about IntegerChunks for every table, key width, step size and    *)
(* number of threads.  The inductive invariant says that the keys a chunk  *)
(* has still to dump, Pending, are disjoint from those of every other      *)
(* chunk and from what was written, and that together they are the table.  *)
(***************************************************************************)
EXTENDS IntegerChunks, TLAPS

Dumped == {"resize", "resize_empty", "advance"}

\* The first key chunk i has still to write, and the rows it still owns.
From(i) == IF tj[i] \in Dumped THEN csi[i].cursor + 1 ELSE csi[i].min
Pending(i) == RowsBetween(From(i), csi[i].max)

(* What holds of one chunk c whose worker is at pc. *)

RangeOK(c, pc) ==
    /\ c.max <= LastKey
    /\ c.min > 0 \/ c.max < MaxU
    /\ pc \in {"none", "step", "cancelled"} => c.min <= c.max /\ c.min <= c.cursor + 1
    /\ pc \in Dumped \cup {"write"} => c.min <= c.cursor /\ c.cursor <= c.max
    /\ pc = "test" /\ (c.min <= c.max \/ c.status = "ASSIGNED") => c.min <= c.cursor + 1
    /\ pc = "done" => c.min > c.max

\* A chunk that stage 1 found empty is split, if at all, where there is no row.
SkippedOK(c, pc) ==
    pc = "test" /\ c.status = "DUMPING_CHUNK"
        => /\ ~FixedLength
           /\ c.min > c.max
           /\ \A k \in Rows : ~(c.cursor < k /\ k <= c.max)

StepOK(c, pc) ==
    /\ FixedLength => c.step = StartStep
    /\ pc # "done" /\ (c.min <= c.max \/ c.status = "DUMPING_CHUNK") => c.step >= 1
    /\ FixedLength /\ pc \in {"write", "advance"} => c.cursor <= c.min + c.step - 1
    /\ FixedLength => pc \notin {"resize", "resize_empty"}

StatusOK(c, pc) ==
    /\ pc = "none" <=> c.status = "UNASSIGNED"
    /\ c.status = "ASSIGNED" => pc \in {"step", "test", "cancelled"}
    /\ c.status = "DUMPING_CHUNK" => pc \in Dumped \cup {"write", "test"}
    /\ c.status = "COMPLETED" => pc = "done"

ChunkOK(c, pc) == RangeOK(c, pc) /\ SkippedOK(c, pc) /\ StepOK(c, pc) /\ StatusOK(c, pc)

(* What relates the chunks with each other and with the files. *)

Disjoint == \A i, j \in chunks : i # j => Pending(i) \cap Pending(j) = {}
PendingUnwritten == \A i \in chunks : \A k \in Pending(i) : written[k] = 0
Covered == ~shutdown_triggered =>
             \A k \in Rows : written[k] = 1 \/ \E i \in chunks : k \in Pending(i)

\* Only the first step of the first chunk asks for the rows with a NULL key.
NullAsked == csi[1].include_null /\ tj[1] \in {"none", "step", "write", "cancelled"}
NullOK ==
    /\ \A i \in chunks : csi[i].include_null => i = 1
    /\ NullAsked => written[NullKey] = 0
    /\ ~NullAsked /\ ~shutdown_triggered => written[NullKey] = 1
    /\ ~FixedLength /\ csi[1].include_null /\ tj[1] \in {"none", "step"}
          => csi[1].min = FirstKey

CancelledOK == ~shutdown_triggered => \A i \in chunks : tj[i] # "cancelled"

IndInv ==
    /\ TypeOK
    /\ \A i \in chunks : ChunkOK(csi[i], tj[i])
    /\ Disjoint
    /\ PendingUnwritten
    /\ AtMostOnce
    /\ Covered
    /\ NullOK
    /\ CancelledOK

\* Only the first chunk is ever without a job, and then it is on the queue.
HandedOut == \A i \in chunks :
    tj[i] = "none" => i = 1 /\ chunks_queue = <<1>> /\ builder # "removed"

-----------------------------------------------------------------------------
(* Lemmas about the arithmetic of a chunk *)

\* Arithmetic that wraps stays within guint64.
LEMMA SubType ==
    ASSUME NEW x \in U, NEW y \in U
    PROVE  USub(x, y) \in U /\ Inc(x) \in U /\ Lesser(x, y) \in U
  BY WidthAssumption DEF USub, Inc, Lesser, U

\* With fixed steps the split point lies beyond the step of lo and in reach.
LEMMA FixedMiddle ==
    ASSUME NEW s \in Nat \ {0}, NEW lo \in Nat, NEW hi \in Nat,
           lo \div s < hi \div s
    PROVE  LET q == (lo \div s) + (((hi \div s) - (lo \div s)) \div 2) + 1
           IN s * q \in Nat /\ lo < s * q /\ s * q <= hi
<1> DEFINE a == lo \div s
           b == hi \div s
           q == a + ((b - a) \div 2) + 1
<1>1. a \in Nat /\ b \in Nat /\ lo < s * (a + 1) /\ s * b <= hi /\ a < b
  OBVIOUS
<1>2. q \in Nat /\ a + 1 <= q /\ q <= b
  <2> HIDE DEF a, b
  <2> QED BY <1>1
<1>3. s * (a + 1) <= s * q /\ s * q <= s * b /\ s * q \in Nat /\ s * b \in Nat /\ s * (a+1) \in Nat
  <2> HIDE DEF a, b, q
  <2>1. \A x, y \in Nat : x <= y => s * x <= s * y
    OBVIOUS
  <2> QED BY <1>1, <1>2, <2>1
<1> HIDE DEF a, b, q
<1>4. s * q \in Nat /\ lo < s * q /\ s * q <= hi
  BY <1>1, <1>2, <1>3
<1> QED BY <1>4 DEF a, b, q

\* Otherwise the middle is rounded up where it would not be above lo.
LEMMA Middle ==
    ASSUME NEW lo \in Nat, NEW hi \in Nat, lo < hi
    PROVE  LET mid == lo + (hi \div 2) - (lo \div 2)
           IN /\ mid \in Nat /\ lo <= mid /\ mid <= hi
  OBVIOUS

\* A rounded part number is a number, and below 2^53 nothing is rounded.
LEMMA AddedPartType ==
    ASSUME NEW c, c.part \in Nat, c.stride \in Nat
    PROVE  /\ AddedPart(c) \in Nat
           /\ 2 * c.stride <= ExactParts => AddedPart(c) = c.part + c.stride
<1> DEFINE sum == c.part + c.stride
           unit == Ulp(c)
<1>1. sum \in Nat /\ 2 * c.stride \in Nat /\ ExactParts \in Nat \ {0}
  BY StepAssumption
<1>2. unit \in Nat \ {0}
  <2>1. ASSUME NEW m \in Nat, NEW n \in Nat \ {0}, m > n PROVE m \div n \in Nat \ {0}
    BY <2>1
  <2> QED BY <1>1, <2>1 DEF Ulp
<1>3. sum \div unit \in Nat /\ sum % unit \in Nat
  <2> HIDE DEF sum, unit
  <2> QED BY <1>1, <1>2
<1>4. AddedPart(c) \in {unit * (sum \div unit), unit * ((sum \div unit) + 1)}
  BY DEF AddedPart
<1>5. AddedPart(c) \in Nat
  <2> DEFINE m == sum \div unit
  <2>1. m \in Nat /\ AddedPart(c) \in {unit * m, unit * (m + 1)}
    BY <1>3, <1>4
  <2> HIDE DEF m, unit
  <2> QED BY <1>2, <2>1
<1>6. ASSUME 2 * c.stride <= ExactParts PROVE AddedPart(c) = sum
  <2>1. unit = 1
    BY <1>6 DEF Ulp
  <2>2. sum \div 1 = sum /\ sum % 1 = 0
    <3> HIDE DEF sum
    <3> QED BY <1>1
  <2> HIDE DEF sum
  <2>3. AddedPart(c) = 1 * sum
    BY <2>1, <2>2 DEF AddedPart, sum
  <2> QED BY <1>1, <2>3
<1> QED BY <1>5, <1>6

\* A split gives away a nonempty upper part and keeps the keys up to the bound.
LEMMA SplitInside ==
    ASSUME NEW c \in Chunk, NEW pc \in PC, ChunkOK(c, pc), Splittable(c)
    PROVE  /\ SplitPoint(c) \in U
           /\ LowerBound(c) < SplitPoint(c)
           /\ SplitPoint(c) <= c.max
<1> USE WidthAssumption, StepAssumption DEF U, Chunk
<1>1. CASE FixedLength
  <2>1. c.step = StartStep /\ c.step \in Nat \ {0}
    BY <1>1 DEF ChunkOK, StepOK
  <2>2. c.max \div c.step > (c.min \div c.step) + 1
    BY <1>1 DEF Splittable, is_splitable
  <2>3. LowerBound(c) \in U /\ LowerBound(c) <= c.min + c.step - 1
    BY <1>1, <2>1 DEF LowerBound, ChunkOK, RangeOK, StepOK, StatusOK, SkippedOK, Splittable, Dumped, PC, Status
  <2>4. LowerBound(c) \div c.step <= (c.min \div c.step) + 1
    BY <2>1, <2>3
  <2>5. LowerBound(c) \div c.step < c.max \div c.step
    BY <2>1, <2>2, <2>3, <2>4
  <2>6. /\ SplitPoint(c) \in Nat
        /\ LowerBound(c) < SplitPoint(c)
        /\ SplitPoint(c) <= c.max
    BY <1>1, <2>1, <2>3, <2>5, FixedMiddle DEF SplitPoint
  <2> QED BY <2>6
<1>2. CASE ~FixedLength
  <2>1. LowerBound(c) \in U /\ LowerBound(c) < c.max
    BY <1>2 DEF LowerBound, ChunkOK, RangeOK, StepOK, StatusOK, Splittable, is_splitable, USub
  <2> DEFINE mid == LowerBound(c) + (c.max \div 2) - (LowerBound(c) \div 2)
  <2>2. mid \in Nat /\ LowerBound(c) <= mid /\ mid <= c.max
    BY <2>1, Middle
  <2>3. SplitPoint(c) = IF mid = LowerBound(c) THEN mid + 1 ELSE mid
    BY <1>2 DEF SplitPoint
  <2> HIDE DEF mid
  <2> QED BY <2>1, <2>2, <2>3
<1> QED BY <1>1, <1>2

-----------------------------------------------------------------------------
(* Steps that change one chunk and write nothing *)

\* A step that replaces chunk i by d and its worker's place by p, and leaves i
\* the same rows to write, keeps the invariant of the chunks.
LEMMA OneChunk ==
    ASSUME IndInv, NEW i \in chunks, NEW d \in Chunk, NEW p \in PC,
           nchunks' = nchunks, written' = written,
           csi' = [csi EXCEPT ![i] = d], tj' = [tj EXCEPT ![i] = p],
           shutdown_triggered' \in BOOLEAN,
           shutdown_triggered => shutdown_triggered',
           ChunkOK(d, p),
           RowsBetween(IF p \in Dumped THEN d.cursor + 1 ELSE d.min, d.max) = Pending(i)
    PROVE  /\ csi' \in [1 .. nchunks' -> Chunk]
           /\ tj' \in [1 .. nchunks' -> PC]
           /\ \A j \in chunks' : ChunkOK(csi[j], tj[j])'
           /\ Disjoint'
           /\ PendingUnwritten'
           /\ AtMostOnce'
           /\ Covered'
<1>1. chunks' = chunks
  BY DEF chunks
<1>2. /\ csi \in [chunks -> Chunk] /\ tj \in [chunks -> PC]
      /\ csi' \in [chunks -> Chunk] /\ tj' \in [chunks -> PC]
      /\ csi'[i] = d /\ tj'[i] = p
      /\ \A j \in chunks : j # i => csi'[j] = csi[j] /\ tj'[j] = tj[j]
  BY DEF IndInv, TypeOK, chunks
<1>3. \A j \in chunks : Pending(j)' = Pending(j)
  BY <1>2 DEF Pending, From, RowsBetween
<1>4. \A j \in chunks : ChunkOK(csi[j], tj[j])'
  <2> TAKE j \in chunks
  <2>1. CASE j = i
    BY <2>1, <1>2 DEF ChunkOK, RangeOK, SkippedOK, StepOK, StatusOK
  <2>2. CASE j # i
    BY <2>2, <1>2 DEF IndInv, ChunkOK, RangeOK, SkippedOK, StepOK, StatusOK
  <2> QED BY <2>1, <2>2
<1>5. Disjoint' /\ PendingUnwritten'
  BY <1>1, <1>3 DEF IndInv, Disjoint, PendingUnwritten
<1>6. AtMostOnce' /\ Covered'
  BY <1>1, <1>3 DEF IndInv, AtMostOnce, Covered
<1> QED BY <1>1, <1>2, <1>4, <1>5, <1>6 DEF chunks

\* The same with the parts of the invariant that such a step cannot disturb.
LEMMA OneChunkInv ==
    ASSUME IndInv, NEW i \in chunks, NEW d \in Chunk, NEW p \in PC,
           nchunks' = nchunks, written' = written, files' = files,
           shutdown_triggered' = shutdown_triggered,
           builder' \in {"idle", "calling", "removed"},
           chunks_queue' \in Seq(1 .. nchunks),
           csi' = [csi EXCEPT ![i] = d], tj' = [tj EXCEPT ![i] = p],
           ChunkOK(d, p),
           RowsBetween(IF p \in Dumped THEN d.cursor + 1 ELSE d.min, d.max) = Pending(i),
           p = "cancelled" => shutdown_triggered,
           d.include_null => csi[i].include_null,
           LET asked == {"none", "step", "write", "cancelled"}
           IN csi[i].include_null =>
                /\ (d.include_null /\ p \in asked) <=> tj[i] \in asked
                /\ ~FixedLength /\ d.include_null /\ p \in {"none", "step"}
                     => d.min = csi[i].min /\ tj[i] \in {"none", "step"}
    PROVE  IndInv'
<1>1. shutdown_triggered' \in BOOLEAN /\ (shutdown_triggered => shutdown_triggered')
  BY DEF IndInv, TypeOK
<1>2. /\ csi' \in [1 .. nchunks' -> Chunk] /\ tj' \in [1 .. nchunks' -> PC]
      /\ \A j \in chunks' : ChunkOK(csi[j], tj[j])'
      /\ Disjoint' /\ PendingUnwritten' /\ AtMostOnce' /\ Covered'
  BY <1>1, OneChunk
<1>3. /\ csi \in [chunks -> Chunk] /\ tj \in [chunks -> PC] /\ chunks' = chunks
      /\ csi'[i] = d /\ tj'[i] = p /\ 1 \in chunks
      /\ \A j \in chunks : j # i => csi'[j] = csi[j] /\ tj'[j] = tj[j]
  BY DEF IndInv, TypeOK, chunks
<1>4. TypeOK'
  BY <1>2 DEF TypeOK, IndInv
<1>5. NullOK'
  <2>1. \A j \in chunks : csi'[j].include_null => j = 1
    BY <1>3 DEF NullOK, IndInv
  <2>2. CASE i = 1 /\ csi[1].include_null
    BY <2>1, <2>2, <1>3 DEF NullOK, NullAsked, IndInv
  <2>3. CASE i # 1 \/ ~csi[1].include_null
    BY <2>1, <2>3, <1>3 DEF NullOK, NullAsked, IndInv
  <2> QED BY <2>2, <2>3
<1>6. CancelledOK'
  BY <1>3 DEF CancelledOK, IndInv
<1> QED BY <1>2, <1>4, <1>5, <1>6 DEF IndInv

\* The facts about chunk i that every step below starts from.
LEMMA ChunkFacts ==
    ASSUME IndInv, NEW i \in chunks
    PROVE  /\ csi[i] \in Chunk /\ tj[i] \in PC /\ ChunkOK(csi[i], tj[i])
           /\ i \in 1 .. nchunks /\ nchunks \in Nat
           /\ builder \in {"idle", "calling", "removed"}
           /\ chunks_queue \in Seq(1 .. nchunks)
           /\ shutdown_triggered \in BOOLEAN
  BY DEF IndInv, TypeOK, chunks

\* Handing the first chunk out disturbs only its status and its job.
LEMMA AssignChunkInv ==
    ASSUME IndInv, NEW i \in chunks, AssignChunk(i)
    PROVE  IndInv'
<1> DEFINE d == [csi[i] EXCEPT !.status = "ASSIGNED"]
<1>1. tj[i] = "none" /\ csi[i].status = "UNASSIGNED"
  BY ChunkFacts DEF AssignChunk, ChunkOK, StatusOK
<1>2. d \in Chunk /\ ChunkOK(d, "step")
  BY <1>1, ChunkFacts DEF Chunk, Status, ChunkOK, RangeOK, SkippedOK, StepOK, StatusOK, Dumped
<1>3. chunks_queue' \in Seq(1 .. nchunks)
  BY ChunkFacts DEF AssignChunk, Popped
<1>4. RowsBetween(d.min, d.max) = Pending(i) /\ "step" \notin Dumped /\ "step" \in PC
  BY <1>1, ChunkFacts DEF Pending, From, Dumped, Chunk, PC
<1>5. d.include_null = csi[i].include_null /\ d.min = csi[i].min
  BY ChunkFacts DEF Chunk
<1>6. csi' = [csi EXCEPT ![i] = d]
  BY DEF AssignChunk
<1> HIDE DEF d
<1> QED BY <1>1, <1>2, <1>3, <1>4, <1>5, <1>6, OneChunkInv DEF AssignChunk

\* Taking a chunk off the queue changes its status, not its keys.
LEMMA MarkUnsplittableInv ==
    ASSUME IndInv, NEW i \in chunks, MarkUnsplittable(i)
    PROVE  IndInv'
<1> DEFINE d == [csi[i] EXCEPT !.status = "UNSPLITTABLE"]
<1>1. csi[i].status \in {"ASSIGNED", "DUMPING_CHUNK"} /\ tj[i] # "none"
  BY ChunkFacts DEF MarkUnsplittable, ChunkOK, StatusOK
<1>2. d \in Chunk /\ ChunkOK(d, tj[i])
  BY <1>1, ChunkFacts DEF Chunk, Status, ChunkOK, RangeOK, SkippedOK, StepOK, StatusOK, Dumped
<1>3. chunks_queue' \in Seq(1 .. nchunks)
  BY ChunkFacts DEF MarkUnsplittable, Popped
<1>4. RowsBetween(IF tj[i] \in Dumped THEN d.cursor + 1 ELSE d.min, d.max) = Pending(i)
  BY ChunkFacts DEF Pending, From, Chunk
<1>5. d.include_null = csi[i].include_null /\ d.min = csi[i].min
  BY ChunkFacts DEF Chunk
<1>6. csi' = [csi EXCEPT ![i] = d] /\ tj' = [tj EXCEPT ![i] = tj[i]]
  BY ChunkFacts DEF MarkUnsplittable, IndInv, TypeOK
<1>7. tj[i] = "cancelled" => shutdown_triggered
  BY DEF IndInv, CancelledOK
<1> HIDE DEF d
<1> QED BY <1>2, <1>3, <1>4, <1>5, <1>6, <1>7, ChunkFacts, OneChunkInv DEF MarkUnsplittable

\* Ends moved over keys without rows leave the rows in between the same.
LEMMA NarrowRows ==
    ASSUME NEW lo \in Nat, NEW hi \in Nat, NEW l \in Nat, NEW h \in Nat,
           lo <= l, h <= hi, \A k \in RowsBetween(lo, hi) : l <= k /\ k <= h
    PROVE  RowsBetween(l, h) = RowsBetween(lo, hi)
<1> USE RowsAssumption DEF U
<1>1. \A k \in Rows : l <= k /\ k <= h => lo <= k /\ k <= hi
  OBVIOUS
<1>2. \A k \in Rows : lo <= k /\ k <= hi => l <= k /\ k <= h
  BY DEF RowsBetween
<1> QED BY <1>1, <1>2 DEF RowsBetween

\* Stage 1 keeps every row of the chunk between the new ends.
LEMMA NewEnds ==
    ASSUME NEW c \in Chunk, c.min <= c.max,
           NEW max \in NewMax(c), NEW min \in NewMin(c, max)
    PROVE  /\ min \in U /\ max \in U
           /\ c.min <= min /\ min <= max /\ max <= c.max
           /\ RowsBetween(min, max) = RowsBetween(c.min, c.max)
<1> USE RowsAssumption, WidthAssumption DEF U, Chunk
<1>1. /\ max \in U /\ c.min <= max /\ max <= c.max
      /\ RowsBetween(c.min, max) = RowsBetween(c.min, c.max)
  <2> DEFINE found == RowsBetween(c.min, c.max)
  <2>1. CASE ~c.check_max
    BY <2>1 DEF NewMax
  <2>2. CASE c.check_max /\ found = {}
    <3>1. max = c.min
      BY <2>2 DEF NewMax
    <3> QED BY <2>2, <3>1, NarrowRows
  <2>3. CASE c.check_max /\ found # {}
    <3>1. max \in found /\ \A k \in found : k <= max
      BY <2>3 DEF NewMax
    <3>2. max \in U /\ c.min <= max /\ max <= c.max
      BY <3>1 DEF RowsBetween
    <3>3. \A k \in found : c.min <= k
      BY DEF RowsBetween
    <3> HIDE DEF found
    <3>4. RowsBetween(c.min, max) = found
      BY <3>1, <3>2, <3>3, NarrowRows DEF found
    <3> QED BY <3>2, <3>4 DEF found
  <2> QED BY <2>1, <2>2, <2>3
<1>2. /\ min \in U /\ c.min <= min /\ min <= max
      /\ RowsBetween(min, max) = RowsBetween(c.min, max)
  <2> DEFINE found == RowsBetween(c.min, max)
  <2>1. CASE ~c.check_min \/ found = {}
    BY <2>1, <1>1 DEF NewMin
  <2>2. CASE c.check_min /\ found # {}
    <3>1. min \in found /\ \A k \in found : min <= k
      BY <2>2 DEF NewMin
    <3>2. min \in U /\ c.min <= min /\ min <= max
      BY <3>1, <1>1 DEF RowsBetween
    <3>3. \A k \in found : k <= max
      BY DEF RowsBetween
    <3> HIDE DEF found
    <3>4. RowsBetween(min, max) = found
      BY <1>1, <3>1, <3>2, <3>3, NarrowRows DEF found
    <3> QED BY <3>2, <3>4 DEF found
  <2> QED BY <2>1, <2>2
<1> QED BY <1>1, <1>2

\* Stage 3 ends the step between min and max.
LEMMA CursorRange ==
    ASSUME NEW min \in U, NEW max \in U, NEW step \in U,
           min <= max, step >= 1, min > 0 \/ max < MaxU
    PROVE  LET cur == NextCursor(min, max, step)
           IN cur \in U /\ min <= cur /\ cur <= max /\ cur <= min + step - 1
  BY WidthAssumption DEF NextCursor, USub, Inc, U

\* Stages 1 to 3 move the ends of a chunk over keys that hold no row.
LEMMA BeginStepInv ==
    ASSUME IndInv, NEW i \in chunks, BeginStep(i)
    PROVE  IndInv'
<1> DEFINE c == csi[i]
<1>0. /\ c \in Chunk /\ tj[i] = "step" /\ ChunkOK(c, "step") /\ c.step \in U
      /\ c.min \in U /\ c.max \in U
      /\ c.min <= c.max /\ c.step >= 1
  BY ChunkFacts DEF BeginStep, ChunkOK, RangeOK, StepOK, Chunk
<1>1. PICK max \in (IF FixedLength THEN {c.max} ELSE NewMax(c)) :
      \E min \in (IF FixedLength THEN {c.min} ELSE NewMin(c, max)) :
         csi' = [csi EXCEPT ![i] = Prepared(csi[i], min, max)]
  BY DEF BeginStep
<1>2. PICK min \in (IF FixedLength THEN {c.min} ELSE NewMin(c, max)) :
         csi' = [csi EXCEPT ![i] = Prepared(csi[i], min, max)]
  BY <1>1
<1>3. /\ min \in U /\ max \in U
      /\ c.min <= min /\ min <= max /\ max <= c.max
      /\ RowsBetween(min, max) = RowsBetween(c.min, c.max)
  <2>1. CASE FixedLength
    BY <2>1, <1>0 DEF U
  <2>2. CASE ~FixedLength
    <3>1. max \in NewMax(c) /\ min \in NewMin(c, max)
      BY <2>2
    <3> HIDE DEF c
    <3> QED BY <3>1, <1>0, NewEnds
  <2> QED BY <2>1, <2>2
<1> DEFINE cur == NextCursor(min, max, c.step)
           d == Prepared(c, min, max)
<1>4. min > 0 \/ max < MaxU
  BY <1>0, <1>3, WidthAssumption DEF ChunkOK, RangeOK, U
<1>5. cur \in U /\ min <= cur /\ cur <= max /\ cur <= min + c.step - 1
  BY <1>0, <1>3, <1>4, CursorRange
<1>6. csi' = [csi EXCEPT ![i] = d]
  BY <1>2
<1>7. d \in Chunk
  BY <1>0, <1>3, <1>5, StepAssumption DEF Prepared, Chunk, Status
<1>8. ChunkOK(d, "write")
  <2> USE <1>0, <1>3, <1>5, <1>4 DEF Chunk, Prepared
  <2>1. RangeOK(d, "write")
    BY RowsAssumption, WidthAssumption DEF RangeOK, ChunkOK, U, Dumped
  <2>2. SkippedOK(d, "write") /\ StatusOK(d, "write")
    BY DEF SkippedOK, StatusOK, Dumped
  <2>3. StepOK(d, "write")
    BY DEF StepOK, ChunkOK
  <2> QED BY <2>1, <2>2, <2>3 DEF ChunkOK
<1>9. RowsBetween(d.min, d.max) = Pending(i) /\ "write" \notin Dumped /\ "write" \in PC
  BY <1>0, <1>3 DEF Pending, From, Dumped, PC, Chunk, Prepared
<1>10. d.include_null = c.include_null
  BY <1>0 DEF Chunk, Prepared
<1>11. /\ nchunks' = nchunks /\ written' = written /\ files' = files
       /\ shutdown_triggered' = shutdown_triggered /\ tj' = [tj EXCEPT ![i] = "write"]
       /\ builder' = builder /\ chunks_queue' = chunks_queue
  BY DEF BeginStep
<1> HIDE DEF d
<1> QED BY <1>0, <1>6, <1>7, <1>8, <1>9, <1>10, <1>11, ChunkFacts, OneChunkInv

\* An empty chunk is skipped without giving up a row.
LEMMA SkipEmptyInv ==
    ASSUME IndInv, NEW i \in chunks, SkipEmpty(i)
    PROVE  IndInv'
<1> DEFINE c == csi[i]
           d == Skipped(c)
<1>1. /\ c \in Chunk /\ tj[i] = "step" /\ ChunkOK(c, "step") /\ ~FixedLength
      /\ c.min \in U /\ c.max \in U /\ c.min <= c.max
      /\ c.max <= LastKey /\ c.min <= c.cursor + 1
      /\ RowsBetween(c.min, c.max) = {}
  BY ChunkFacts DEF SkipEmpty, NothingLeft, ChunkOK, RangeOK, Chunk
<1>2. c.min # MaxU /\ Inc(c.min) = c.min + 1
  <2>1. LastKey \in Rows /\ LastKey \in Nat /\ LastKey <= MaxU /\ MaxU \in Nat
    BY RowsAssumption, WidthAssumption DEF U
  <2>2. ~(c.min <= LastKey /\ LastKey <= c.max)
    BY <1>1, <2>1 DEF RowsBetween
  <2>3. c.min # MaxU
    BY <1>1, <2>1, <2>2 DEF U
  <2> QED BY <2>3 DEF Inc
<1>3. d \in Chunk
  BY <1>1, <1>2, SubType DEF Chunk, Status, Skipped
<1>4. ChunkOK(d, "test")
  <2> USE <1>1, <1>2, RowsAssumption, WidthAssumption DEF Chunk, U, Skipped
  <2>1. RangeOK(d, "test")
    BY DEF RangeOK, Dumped
  <2>2. SkippedOK(d, "test")
    BY DEF SkippedOK, RowsBetween
  <2>3. StepOK(d, "test") /\ StatusOK(d, "test")
    BY DEF StepOK, StatusOK, Dumped, ChunkOK
  <2> QED BY <2>1, <2>2, <2>3 DEF ChunkOK
<1>5. Pending(i) = {} /\ RowsBetween(d.min, d.max) = {}
  BY <1>1, <1>2, RowsAssumption, WidthAssumption DEF Pending, From, Dumped, RowsBetween, U, Chunk, Skipped
<1>6. csi' = [csi EXCEPT ![i] = d] /\ "test" \notin Dumped /\ "test" \in PC
  BY DEF SkipEmpty, Dumped, PC
<1>7. ~csi[i].include_null
  BY <1>1, RowsAssumption DEF IndInv, NullOK, RowsBetween, U, Chunk
<1>8. d.include_null = csi[i].include_null
  BY <1>1 DEF Chunk, Skipped
<1>9. /\ nchunks' = nchunks /\ written' = written /\ files' = files
       /\ shutdown_triggered' = shutdown_triggered /\ tj' = [tj EXCEPT ![i] = "test"]
       /\ builder' = builder /\ chunks_queue' = chunks_queue
  BY DEF SkipEmpty
<1> HIDE DEF d
<1> QED BY <1>3, <1>4, <1>5, <1>6, <1>7, <1>8, <1>9, ChunkFacts, OneChunkInv

\* A clamped step is a guint64 and never zero.
LEMMA ClampType ==
    ASSUME NEW s \in U
    PROVE  ClampStep(s) \in U /\ ClampStep(s) >= 1
  BY StepAssumption, WidthAssumption DEF ClampStep, U

\* A new step length leaves the keys of the chunk alone.
LEMMA UpdateStepInv ==
    ASSUME IndInv, NEW i \in chunks, UpdateStep(i)
    PROVE  IndInv'
<1> DEFINE c == csi[i]
<1>1. /\ c \in Chunk /\ tj[i] \in {"resize", "resize_empty"} /\ ChunkOK(c, tj[i])
      /\ c.step \in U /\ ~FixedLength
  BY ChunkFacts DEF UpdateStep, Chunk, ChunkOK, StepOK
<1>2. (2 * c.step) % (MaxU + 1) \in U
  BY <1>1, WidthAssumption DEF U
<1>3. PICK s \in U, b \in BOOLEAN : csi' = [csi EXCEPT ![i] = Resized(c, s, b)]
  <2>1. c.check_min \in BOOLEAN
    BY <1>1 DEF Chunk
  <2> QED BY <1>2, <2>1, StepAssumption DEF UpdateStep
<1> DEFINE d == Resized(c, s, b)
<1>4. d \in Chunk /\ d.step >= 1 /\ d.min = c.min /\ d.max = c.max /\ d.cursor = c.cursor
      /\ d.status = c.status /\ d.include_null = c.include_null
  BY <1>1, ClampType DEF Resized, Chunk
<1> HIDE DEF d
<1>5. ChunkOK(d, "advance")
  BY <1>1, <1>4, StepAssumption DEF ChunkOK, RangeOK, SkippedOK, StepOK, StatusOK, Dumped, Chunk
<1>6. RowsBetween(d.cursor + 1, d.max) = Pending(i) /\ "advance" \in Dumped /\ "advance" \in PC
  BY <1>1, <1>4 DEF Pending, From, Dumped, PC
<1>7. /\ nchunks' = nchunks /\ written' = written /\ files' = files
      /\ shutdown_triggered' = shutdown_triggered /\ tj' = [tj EXCEPT ![i] = "advance"]
      /\ builder' = builder /\ chunks_queue' = chunks_queue
  BY DEF UpdateStep
<1>8. csi' = [csi EXCEPT ![i] = d]
  BY <1>3 DEF d
<1> QED BY <1>1, <1>4, <1>5, <1>6, <1>7, <1>8, ChunkFacts, OneChunkInv

\* What step 5 does to a chunk, the wrap around included.
LEMMA AdvancedFacts ==
    ASSUME NEW c \in Chunk, c.min <= c.cursor, c.cursor <= c.max, c.max <= LastKey,
           c.min > 0 \/ c.max < MaxU
    PROVE  LET a == Advanced(c)
           IN /\ a \in Chunk /\ a.status = "ASSIGNED" /\ a.step = c.step
              /\ a.cursor = c.cursor /\ a.include_null = c.include_null
              /\ a.max <= LastKey
              /\ a.min > 0
              /\ a.min <= a.cursor + 1
              /\ RowsBetween(a.min, a.max) = RowsBetween(c.cursor + 1, c.max)
<1> USE WidthAssumption, RowsAssumption
<1>0. c.min \in U /\ c.max \in U /\ c.cursor \in U
  BY DEF Chunk
<1>1. CASE c.cursor = MaxU
  <2> DEFINE r == [c EXCEPT !.min = c.max, !.max = USub(c.max, 1), !.status = "ASSIGNED"]
  <2>1. c.max = MaxU /\ c.min > 0 /\ Inc(c.cursor) = 0 /\ USub(c.max, 1) = MaxU - 1
    BY <1>0, <1>1 DEF U, Inc, USub
  <2>2. Advanced(c) = r
    BY <1>0, <1>1, <2>1 DEF Advanced
  <2>3. /\ r \in Chunk /\ r.status = "ASSIGNED" /\ r.step = c.step
        /\ r.cursor = c.cursor /\ r.include_null = c.include_null
        /\ r.max = MaxU - 1 /\ r.min = MaxU
    BY <1>0, <2>1, SubType, 1 \in U DEF Chunk, Status, U
  <2> HIDE DEF r
  <2>4. \A k \in Rows : ~(MaxU <= k /\ k <= MaxU - 1) /\ ~(MaxU + 1 <= k /\ k <= MaxU)
    BY DEF U
  <2>5. RowsBetween(r.min, r.max) = {} /\ RowsBetween(c.cursor + 1, c.max) = {}
    BY <1>1, <2>1, <2>3, <2>4 DEF RowsBetween
  <2>6. r.max <= LastKey /\ r.min > 0 /\ r.min <= r.cursor + 1
    BY <1>1, <2>1, <2>3 DEF U
  <2> QED BY <2>2, <2>3, <2>5, <2>6
<1>2. CASE c.cursor # MaxU
  <2> DEFINE r == [c EXCEPT !.min = Inc(c.cursor), !.status = "ASSIGNED"]
  <2>1. Inc(c.cursor) = c.cursor + 1
    BY <1>2 DEF Inc
  <2>2. Advanced(c) = r
    BY <1>0, <2>1 DEF Advanced, U
  <2>3. /\ r \in Chunk /\ r.status = "ASSIGNED" /\ r.step = c.step
        /\ r.cursor = c.cursor /\ r.include_null = c.include_null
        /\ r.max = c.max /\ r.min = c.cursor + 1
    BY <1>0, <2>1, SubType DEF Chunk, Status
  <2> HIDE DEF r
  <2>4. QED BY <1>0, <2>2, <2>3 DEF U
<1> QED BY <1>1, <1>2

\* Step 5 passes over exactly the keys that were just written.
LEMMA UpdateMinInv ==
    ASSUME IndInv, NEW i \in chunks, UpdateMin(i)
    PROVE  IndInv'
<1> DEFINE c == csi[i]
           a == Advanced(c)
           d == Trimmed(a)
<1>1. /\ c \in Chunk /\ tj[i] = "advance" /\ ChunkOK(c, "advance")
      /\ c.min <= c.cursor /\ c.cursor <= c.max /\ c.max <= LastKey
      /\ c.min > 0 \/ c.max < MaxU
      /\ c.step >= 1
  BY ChunkFacts DEF UpdateMin, ChunkOK, RangeOK, StepOK, Dumped, Chunk, U
<1>2. /\ a \in Chunk /\ a.status = "ASSIGNED" /\ a.step = c.step
      /\ a.cursor = c.cursor /\ a.include_null = c.include_null
      /\ a.max <= LastKey
      /\ a.min > 0
      /\ a.min <= a.cursor + 1
      /\ RowsBetween(a.min, a.max) = RowsBetween(c.cursor + 1, c.max)
  <2> HIDE DEF c
  <2> QED BY <1>1, AdvancedFacts
<1> HIDE DEF a
<1>3. Remaining(a) \in U /\ (a.min <= a.max => Remaining(a) >= 1)
  BY <1>2, WidthAssumption DEF Remaining, USub, Inc, U, Chunk
<1>4. /\ d \in Chunk /\ d.min = a.min /\ d.max = a.max /\ d.cursor = a.cursor
      /\ d.status = a.status /\ d.include_null = a.include_null
      /\ FixedLength => d.step = c.step
      /\ d.min <= d.max => d.step >= 1
  BY <1>1, <1>2, <1>3 DEF Trimmed, Lesser, Chunk, U
<1> HIDE DEF d
<1>5. ChunkOK(d, "test")
  BY <1>1, <1>2, <1>4 DEF ChunkOK, RangeOK, SkippedOK, StepOK, StatusOK, Dumped, Chunk, U
<1>6. /\ RowsBetween(d.min, d.max) = Pending(i)
      /\ "test" \notin Dumped /\ "advance" \in Dumped /\ "test" \in PC
  BY <1>1, <1>2, <1>4 DEF Pending, From, Dumped, PC
<1>7. /\ nchunks' = nchunks /\ written' = written /\ files' = files
      /\ shutdown_triggered' = shutdown_triggered /\ tj' = [tj EXCEPT ![i] = "test"]
      /\ builder' = builder /\ chunks_queue' = chunks_queue
  BY DEF UpdateMin
<1>8. csi' = [csi EXCEPT ![i] = d]
  BY DEF UpdateMin, d, a
<1> QED BY <1>1, <1>2, <1>4, <1>5, <1>6, <1>7, <1>8, ChunkFacts, OneChunkInv

\* The end of the loop is reached only when the chunk has no key left.
LEMMA LoopTestInv ==
    ASSUME IndInv, NEW i \in chunks, LoopTest(i)
    PROVE  IndInv'
<1> DEFINE c == csi[i]
           d == Returned(c)
           p == IF c.min <= c.max THEN "step" ELSE "done"
<1>1. c \in Chunk /\ tj[i] = "test" /\ ChunkOK(c, "test")
  BY ChunkFacts DEF LoopTest
<1>2. /\ d \in Chunk /\ d.min = c.min /\ d.max = c.max /\ d.cursor = c.cursor
      /\ d.step = c.step /\ ~d.include_null
      /\ d.status = IF c.min <= c.max THEN c.status ELSE "COMPLETED"
  BY <1>1 DEF Returned, Chunk, Status
<1> HIDE DEF d
<1>3. ChunkOK(d, p)
  BY <1>1, <1>2 DEF ChunkOK, RangeOK, SkippedOK, StepOK, StatusOK, Dumped, Chunk, U, Status
<1>4. RowsBetween(d.min, d.max) = Pending(i) /\ p \notin Dumped /\ p \in PC /\ p # "cancelled"
  BY <1>1, <1>2 DEF Pending, From, Dumped, PC
<1>5. /\ nchunks' = nchunks /\ written' = written /\ files' = files
      /\ shutdown_triggered' = shutdown_triggered /\ tj' = [tj EXCEPT ![i] = p]
      /\ builder' = builder /\ chunks_queue' = chunks_queue
  BY DEF LoopTest
<1>6. csi' = [csi EXCEPT ![i] = d]
  BY DEF LoopTest, d
<1> HIDE DEF p
<1> QED BY <1>1, <1>2, <1>3, <1>4, <1>5, <1>6, ChunkFacts, OneChunkInv

\* A cancelled job keeps its rows unwritten; nothing is claimed of it.
LEMMA CancelJobInv ==
    ASSUME IndInv, NEW i \in chunks, CancelJob(i)
    PROVE  IndInv'
<1>1. csi[i] \in Chunk /\ tj[i] = "step" /\ ChunkOK(csi[i], "step") /\ shutdown_triggered
  BY ChunkFacts DEF CancelJob
<1>2. ChunkOK(csi[i], "cancelled")
  BY <1>1 DEF ChunkOK, RangeOK, SkippedOK, StepOK, StatusOK, Dumped
<1>3. /\ RowsBetween(csi[i].min, csi[i].max) = Pending(i)
      /\ "cancelled" \notin Dumped /\ "cancelled" \in PC
  BY <1>1 DEF Pending, From, Dumped, PC
<1>4. csi' = [csi EXCEPT ![i] = csi[i]]
  BY DEF CancelJob, IndInv, TypeOK
<1> QED BY <1>1, <1>2, <1>3, <1>4, ChunkFacts, OneChunkInv DEF CancelJob

-----------------------------------------------------------------------------
(* The two steps that move rows: a write and a split *)

\* Rows between min and cursor belong to this chunk alone: written once.
LEMMA WriteRowsInv ==
    ASSUME IndInv, NEW i \in chunks, WriteRows(i)
    PROVE  IndInv'
<1> DEFINE c == csi[i]
<1>0. /\ c \in Chunk /\ tj[i] = "write" /\ ChunkOK(c, "write")
      /\ c.min \in U /\ c.max \in U /\ c.cursor \in U /\ c.step \in U /\ c.part \in Nat
      /\ c.min <= c.cursor /\ c.cursor <= c.max /\ c.step >= 1
      /\ i \in 1 .. nchunks /\ shutdown_triggered \in BOOLEAN
      /\ written \in [AllRows -> Nat] /\ nchunks \in Nat \ {0}
      /\ csi \in [chunks -> Chunk] /\ tj \in [chunks -> PC]
  <2>1. /\ csi \in [chunks -> Chunk] /\ tj \in [chunks -> PC] /\ nchunks \in Nat \ {0}
        /\ written \in [AllRows -> Nat] /\ shutdown_triggered \in BOOLEAN
        /\ ChunkOK(csi[i], tj[i]) /\ i \in 1 .. nchunks
    BY DEF IndInv, TypeOK, chunks
  <2>2. tj[i] = "write"
    BY DEF WriteRows
  <2>3. c \in Chunk
    BY <2>1
  <2>4. c.min \in U /\ c.max \in U /\ c.cursor \in U /\ c.step \in U /\ c.part \in Nat
    BY <2>3 DEF Chunk
  <2> HIDE DEF c
  <2>5. c.min <= c.cursor /\ c.cursor <= c.max /\ c.step >= 1
    BY <2>1, <2>2, <2>4 DEF ChunkOK, RangeOK, StepOK, Dumped, c, U
  <2> QED BY <2>1, <2>2, <2>3, <2>4, <2>5 DEF c
<1>1. PICK S \in SUBSET Selected(c) :
        /\ ~shutdown_triggered => S = Selected(c)
        /\ written' = [k \in AllRows |-> IF k \in S THEN written[k] + 1 ELSE written[k]]
        /\ tj' = [tj EXCEPT ![i] =
                     IF FixedLength \/ csi[i].cursor = csi[i].max THEN "advance"
                     ELSE IF S = {} THEN "resize_empty" ELSE "resize"]
  BY DEF WriteRows
<1>2. PICK p \in Dumped : tj' = [tj EXCEPT ![i] = p] /\ (FixedLength => p = "advance")
  BY <1>1 DEF Dumped
<1>3. /\ csi' = csi /\ nchunks' = nchunks /\ chunks' = chunks
      /\ shutdown_triggered' = shutdown_triggered
      /\ chunks_queue' = chunks_queue /\ builder' = builder
  BY DEF WriteRows, chunks
<1>4. /\ tj'[i] = p /\ tj' \in [chunks -> PC]
      /\ \A j \in chunks : j # i => tj'[j] = tj[j]
  BY <1>0, <1>2 DEF Dumped, PC
<1>5. /\ Pending(i) = RowsBetween(c.min, c.max)
      /\ Pending(i)' = RowsBetween(c.cursor + 1, c.max)
      /\ \A j \in chunks : j # i => Pending(j)' = Pending(j)
  BY <1>0, <1>2, <1>3, <1>4 DEF Pending, From, Dumped
<1>6. \A k \in Rows : k # NullKey /\ k \in Int
  BY RowsAssumption DEF NullKey, U
<1>7. \A k \in S : k # NullKey => k \in Pending(i) /\ k \notin Pending(i)'
  BY <1>0, <1>5, RowsAssumption DEF Selected, RowsBetween, U
<1>8. NullKey \in S => NullAsked
  <2>1. NullKey \in S => c.include_null
    BY <1>6 DEF Selected, RowsBetween
  <2>2. c.include_null => i = 1
    BY DEF IndInv, NullOK
  <2> QED BY <2>1, <2>2, <1>0 DEF NullAsked
<1>9. TypeOK'
  <2>1. written' \in [AllRows -> Nat]
    BY <1>0, <1>1
  <2>2. FilePart(c) \in Nat
    BY <1>0 DEF FilePart, U
  <2>3. files' \subseteq [part : Nat, chunk : Nat, from : U]
    BY <1>0, <2>2 DEF WriteRows, IndInv, TypeOK
  <2> QED BY <1>0, <1>3, <1>4, <2>1, <2>3 DEF IndInv, TypeOK, chunks
<1>10. \A j \in chunks' : ChunkOK(csi[j], tj[j])'
  <2>1. ChunkOK(c, p)
    BY <1>0, <1>2 DEF ChunkOK, RangeOK, SkippedOK, StepOK, StatusOK, Dumped
  <2> SUFFICES ASSUME NEW j \in chunks PROVE ChunkOK(csi[j], tj[j])'
    BY <1>3
  <2>2. CASE j = i
    BY <2>1, <2>2, <1>3, <1>4 DEF ChunkOK, RangeOK, SkippedOK, StepOK, StatusOK
  <2>3. CASE j # i
    BY <2>3, <1>3, <1>4 DEF IndInv, ChunkOK, RangeOK, SkippedOK, StepOK, StatusOK
  <2> QED BY <2>2, <2>3
<1>11. Pending(i)' \subseteq Pending(i)
  <2>1. \A k \in Rows : c.cursor + 1 <= k => c.min <= k
    BY <1>0, RowsAssumption DEF U
  <2> QED BY <1>5, <2>1 DEF RowsBetween
<1>12. Disjoint'
  BY <1>3, <1>5, <1>11 DEF IndInv, Disjoint
<1>13. \A k \in AllRows : written'[k] = IF k \in S THEN written[k] + 1 ELSE written[k]
  BY <1>1
<1>14. \A k \in S : k \in AllRows /\ written[k] = 0
  <2>1. \A k \in S : k \in AllRows
    BY DEF Selected, RowsBetween, AllRows
  <2>2. NullKey \in S => written[NullKey] = 0
    BY <1>8 DEF IndInv, NullOK
  <2> QED BY <1>7, <2>1, <2>2 DEF IndInv, PendingUnwritten
<1>15. AtMostOnce'
  BY <1>0, <1>13, <1>14 DEF IndInv, AtMostOnce
<1>16. PendingUnwritten'
  <2> SUFFICES ASSUME NEW j \in chunks, NEW k \in Pending(j)' PROVE written'[k] = 0
    BY <1>3 DEF PendingUnwritten
  <2>1. k \in Pending(j) /\ k \in Rows /\ k \in AllRows /\ k # NullKey
    BY <1>5, <1>6, <1>11 DEF Pending, RowsBetween, AllRows
  <2>2. k \notin S
    BY <1>5, <1>7, <2>1 DEF IndInv, Disjoint
  <2> QED BY <1>13, <2>1, <2>2 DEF IndInv, PendingUnwritten
<1>17. Covered'
  <2> SUFFICES ASSUME ~shutdown_triggered, NEW k \in Rows
               PROVE  written'[k] = 1 \/ \E j \in chunks : k \in Pending(j)'
    BY <1>3 DEF Covered
  <2>1. k \in AllRows
    BY DEF AllRows
  <2>2. CASE k \in S
    BY <2>1, <2>2, <1>13, <1>14
  <2>3. CASE k \notin S
    <3>1. k \in Pending(i) => k \in Pending(i)'
      BY <2>3, <1>0, <1>1, <1>5, RowsAssumption DEF Selected, RowsBetween, U
    <3> QED BY <2>1, <2>3, <3>1, <1>5, <1>13 DEF IndInv, Covered
  <2> QED BY <2>2, <2>3
<1>18. NullOK'
  <2>1. NullKey \in AllRows
    BY DEF AllRows
  <2>2. CASE c.include_null
    <3>1. i = 1 /\ NullAsked
      BY <2>2, <1>0 DEF IndInv, NullOK, NullAsked
    <3>2. ~NullAsked'
      BY <3>1, <1>4 DEF NullAsked, Dumped
    <3>3. ~shutdown_triggered => NullKey \in S
      BY <2>2, <1>1 DEF Selected
    <3> QED BY <3>1, <3>2, <3>3, <2>1, <1>2, <1>3, <1>4, <1>13, <1>14 DEF IndInv, NullOK, Dumped
  <2>3. CASE ~c.include_null
    <3>1. NullKey \notin S
      BY <2>3, <1>6 DEF Selected, RowsBetween
    <3>2. written'[NullKey] = written[NullKey]
      BY <2>1, <3>1, <1>13
    <3>3. NullAsked' = NullAsked
      BY <2>3, <1>3, <1>4 DEF NullAsked, IndInv, TypeOK, chunks
    <3> QED BY <2>3, <3>2, <3>3, <1>3, <1>4, <1>0 DEF IndInv, NullOK, chunks
  <2> QED BY <2>2, <2>3
<1>19. CancelledOK'
  BY <1>2, <1>3, <1>4 DEF IndInv, CancelledOK, Dumped
<1> QED BY <1>9, <1>10, <1>12, <1>15, <1>16, <1>17, <1>18, <1>19 DEF IndInv

\* A split changes no row's chance of being written: what the chunk gives up
\* is what the new one gets, and a chunk stage 1 has skipped gives up no row.
LEMMA SplitChunkInv ==
    ASSUME IndInv, NEW i \in chunks, SplitChunk(i)
    PROVE  IndInv'
<1> DEFINE c == csi[i]
           n == nchunks + 1
           lo == LowerPart(c)
           hi == UpperPart(c)
           s == SplitPoint(c)
<1>0. /\ c \in Chunk /\ tj[i] \in PC /\ ChunkOK(c, tj[i]) /\ Splittable(c)
      /\ i \in 1 .. nchunks /\ nchunks \in Nat \ {0}
      /\ csi \in [chunks -> Chunk] /\ tj \in [chunks -> PC]
      /\ written \in [AllRows -> Nat] /\ shutdown_triggered \in BOOLEAN
  BY DEF IndInv, TypeOK, chunks, SplitChunk
<1>1. s \in U /\ LowerBound(c) < s /\ s <= c.max
  <2> HIDE DEF c
  <2> QED BY <1>0, SplitInside
<1>2. /\ c.min \in U /\ c.max \in U /\ c.cursor \in U /\ c.step \in U
      /\ c.part \in Nat /\ c.stride \in Nat
      /\ c.status \in {"ASSIGNED", "DUMPING_CHUNK"}
      /\ s > 0 /\ s - 1 \in U /\ s - 1 < c.max
  <2>1. /\ c.min \in U /\ c.max \in U /\ c.cursor \in U /\ c.step \in U
        /\ c.part \in Nat /\ c.stride \in Nat
    BY <1>0 DEF Chunk
  <2>2. c.status \in {"ASSIGNED", "DUMPING_CHUNK"} /\ LowerBound(c) \in U
    BY <1>0, <2>1 DEF Splittable, LowerBound
  <2> HIDE DEF s, c
  <2> QED BY <1>1, <2>1, <2>2, WidthAssumption DEF U
<1>3. /\ lo.min = c.min /\ lo.max = s - 1 /\ lo.cursor = c.cursor /\ lo.step = c.step
      /\ lo.status = c.status /\ lo.include_null = c.include_null /\ lo \in Chunk
  <2>1. 2 * c.stride \in Nat
    BY <1>2
  <2> HIDE DEF s
  <2> QED BY <1>0, <1>2, <2>1 DEF LowerPart, Chunk, s
<1>4. /\ hi.min = s /\ hi.max = c.max /\ hi.cursor = s /\ hi.step = c.step
      /\ hi.status = "ASSIGNED" /\ ~hi.include_null /\ hi \in Chunk
  <2>1. (IF FixedLength THEN (s \div c.step) + 1 ELSE AddedPart(c)) \in Nat
    <3>1. FixedLength => c.step \in Nat \ {0}
      BY <1>0, StepAssumption DEF ChunkOK, StepOK, U
    <3>2. AddedPart(c) \in Nat
      BY <1>2, AddedPartType
    <3> HIDE DEF s, c
    <3> QED BY <1>1, <1>2, <3>1, <3>2 DEF U
  <2>2. 2 * c.stride \in Nat
    BY <1>2
  <2> DEFINE np == IF FixedLength THEN (s \div c.step) + 1 ELSE AddedPart(c)
  <2>3. hi = [c EXCEPT !.min = s, !.cursor = s,
              !.check_min = TRUE, !.check_max = TRUE, !.include_null = FALSE,
              !.status = "ASSIGNED", !.stride = 2 * c.stride, !.part = np]
    BY DEF UpperPart
  <2> HIDE DEF s, np, hi, c
  <2>4. np \in Nat
    BY <2>1 DEF np
  <2> QED BY <1>0, <1>1, <2>2, <2>3, <2>4 DEF Chunk, Status
<1> HIDE DEF s, lo, hi
<1>5. /\ nchunks' = n /\ n \in Nat \ {0} /\ chunks' = chunks \cup {n} /\ n \notin chunks
      /\ written' = written /\ files' = files /\ shutdown_triggered' = shutdown_triggered
      /\ builder' = "idle" /\ i # n /\ i \in chunks'
  BY <1>0 DEF SplitChunk, chunks
<1>6. /\ csi'[i] = lo /\ csi'[n] = hi
      /\ \A j \in chunks : j # i => csi'[j] = csi[j]
      /\ csi' \in [1 .. n -> Chunk]
  <2>1. csi' = [j \in 1 .. n |-> CASE j = i -> lo [] j = n -> hi [] OTHER -> csi[j]]
    BY DEF SplitChunk, lo, hi
  <2> QED BY <1>0, <1>3, <1>4, <1>5, <2>1 DEF chunks
<1>7. /\ tj'[n] = "step" /\ tj' \in [1 .. n -> PC]
      /\ \A j \in chunks : tj'[j] = tj[j]
  BY <1>0, <1>5 DEF SplitChunk, chunks, PC
<1>8. chunks_queue' \in Seq(1 .. n)
  <2>1. chunks_queue \in Seq(1 .. nchunks) /\ chunks_queue # <<>>
    BY DEF IndInv, TypeOK, SplitChunk, Popped
  <2>2. Tail(chunks_queue) \in Seq(1 .. nchunks)
    BY <2>1
  <2>3. Tail(chunks_queue) \in Seq(1 .. n)
    BY <2>2, <1>0
  <2>4. <<i, n>> \in Seq(1 .. n)
    BY <1>0
  <2> QED BY <2>3, <2>4 DEF SplitChunk
<1>9. TypeOK'
  BY <1>5, <1>6, <1>7, <1>8 DEF IndInv, TypeOK
<1>10. ChunkOK(lo, tj[i])
  <2> HIDE DEF c, n
  <2>1. c.status = "ASSIGNED" => tj[i] \in {"step", "test", "cancelled"}
    BY <1>0 DEF ChunkOK, StatusOK
  <2>2. c.status = "DUMPING_CHUNK" => tj[i] \in Dumped \cup {"write", "test"}
    BY <1>0 DEF ChunkOK, StatusOK
  <2>3. RangeOK(lo, tj[i])
    <3>1. RangeOK(c, tj[i]) /\ SkippedOK(c, tj[i])
      BY <1>0 DEF ChunkOK
    <3>2. CASE c.status = "ASSIGNED"
      BY <3>1, <3>2, <1>1, <1>2, <1>3, <2>1, WidthAssumption, RowsAssumption
         DEF RangeOK, LowerBound, Dumped, U
    <3>3. CASE c.status = "DUMPING_CHUNK" /\ tj[i] = "test"
      BY <3>1, <3>3, <1>1, <1>2, <1>3, WidthAssumption, RowsAssumption
         DEF RangeOK, SkippedOK, Dumped, U
    <3>4. CASE c.status = "DUMPING_CHUNK" /\ tj[i] # "test"
      BY <3>1, <3>4, <1>1, <1>2, <1>3, <2>2, WidthAssumption, RowsAssumption
         DEF RangeOK, LowerBound, Dumped, U
    <3> QED BY <1>2, <3>2, <3>3, <3>4
  <2>4. SkippedOK(lo, tj[i])
    BY <1>0, <1>1, <1>2, <1>3, RowsAssumption DEF ChunkOK, SkippedOK, U
  <2>5. StepOK(lo, tj[i])
    BY <1>0, <1>1, <1>2, <1>3, StepAssumption DEF ChunkOK, StepOK, U
  <2>6. StatusOK(lo, tj[i])
    BY <1>0, <1>3 DEF ChunkOK, StatusOK
  <2> QED BY <2>3, <2>4, <2>5, <2>6 DEF ChunkOK
<1>11. ChunkOK(hi, "step")
  <2> HIDE DEF c, n
  <2>1. c.step >= 1 /\ (FixedLength => c.step = StartStep) /\ c.max <= LastKey
    BY <1>0, <1>1, <1>2 DEF ChunkOK, RangeOK, StepOK, StatusOK, SkippedOK, LowerBound, U, Dumped
  <2> QED BY <2>1, <1>1, <1>2, <1>4 DEF ChunkOK, RangeOK, SkippedOK, StepOK, StatusOK, Dumped, U
<1>12. \A j \in chunks' : ChunkOK(csi[j], tj[j])'
  <2> SUFFICES ASSUME NEW j \in chunks' PROVE ChunkOK(csi'[j], tj'[j])
    BY DEF ChunkOK, RangeOK, SkippedOK, StepOK, StatusOK
  <2>1. CASE j = i
    BY <2>1, <1>6, <1>7, <1>10, <1>5
  <2>2. CASE j = n
    BY <2>2, <1>6, <1>7, <1>11
  <2>3. CASE j # i /\ j # n
    BY <2>3, <1>5, <1>6, <1>7 DEF IndInv
  <2> QED BY <2>1, <2>2, <2>3
<1> DEFINE from == IF tj[i] \in Dumped THEN c.cursor + 1 ELSE c.min
           after(j) == RowsBetween(IF tj'[j] \in Dumped THEN csi'[j].cursor + 1
                                                        ELSE csi'[j].min, csi'[j].max)
<1>rows. \A j \in chunks' : Pending(j)' = after(j) /\ after(j) \subseteq Rows
  BY DEF Pending, From, RowsBetween
<1>13. /\ Pending(i) = RowsBetween(from, c.max)
       /\ after(i) = RowsBetween(from, s - 1)
       /\ after(n) = RowsBetween(s, c.max)
       /\ \A j \in chunks : j # i => after(j) = Pending(j)
  <2>1. Pending(i) = RowsBetween(from, c.max)
    BY DEF Pending, From
  <2>2. after(i) = RowsBetween(from, s - 1)
    BY <1>0, <1>3, <1>5, <1>6, <1>7
  <2>3. after(n) = RowsBetween(s, c.max)
    BY <1>4, <1>5, <1>6, <1>7 DEF Dumped
  <2>4. \A j \in chunks : j # i => after(j) = Pending(j)
    BY <1>6, <1>7 DEF Pending, From
  <2> QED BY <2>1, <2>2, <2>3, <2>4
<1> HIDE DEF after
<1>14. \A k \in Rows : /\ k \in after(i) => k \in Pending(i)
                       /\ k \in Pending(i) => k \in after(i) \/ k \in after(n)
                       /\ ~(k \in after(i) /\ k \in after(n))
  <2> HIDE DEF c, n
  <2>1. from \in Int
    BY <1>2 DEF U
  <2> HIDE DEF from
  <2> QED BY <2>1, <1>1, <1>2, <1>13, RowsAssumption DEF RowsBetween, U
\* A chunk that stage 1 has skipped holds no row above its cursor.
<1>15. \A k \in Rows : k \in after(n) => k \in Pending(i)
  <2> SUFFICES ASSUME NEW k \in Rows, s <= k, k <= c.max PROVE k \in Pending(i)
    BY <1>13 DEF RowsBetween
  <2>1. from <= s
    <3> HIDE DEF c, n
    <3>1. ~(tj[i] = "test" /\ c.status = "DUMPING_CHUNK")
      BY <1>0, <1>1, <1>2, RowsAssumption DEF ChunkOK, SkippedOK, LowerBound, U
    <3> QED BY <3>1, <1>0, <1>1, <1>2 DEF ChunkOK, RangeOK, StatusOK, LowerBound, Dumped, U
  <2>2. k \in Int /\ s \in Int /\ from \in Int
    BY <1>1, <1>2, RowsAssumption DEF U
  <2> HIDE DEF c, n, from
  <2> QED BY <2>1, <2>2, <1>13 DEF RowsBetween
<1> HIDE DEF from
<1>17. Disjoint'
  <2> SUFFICES ASSUME NEW j \in chunks', NEW l \in chunks', j # l,
                      NEW k \in Rows, k \in after(j), k \in after(l)
               PROVE  FALSE
    BY <1>rows DEF Disjoint
  <2>1. \A m \in chunks : k \in after(m) => k \in Pending(m)
    BY <1>13, <1>14
  <2>2. k \in after(n) => k \in Pending(i) /\ k \notin after(i)
    BY <1>14, <1>15
  <2>3. \A m, q \in chunks : m # q /\ k \in Pending(m) => k \notin Pending(q)
    BY DEF IndInv, Disjoint
  <2>4. \A m \in chunks : k \in after(n) => k \notin after(m)
    BY <1>5, <2>1, <2>2, <2>3
  <2> QED BY <1>5, <2>1, <2>3, <2>4
<1>18. PendingUnwritten'
  <2> SUFFICES ASSUME NEW j \in chunks', NEW k \in Rows, k \in after(j)
               PROVE  written[k] = 0
    BY <1>5, <1>rows DEF PendingUnwritten
  <2> QED BY <1>5, <1>13, <1>14, <1>15 DEF IndInv, PendingUnwritten
<1>19. AtMostOnce'
  BY <1>5 DEF IndInv, AtMostOnce
<1>20. Covered'
  <2> SUFFICES ASSUME ~shutdown_triggered, NEW k \in Rows
               PROVE  written[k] = 1 \/ \E j \in chunks' : k \in after(j)
    BY <1>5, <1>rows DEF Covered
  <2>1. written[k] = 1 \/ \E j \in chunks : k \in Pending(j)
    BY DEF IndInv, Covered
  <2> QED BY <2>1, <1>5, <1>13, <1>14
<1>21. NullOK'
  <2>1. 1 \in chunks /\ 1 # n
    BY <1>0 DEF chunks
  <2>2. /\ csi'[1].include_null = csi[1].include_null /\ csi'[1].min = csi[1].min
        /\ tj'[1] = tj[1]
    BY <2>1, <1>3, <1>6, <1>7
  <2>3. \A j \in chunks' : csi'[j].include_null => j = 1
    BY <1>3, <1>4, <1>5, <1>6 DEF IndInv, NullOK
  <2> QED BY <2>2, <2>3, <1>5 DEF IndInv, NullOK, NullAsked
<1>22. CancelledOK'
  BY <1>5, <1>7 DEF IndInv, CancelledOK
<1> QED BY <1>9, <1>12, <1>17, <1>18, <1>19, <1>20, <1>21, <1>22 DEF IndInv

-----------------------------------------------------------------------------
(* The invariant holds initially and is kept by every step *)

\* A first chunk that covers the whole width is never made: the gap between
\* the smallest and the largest key, read as a signed number, exceeds a step.
LEMMA InitInv ==
    ASSUME Init
    PROVE  IndInv
<1> DEFINE c == FirstChunk
           m == IF FixedLength THEN (FirstKey \div StartStep) * StartStep ELSE FirstKey
<1> USE WidthAssumption, RowsAssumption, StepAssumption
<1>1. FirstKey \in U /\ LastKey \in U /\ FirstKey <= LastKey /\ StartStep \in U /\ StartStep >= 1
  BY DEF U
<1>2. m \in U /\ m <= FirstKey
  <2>1. FirstKey \in Nat /\ StartStep \in Nat \ {0}
    BY <1>1 DEF U
  <2>2. (FirstKey \div StartStep) * StartStep \in Nat
        /\ (FirstKey \div StartStep) * StartStep <= FirstKey
    BY <2>1
  <2> QED BY <1>1, <2>2 DEF U
<1>3. FirstKey > 0 \/ LastKey < MaxU
  BY <1>1 DEF Gint64Abs, U
<1>4. m > 0 \/ LastKey < MaxU
  <2>1. CASE ~FixedLength
    BY <2>1, <1>3, <1>1 DEF U
  <2>2. CASE FixedLength
    <3> SUFFICES ASSUME m = 0, LastKey = MaxU PROVE FALSE
      BY <1>1, <1>2 DEF U
    <3>1. FirstKey < StartStep /\ StartStep = MinStep
      BY <2>2, <1>1 DEF U
    <3> QED BY <3>1, <1>1 DEF Gint64Abs, U
  <2> QED BY <2>1, <2>2
<1>5. /\ c \in Chunk /\ c.min = m /\ c.max = LastKey /\ c.cursor = FirstKey
      /\ c.step = StartStep /\ c.status = "UNASSIGNED" /\ c.include_null
  BY <1>1, <1>2 DEF FirstChunk, Chunk, Status
<1>6. ~FixedLength => c.min = FirstKey
  BY <1>5
<1>7. csi = [i \in 1 .. 1 |-> c] /\ tj = [i \in 1 .. 1 |-> "none"] /\ nchunks = 1
  BY DEF Init
<1> HIDE DEF c, m
<1>8. ChunkOK(c, "none")
  BY <1>1, <1>2, <1>4, <1>5 DEF ChunkOK, RangeOK, SkippedOK, StepOK, StatusOK, Dumped, U
<1>9. chunks = {1} /\ csi[1] = c /\ tj[1] = "none" /\ shutdown_triggered = FALSE
  BY <1>7 DEF chunks, Init
<1>10. \A k \in AllRows : written[k] = 0
  BY DEF Init
<1>11. Pending(1) = Rows
  <2>1. \A k \in Rows : m <= k /\ k <= LastKey
    BY <1>1, <1>2 DEF U
  <2> QED BY <1>5, <1>9, <2>1 DEF Pending, From, Dumped, RowsBetween
<1>12. TypeOK
  <2>1. csi \in [1 .. nchunks -> Chunk] /\ tj \in [1 .. nchunks -> PC]
    BY <1>5, <1>7 DEF PC
  <2>2. chunks_queue \in Seq(1 .. nchunks)
    BY <1>7 DEF Init
  <2>3. written \in [AllRows -> Nat] /\ files \subseteq [part : Nat, chunk : Nat, from : U]
    BY DEF Init
  <2>4. nchunks \in Nat \ {0} /\ builder = "idle" /\ shutdown_triggered = FALSE
    BY <1>7 DEF Init
  <2> QED BY <2>1, <2>2, <2>3, <2>4, Zenon DEF TypeOK
<1>13. /\ \A i \in chunks : ChunkOK(csi[i], tj[i])
       /\ Disjoint /\ PendingUnwritten /\ AtMostOnce /\ Covered
  BY <1>8, <1>9, <1>10, <1>11 DEF Disjoint, PendingUnwritten, AtMostOnce, Covered, AllRows
<1>14. NullOK /\ CancelledOK
  BY <1>5, <1>6, <1>9, <1>10 DEF NullOK, NullAsked, CancelledOK, AllRows
<1> QED BY <1>12, <1>13, <1>14 DEF IndInv

\* Steps that leave the chunks and the rows alone keep the invariant; a
\* shutdown only weakens it.
LEMMA QuietInv ==
    ASSUME IndInv, UNCHANGED <<nchunks, csi, tj, written, files>>,
           shutdown_triggered' \in BOOLEAN, shutdown_triggered => shutdown_triggered',
           builder' \in {"idle", "calling", "removed"},
           chunks_queue' \in Seq(1 .. nchunks)
    PROVE  IndInv'
<1>1. chunks' = chunks /\ (\A i \in chunks : Pending(i)' = Pending(i)) /\ NullAsked' = NullAsked
  BY DEF chunks, Pending, From, RowsBetween, NullAsked
<1>2. TypeOK'
  BY DEF IndInv, TypeOK
<1>3. \A i \in chunks' : ChunkOK(csi[i], tj[i])'
  BY <1>1 DEF IndInv, ChunkOK, RangeOK, SkippedOK, StepOK, StatusOK
<1>4. Disjoint' /\ PendingUnwritten' /\ AtMostOnce' /\ Covered'
  BY <1>1 DEF IndInv, Disjoint, PendingUnwritten, AtMostOnce, Covered
<1>5. NullOK' /\ CancelledOK'
  BY <1>1 DEF IndInv, NullOK, CancelledOK
<1> QED BY <1>2, <1>3, <1>4, <1>5 DEF IndInv

\* Every step of the specification keeps the inductive invariant.
LEMMA NextInv ==
    ASSUME IndInv, [Next]_vars
    PROVE  IndInv'
<1>1. /\ builder \in {"idle", "calling", "removed"} /\ shutdown_triggered \in BOOLEAN
      /\ chunks_queue \in Seq(1 .. nchunks)
  BY DEF IndInv, TypeOK
<1>2. CASE GetNextCall \/ GetNextNull
  BY <1>1, <1>2, QuietInv DEF GetNextCall, GetNextNull
<1>3. ASSUME NEW i \in chunks, DropChunk(i) PROVE IndInv'
  BY <1>1, <1>3, QuietInv DEF DropChunk, Popped
<1>4. CASE Shutdown
  BY <1>1, <1>4, QuietInv DEF Shutdown
<1>5. CASE UNCHANGED vars
  BY <1>1, <1>5, QuietInv DEF vars
<1>6. ASSUME NEW i \in chunks, AssignChunk(i) \/ MarkUnsplittable(i) \/ SplitChunk(i)
      PROVE  IndInv'
  BY <1>6, AssignChunkInv, MarkUnsplittableInv, SplitChunkInv
<1>7. ASSUME NEW i \in chunks, Worker(i) PROVE IndInv'
  BY <1>7, BeginStepInv, SkipEmptyInv, WriteRowsInv, UpdateStepInv, UpdateMinInv,
     LoopTestInv, CancelJobInv DEF Worker
<1> QED BY <1>2, <1>3, <1>4, <1>5, <1>6, <1>7 DEF Next, Builder

\* The inductive invariant holds in every reachable state.
THEOREM Invariance == Spec => []IndInv
  BY InitInv, NextInv, PTL DEF Spec

\* No chunk is forgotten: none is left without a job when the builder is
\* through with the table.
LEMMA HandedOutInv ==
    ASSUME IndInv, HandedOut, [Next]_vars
    PROVE  HandedOut'
<1>1. /\ nchunks \in Nat \ {0} /\ chunks = 1 .. nchunks /\ tj \in [chunks -> PC]
      /\ \A i \in chunks : tj[i] = "none" <=> csi[i].status = "UNASSIGNED"
  BY DEF IndInv, TypeOK, chunks, ChunkOK, StatusOK
<1>2. CASE GetNextCall \/ GetNextNull
  BY <1>2 DEF HandedOut, GetNextCall, GetNextNull, chunks
<1>3. ASSUME NEW i \in chunks, AssignChunk(i) PROVE HandedOut'
  BY <1>1, <1>3 DEF HandedOut, AssignChunk, Popped, chunks
<1>4. ASSUME NEW i \in chunks, DropChunk(i) \/ MarkUnsplittable(i) PROVE HandedOut'
  <2>1. tj[i] # "none" /\ tj' = tj /\ chunks' = chunks /\ i = Head(chunks_queue)
    BY <1>1, <1>4 DEF DropChunk, MarkUnsplittable, Splittable, Popped, chunks
  <2> QED BY <2>1 DEF HandedOut
<1>5. ASSUME NEW i \in chunks, SplitChunk(i) PROVE HandedOut'
  <2>1. tj[i] # "none" /\ i = Head(chunks_queue)
    BY <1>1, <1>5 DEF SplitChunk, Splittable, Popped
  <2>2. \A j \in chunks : tj[j] # "none"
    BY <2>1 DEF HandedOut
  <2>3. chunks' = 1 .. nchunks + 1
        /\ tj' = [j \in 1 .. nchunks + 1 |-> IF j = nchunks + 1 THEN "step" ELSE tj[j]]
    BY <1>5 DEF SplitChunk, chunks
  <2>4. \A j \in chunks' : j = nchunks + 1 \/ j \in chunks
    BY <1>1, <2>3
  <2> QED BY <2>2, <2>3, <2>4 DEF HandedOut
<1>6. ASSUME NEW i \in chunks, Worker(i) PROVE HandedOut'
  <2>1. /\ chunks' = chunks /\ chunks_queue' = chunks_queue /\ builder' = builder
        /\ \A j \in chunks : tj'[j] = "none" => tj[j] = "none"
    BY <1>1, <1>6 DEF Worker, BeginStep, SkipEmpty, WriteRows, UpdateStep, UpdateMin,
                      LoopTest, CancelJob, chunks
  <2> QED BY <2>1 DEF HandedOut
<1>7. CASE Shutdown \/ UNCHANGED vars
  BY <1>7 DEF HandedOut, Shutdown, vars, chunks
<1> QED BY <1>2, <1>3, <1>4, <1>5, <1>6, <1>7 DEF Next, Builder

\* The inductive invariant, and with it that no chunk is forgotten.
THEOREM NoneForgotten == Spec => [](IndInv /\ HandedOut)
<1>1. Init => HandedOut
  BY DEF Init, HandedOut, chunks
<1> QED BY <1>1, HandedOutInv, Invariance, PTL DEF Spec

-----------------------------------------------------------------------------
(* What follows from it *)

\* Keys, steps and part numbers keep their types whatever the splits do.
THEOREM TypeCorrect == Spec => []TypeOK
<1>1. IndInv => TypeOK
  BY DEF IndInv
<1> QED BY <1>1, Invariance, PTL

\* No row is written twice.
THEOREM NoDuplicates == Spec => []AtMostOnce
<1>1. IndInv => AtMostOnce
  BY DEF IndInv
<1> QED BY <1>1, Invariance, PTL

\* A split never moves max below the cursor of a SELECT under way.
THEOREM CursorStaysInside == Spec => []CursorInside
<1>1. IndInv => CursorInside
  BY DEF IndInv, CursorInside, ChunkOK, RangeOK, Dumped
<1> QED BY <1>1, Invariance, PTL

\* Once the builder is through and every job is done no row is missing.
LEMMA FinishedComplete ==
    IndInv /\ HandedOut /\ Finished /\ ~shutdown_triggered => \A k \in AllRows : written[k] = 1
<1> SUFFICES ASSUME IndInv, HandedOut, Finished, ~shutdown_triggered
             PROVE  \A k \in AllRows : written[k] = 1
  OBVIOUS
<1>a. \A i \in chunks : tj[i] = "done"
  BY DEF IndInv, HandedOut, CancelledOK, Finished, Running
<1>1. /\ 1 \in chunks /\ csi \in [chunks -> Chunk]
      /\ \A i \in chunks : tj[i] = "done" /\ csi[i].min > csi[i].max
  BY <1>a DEF IndInv, TypeOK, chunks, ChunkOK, RangeOK
<1>2. \A i \in chunks : Pending(i) = {}
  <2> SUFFICES ASSUME NEW i \in chunks, NEW k \in Rows, csi[i].min <= k, k <= csi[i].max
               PROVE  FALSE
    BY <1>1 DEF Pending, From, Dumped, RowsBetween
  <2>1. csi[i].min \in Int /\ csi[i].max \in Int /\ k \in Int
    BY <1>1, RowsAssumption DEF Chunk, U
  <2> QED BY <1>1, <2>1
<1>3. \A k \in Rows : written[k] = 1
  BY <1>2 DEF IndInv, Covered
<1>4. written[NullKey] = 1
  BY <1>1 DEF IndInv, NullOK, NullAsked
<1> QED BY <1>3, <1>4 DEF AllRows

\* A finished export that no signal interrupted has written every row.
THEOREM Complete == Spec => []NothingMissing
<1>1. IndInv /\ HandedOut => NothingMissing
  BY FinishedComplete DEF NothingMissing
<1> QED BY <1>1, NoneForgotten, PTL

-----------------------------------------------------------------------------
(* Data files have distinct names.  With adapted steps the numbers a chunk  *)
(* and those split off it may use are a residue class, which a split halves *)
(* as long as no double rounds them; with fixed steps the number is that of *)
(* the step, and steps have one owner.                                      *)

Numbers(c) == {c.part + n * c.stride : n \in Nat}

NumbersOK ==
    ~FixedLength /\ PartsExact =>
        /\ \A i \in chunks : csi[i].stride >= 1
        /\ \A i, j \in chunks : i # j => Numbers(csi[i]) \cap Numbers(csi[j]) = {}
        /\ \A f \in files : f.chunk \in chunks /\ f.part = csi[f.chunk].part

\* Where a fixed length step may begin, and the keys a chunk has in front of it.
OnStep(k) == \E q \in Nat : k = q * StartStep
Ahead(c, pc) == (IF pc \in Dumped THEN c.cursor + 1 ELSE c.min) .. c.max

\* A chunk begins on a step; what it SELECTs ends with the step or the chunk.
AlignedOK(c, pc) ==
    /\ c.min <= c.max => OnStep(c.min)
    /\ pc \in {"write", "advance"} => c.cursor = c.max \/ c.cursor + 1 = c.min + StartStep

StepsOK ==
    FixedLength =>
        /\ \A i \in chunks : AlignedOK(csi[i], tj[i])
        /\ \A i, j \in chunks : i # j => Ahead(csi[i], tj[i]) \cap Ahead(csi[j], tj[j]) = {}
        /\ \A f \in files : /\ \E q \in Nat : f.from = q * StartStep /\ f.part = q + 1
                            /\ \A i \in chunks : f.from \notin Ahead(csi[i], tj[i])
        /\ \A f, g \in files : f.from = g.from => f.chunk = g.chunk

\* What a residue class is split into: two classes of twice its stride, apart.
LEMMA HalvedNumbers ==
    ASSUME NEW p \in Nat, NEW s \in Nat, s >= 1
    PROVE  LET all == {p + n * s : n \in Nat}
               even == {p + n * (2 * s) : n \in Nat}
               odd == {(p + s) + n * (2 * s) : n \in Nat}
           IN even \subseteq all /\ odd \subseteq all /\ even \cap odd = {}
<1>1. ASSUME NEW n \in Nat
      PROVE  /\ 2 * n \in Nat /\ 2 * n + 1 \in Nat
             /\ n * (2 * s) = (2 * n) * s /\ s + n * (2 * s) = (2 * n + 1) * s
  OBVIOUS
<1>2. ASSUME NEW n \in Nat, NEW m \in Nat, (2 * n) * s = (2 * m + 1) * s PROVE FALSE
  <2>1. (2 * n - 2 * m - 1) * s = 0
    BY <1>2
  <2>2. 2 * n - 2 * m - 1 # 0
    OBVIOUS
  <2>3. \A x \in Int : x * s = 0 => x = 0
    OBVIOUS
  <2> QED BY <2>1, <2>2, <2>3
<1>3. {p + n * (2 * s) : n \in Nat} \subseteq {p + n * s : n \in Nat}
  <2> SUFFICES ASSUME NEW n \in Nat PROVE \E m \in Nat : p + n * (2 * s) = p + m * s
    OBVIOUS
  <2> WITNESS 2 * n \in Nat
  <2> QED BY <1>1
<1>4. {(p + s) + n * (2 * s) : n \in Nat} \subseteq {p + n * s : n \in Nat}
  <2> SUFFICES ASSUME NEW n \in Nat PROVE \E m \in Nat : (p + s) + n * (2 * s) = p + m * s
    OBVIOUS
  <2> WITNESS 2 * n + 1 \in Nat
  <2>1. (p + s) + n * (2 * s) = p + (s + n * (2 * s))
    OBVIOUS
  <2> QED BY <1>1, <2>1
<1>5. {p + n * (2 * s) : n \in Nat} \cap {(p + s) + n * (2 * s) : n \in Nat} = {}
  <2> SUFFICES ASSUME NEW n \in Nat, NEW m \in Nat, p + n * (2 * s) = (p + s) + m * (2 * s)
               PROVE  FALSE
    OBVIOUS
  <2>1. n * (2 * s) \in Nat /\ m * (2 * s) \in Nat
    OBVIOUS
  <2>2. n * (2 * s) = s + m * (2 * s)
    BY <2>1
  <2>3. (2 * n) * s = (2 * m + 1) * s
    BY <1>1, <2>2
  <2> QED BY <1>2, <2>3
<1> QED BY <1>3, <1>4, <1>5

\* A chunk's own number is one it may use.
LEMMA OwnNumber ==
    ASSUME NEW c \in Chunk
    PROVE  c.part \in Numbers(c)
<1>1. c.part = c.part + 0 * c.stride
  BY DEF Chunk
<1> QED BY <1>1 DEF Numbers

\* A step that leaves part and deep of every chunk alone, and names no file but
\* by the number of its chunk, keeps the numbers apart.
LEMMA NumbersKept ==
    ASSUME NumbersOK, nchunks' = nchunks,
           \A j \in chunks : csi'[j].part = csi[j].part /\ csi'[j].stride = csi[j].stride,
           ~FixedLength => \A f \in files' : f \in files \/
                              (f.chunk \in chunks /\ f.part = csi[f.chunk].part)
    PROVE  NumbersOK'
<1>1. chunks' = chunks
  BY DEF chunks
<1>2. \A j \in chunks : Numbers(csi'[j]) = Numbers(csi[j])
  BY DEF Numbers
<1>3. PartsExact' = PartsExact
  BY <1>1 DEF PartsExact
<1> QED BY <1>1, <1>2, <1>3 DEF NumbersOK

\* A split halves the numbers of the chunk that is split.
LEMMA NumbersSplit ==
    ASSUME IndInv, NumbersOK, NEW i \in chunks, SplitChunk(i)
    PROVE  NumbersOK'
<1> DEFINE c == csi[i]
           n == nchunks + 1
           lo == LowerPart(c)
           hi == UpperPart(c)
<1> SUFFICES ASSUME ~FixedLength, PartsExact' PROVE NumbersOK'
  BY DEF NumbersOK
<1>3. /\ chunks' = chunks \cup {n} /\ n \notin chunks /\ files' = files
      /\ csi'[i] = lo /\ csi'[n] = hi
      /\ \A j \in chunks : j # i => csi'[j] = csi[j]
  <2>0. nchunks \in Nat \ {0} /\ i \in 1 .. nchunks /\ i # n
    BY DEF IndInv, TypeOK, chunks
  <2>1. /\ csi' = [j \in 1 .. n |-> CASE j = i -> lo [] j = n -> hi [] OTHER -> csi[j]]
        /\ nchunks' = n /\ files' = files
    BY DEF SplitChunk
  <2>2. 1 .. n = (1 .. nchunks) \cup {n} /\ n \notin 1 .. nchunks
    BY <2>0
  <2> HIDE DEF lo, hi, c, n
  <2> QED BY <2>0, <2>1, <2>2 DEF chunks
<1>0. PartsExact /\ 2 * c.stride <= ExactParts
  <2>1. c \in Chunk /\ c.stride \in Nat
    BY ChunkFacts DEF Chunk
  <2>2. lo.stride = 2 * c.stride
    BY <2>1 DEF LowerPart, Chunk
  <2> HIDE DEF lo, hi, c, n
  <2>3. 2 * c.stride <= ExactParts
    BY <1>3, <2>2 DEF PartsExact
  <2>4. c.stride <= ExactParts
    BY <2>1, <2>3, StepAssumption
  <2> QED BY <1>3, <2>3, <2>4 DEF PartsExact, c
<1>1. /\ c \in Chunk /\ nchunks \in Nat \ {0} /\ i \in 1 .. nchunks /\ i # n
      /\ c.part \in Nat /\ c.stride \in Nat /\ c.stride >= 1
  BY <1>0, ChunkFacts DEF Chunk, IndInv, TypeOK, NumbersOK
<1>2. /\ lo.part = c.part /\ lo.stride = 2 * c.stride
      /\ hi.part = c.part + c.stride /\ hi.stride = 2 * c.stride
  <2>1. AddedPart(c) = c.part + c.stride
    BY <1>0, <1>1, AddedPartType
  <2> QED BY <1>1, <2>1 DEF LowerPart, UpperPart, Chunk
<1>4. /\ Numbers(lo) \subseteq Numbers(c) /\ Numbers(hi) \subseteq Numbers(c)
      /\ Numbers(lo) \cap Numbers(hi) = {}
  <2> HIDE DEF lo, hi, c
  <2>1. /\ Numbers(c) = {c.part + k * c.stride : k \in Nat}
        /\ Numbers(lo) = {c.part + k * (2 * c.stride) : k \in Nat}
        /\ Numbers(hi) = {(c.part + c.stride) + k * (2 * c.stride) : k \in Nat}
    BY <1>2 DEF Numbers
  <2> QED BY <1>1, <2>1, HalvedNumbers
<1>5. 2 * c.stride >= 1
  BY <1>1
<1> HIDE DEF lo, hi, c, n
<1>6. \A j \in chunks' : csi'[j].stride >= 1
  BY <1>0, <1>2, <1>3, <1>5 DEF NumbersOK
<1>7. \A j \in chunks : j # i => Numbers(csi[j]) \cap Numbers(c) = {}
  BY <1>0 DEF NumbersOK, c
<1>8. \A j, k \in chunks' : j # k => Numbers(csi'[j]) \cap Numbers(csi'[k]) = {}
  <2> SUFFICES ASSUME NEW j \in chunks', NEW k \in chunks', j # k
               PROVE  Numbers(csi'[j]) \cap Numbers(csi'[k]) = {}
    OBVIOUS
  <2>1. CASE j \in {i, n} /\ k \in {i, n}
    BY <2>1, <1>3, <1>4
  <2>2. CASE j \in {i, n} /\ k \notin {i, n}
    BY <2>2, <1>3, <1>4, <1>7
  <2>3. CASE j \notin {i, n} /\ k \in {i, n}
    BY <2>3, <1>3, <1>4, <1>7
  <2>4. CASE j \notin {i, n} /\ k \notin {i, n}
    BY <2>4, <1>0, <1>3 DEF NumbersOK
  <2> QED BY <2>1, <2>2, <2>3, <2>4
<1>9. \A f \in files' : f.chunk \in chunks' /\ f.part = csi'[f.chunk].part
  BY <1>0, <1>2, <1>3 DEF NumbersOK, c
<1> QED BY <1>6, <1>8, <1>9 DEF NumbersOK

\* A step that leaves every chunk on a step, with no key in front of it that
\* was not there before, and writes no file, keeps every step with one owner.
LEMMA StepsKept ==
    ASSUME StepsOK, nchunks' = nchunks, files' = files,
           FixedLength => \A j \in chunks : /\ AlignedOK(csi'[j], tj'[j])
                                            /\ Ahead(csi'[j], tj'[j]) \subseteq Ahead(csi[j], tj[j])
    PROVE  StepsOK'
<1> SUFFICES ASSUME FixedLength PROVE StepsOK'
  BY DEF StepsOK
<1>1. chunks' = chunks
  BY DEF chunks
<1>2. \A j \in chunks : AlignedOK(csi'[j], tj'[j]) /\ Ahead(csi'[j], tj'[j]) \subseteq Ahead(csi[j], tj[j])
  OBVIOUS
<1>3. \A j \in chunks' : AlignedOK(csi[j], tj[j])'
  BY <1>1, <1>2 DEF AlignedOK, OnStep
<1>4. \A j, k \in chunks' : j # k => Ahead(csi'[j], tj'[j]) \cap Ahead(csi'[k], tj'[k]) = {}
  BY <1>1, <1>2 DEF StepsOK
<1>5. \A f \in files', j \in chunks' : f.from \notin Ahead(csi'[j], tj'[j])
  BY <1>1, <1>2 DEF StepsOK
<1> QED BY <1>3, <1>4, <1>5 DEF StepsOK

\* The same for a step that replaces chunk i by d and its worker's place by p.
LEMMA OneChunkSteps ==
    ASSUME IndInv, StepsOK, NEW i \in chunks, NEW d \in Chunk, NEW p \in PC,
           nchunks' = nchunks, files' = files,
           csi' = [csi EXCEPT ![i] = d], tj' = [tj EXCEPT ![i] = p],
           FixedLength => /\ AlignedOK(d, p)
                          /\ Ahead(d, p) \subseteq Ahead(csi[i], tj[i])
    PROVE  StepsOK'
<1>1. /\ csi \in [chunks -> Chunk] /\ tj \in [chunks -> PC]
      /\ csi'[i] = d /\ tj'[i] = p
      /\ \A j \in chunks : j # i => csi'[j] = csi[j] /\ tj'[j] = tj[j]
  BY DEF IndInv, TypeOK, chunks
<1>2. ASSUME FixedLength, NEW j \in chunks
      PROVE  AlignedOK(csi'[j], tj'[j]) /\ Ahead(csi'[j], tj'[j]) \subseteq Ahead(csi[j], tj[j])
  <2>1. CASE j = i
    BY <1>1, <1>2, <2>1 DEF Ahead
  <2>2. CASE j # i
    BY <1>1, <1>2, <2>2 DEF Ahead, StepsOK
  <2> QED BY <2>1, <2>2
<1> QED BY <1>2, StepsKept

\* The part of the next step of a chunk that is on a step.
LEMMA StepNumber ==
    ASSUME NEW q \in Nat
    PROVE  (q * StartStep) \div StartStep = q
<1>1. StartStep \in Nat \ {0}
  BY StepAssumption DEF U
<1> QED BY <1>1

\* A fixed length chunk never turns its step into another.
LEMMA FixedFacts ==
    ASSUME IndInv, NEW i \in chunks, FixedLength
    PROVE  /\ csi[i] \in Chunk /\ csi[i].step = StartStep /\ StartStep \in U \ {0}
           /\ csi[i].min \in U /\ csi[i].max \in U /\ csi[i].cursor \in U
           /\ tj[i] \notin {"resize", "resize_empty"}
  BY ChunkFacts, StepAssumption, WidthAssumption DEF ChunkOK, StepOK, Chunk, U

\* Stages 1 to 3 end the SELECT with the step or with the chunk.
LEMMA BeginStepSteps ==
    ASSUME IndInv, StepsOK, NEW i \in chunks, BeginStep(i)
    PROVE  StepsOK'
<1> DEFINE c == csi[i]
<1> SUFFICES ASSUME FixedLength PROVE StepsOK'
  BY DEF StepsOK
<1>1. /\ c \in Chunk /\ c.step = StartStep /\ StartStep \in U \ {0}
      /\ c.min \in U /\ c.max \in U /\ c.cursor \in U
  BY FixedFacts
<1>2. /\ tj[i] = "step" /\ c.min <= c.max /\ (c.min > 0 \/ c.max < MaxU)
      /\ AlignedOK(c, "step")
  BY ChunkFacts DEF BeginStep, ChunkOK, RangeOK, StepsOK
<1> DEFINE cur == NextCursor(c.min, c.max, c.step)
           d == Prepared(c, c.min, c.max)
<1>3. cur \in U /\ (cur = c.max \/ cur + 1 = c.min + StartStep)
  <2>1. cur \in U
    <3> HIDE DEF c
      <3>1. c.min <= c.max /\ c.step >= 1 /\ c.step \in U
        BY <1>1, <1>2 DEF U
      <3> QED BY <1>1, <1>2, <3>1, CursorRange
  <2> QED BY <1>1, <2>1 DEF NextCursor, U
<1>4. /\ d \in Chunk /\ d.min = c.min /\ d.max = c.max /\ d.cursor = cur
  BY <1>1, <1>3, StepAssumption DEF Prepared, Chunk, Status
<1>5. /\ nchunks' = nchunks /\ files' = files
      /\ csi' = [csi EXCEPT ![i] = d] /\ tj' = [tj EXCEPT ![i] = "write"]
  BY DEF BeginStep
<1> HIDE DEF d, cur, c
<1>6. AlignedOK(d, "write")
  BY <1>2, <1>3, <1>4 DEF AlignedOK
<1>7. Ahead(d, "write") = Ahead(csi[i], tj[i]) /\ "write" \notin Dumped /\ "write" \in PC
  BY <1>2, <1>4 DEF Ahead, Dumped, PC, c
<1> QED BY <1>4, <1>5, <1>6, <1>7, OneChunkSteps

\* The next step begins where the last one ended.
LEMMA UpdateMinSteps ==
    ASSUME IndInv, StepsOK, NEW i \in chunks, UpdateMin(i)
    PROVE  StepsOK'
<1> DEFINE c == csi[i]
           d == Advanced(c)
<1> SUFFICES ASSUME FixedLength PROVE StepsOK'
  BY DEF StepsOK
<1>1. /\ c \in Chunk /\ c.step = StartStep /\ StartStep \in U \ {0}
      /\ c.min \in U /\ c.max \in U /\ c.cursor \in U
  BY FixedFacts
<1>2. /\ tj[i] = "advance" /\ c.min <= c.cursor /\ c.cursor <= c.max
      /\ (c.min > 0 \/ c.max < MaxU) /\ AlignedOK(c, "advance")
  BY ChunkFacts DEF UpdateMin, ChunkOK, RangeOK, StepsOK, Dumped
<1>3. \/ d \in Chunk /\ d.min > d.max
      \/ d \in Chunk /\ d.min = c.cursor + 1 /\ d.max = c.max
  <2>1. CASE c.cursor = MaxU
    <3>1. c.max = MaxU /\ c.min > 0 /\ Inc(c.cursor) = 0
      BY <1>1, <1>2, <2>1 DEF Inc, U
    <3>2. /\ d = [c EXCEPT !.min = c.max, !.max = USub(c.max, 1), !.status = "ASSIGNED"]
          /\ USub(c.max, 1) = MaxU - 1 /\ USub(c.max, 1) \in U
      BY <1>1, <3>1, WidthAssumption DEF Advanced, USub, U
    <3> HIDE DEF d, c
    <3>3. d \in Chunk /\ d.min = MaxU /\ d.max = MaxU - 1
      BY <1>1, <3>1, <3>2 DEF Chunk, Status
    <3> QED BY <3>3, WidthAssumption
  <2>2. CASE c.cursor # MaxU
    <3>1. Inc(c.cursor) = c.cursor + 1 /\ ~(Inc(c.cursor) < c.min) /\ Inc(c.cursor) \in U
      <4> HIDE DEF c
      <4> QED BY <1>1, <1>2, <2>2, WidthAssumption DEF Inc, U
    <3>2. d = [c EXCEPT !.min = Inc(c.cursor), !.status = "ASSIGNED"]
      BY <3>1 DEF Advanced
    <3> HIDE DEF d, c
    <3> QED BY <1>1, <3>1, <3>2 DEF Chunk, Status
  <2> QED BY <2>1, <2>2
<1>4. /\ nchunks' = nchunks /\ files' = files
      /\ csi' = [csi EXCEPT ![i] = d] /\ tj' = [tj EXCEPT ![i] = "test"]
  BY DEF UpdateMin, Trimmed
<1>5. Ahead(csi[i], tj[i]) = (c.cursor + 1) .. c.max
  BY <1>2 DEF Ahead, Dumped
<1> HIDE DEF d, c
<1>6. Ahead(d, "test") \subseteq Ahead(csi[i], tj[i])
  <2>1. Ahead(d, "test") = d.min .. d.max
    BY DEF Ahead, Dumped
  <2>2. CASE d \in Chunk /\ d.min > d.max
    <3>1. d.min \in Int /\ d.max \in Int
      BY <2>2 DEF Chunk, U
    <3>2. d.min .. d.max = {}
      BY <2>2, <3>1
    <3> QED BY <2>1, <3>2
  <2> QED BY <1>3, <1>5, <2>1, <2>2
<1>7. AlignedOK(d, "test")
  <2> SUFFICES ASSUME d.min <= d.max PROVE OnStep(d.min)
    BY DEF AlignedOK
  <2>1. d.min = c.cursor + 1 /\ d.max = c.max /\ c.cursor # c.max /\ c.min <= c.max
    BY <1>1, <1>2, <1>3 DEF Chunk, U
  <2>2. PICK q \in Nat : c.min = q * StartStep
    BY <1>2, <2>1 DEF AlignedOK, OnStep
  <2>3. d.min = q * StartStep + StartStep
    BY <1>2, <2>1, <2>2 DEF AlignedOK
  <2>4. q + 1 \in Nat /\ d.min = (q + 1) * StartStep
    BY <1>1, <2>2, <2>3 DEF U
  <2> QED BY <2>4 DEF OnStep
<1> QED BY <1>3, <1>4, <1>6, <1>7, OneChunkSteps DEF Dumped, PC

\* A file is named after the step it begins with, which is then behind it.
LEMMA WriteRowsSteps ==
    ASSUME IndInv, StepsOK, NEW i \in chunks, WriteRows(i)
    PROVE  StepsOK'
<1> DEFINE c == csi[i]
           r == [part |-> FilePart(c), chunk |-> i, from |-> c.min]
<1> SUFFICES ASSUME FixedLength PROVE StepsOK'
  BY DEF StepsOK
<1>1. /\ c \in Chunk /\ c.step = StartStep /\ StartStep \in U \ {0}
      /\ c.min \in U /\ c.max \in U /\ c.cursor \in U
  BY FixedFacts
<1>2. /\ tj[i] = "write" /\ c.min <= c.cursor /\ c.cursor <= c.max /\ AlignedOK(c, "write")
  BY ChunkFacts DEF WriteRows, ChunkOK, RangeOK, StepsOK, Dumped
<1>3. /\ chunks' = chunks /\ csi' = csi /\ files' = files \cup {r}
      /\ tj' = [tj EXCEPT ![i] = "advance"] /\ tj \in [chunks -> PC]
  BY DEF WriteRows, chunks, IndInv, TypeOK
<1>4. /\ Ahead(csi[i], tj[i]) = c.min .. c.max /\ Ahead(csi'[i], tj'[i]) = (c.cursor + 1) .. c.max
      /\ \A j \in chunks : j # i => Ahead(csi'[j], tj'[j]) = Ahead(csi[j], tj[j])
  BY <1>2, <1>3 DEF Ahead, Dumped
<1>5. c.min \in Ahead(csi[i], tj[i]) /\ c.min \notin Ahead(csi'[i], tj'[i]) /\ Ahead(csi'[i], tj'[i]) \subseteq Ahead(csi[i], tj[i])
  BY <1>1, <1>2, <1>4 DEF U
<1>6. \E q \in Nat : r.from = q * StartStep /\ r.part = q + 1
  <2>1. c.min <= c.max
    BY <1>1, <1>2 DEF U
  <2>2. PICK q \in Nat : c.min = q * StartStep
    BY <1>2, <2>1 DEF AlignedOK, OnStep
  <2>3. c.min \div c.step = q
    BY <1>1, <2>2, StepNumber
  <2>4. r.part = q + 1 /\ r.from = q * StartStep
    BY <2>2, <2>3 DEF FilePart
  <2> HIDE DEF r
  <2> QED BY <2>4
<1>7. r.from = c.min /\ r.chunk = i
  OBVIOUS
<1> HIDE DEF r, c
<1>8. \A j \in chunks' : AlignedOK(csi'[j], tj'[j])
  <2> TAKE j \in chunks'
  <2>1. CASE j = i
    BY <2>1, <1>2, <1>3 DEF AlignedOK, c
  <2>2. CASE j # i
    BY <2>2, <1>3 DEF StepsOK
  <2> QED BY <2>1, <2>2
<1>8a. \A j \in chunks' : AlignedOK(csi[j], tj[j])'
  BY <1>8 DEF AlignedOK, OnStep
<1>9. \A j, k \in chunks' : j # k => Ahead(csi'[j], tj'[j]) \cap Ahead(csi'[k], tj'[k]) = {}
  BY <1>3, <1>4, <1>5 DEF StepsOK
<1>10. \A j \in chunks : Ahead(csi'[j], tj'[j]) \subseteq Ahead(csi[j], tj[j])
  BY <1>4, <1>5
<1>11. \A j \in chunks : c.min \notin Ahead(csi'[j], tj'[j])
  BY <1>4, <1>5 DEF StepsOK
<1>12. \A f \in files : f.from # c.min
  BY <1>5 DEF StepsOK
<1>13. \A f \in files' : /\ \E q \in Nat : f.from = q * StartStep /\ f.part = q + 1
                         /\ \A j \in chunks' : f.from \notin Ahead(csi'[j], tj'[j])
  <2> TAKE f \in files'
  <2>1. CASE f = r
    BY <2>1, <1>3, <1>6, <1>7, <1>11
  <2>2. CASE f \in files
    BY <2>2, <1>3, <1>10 DEF StepsOK
  <2> QED BY <2>1, <2>2, <1>3
<1>14. \A f, g \in files' : f.from = g.from => f.chunk = g.chunk
  BY <1>3, <1>7, <1>12 DEF StepsOK
<1> QED BY <1>8a, <1>9, <1>13, <1>14 DEF StepsOK

\* A split gives a chunk's keys from a step on away.
LEMMA SplitSteps ==
    ASSUME IndInv, StepsOK, NEW i \in chunks, SplitChunk(i)
    PROVE  StepsOK'
<1> DEFINE c == csi[i]
           n == nchunks + 1
           lo == LowerPart(c)
           hi == UpperPart(c)
           s == SplitPoint(c)
           first == IF tj[i] \in Dumped THEN c.cursor + 1 ELSE c.min
<1> SUFFICES ASSUME FixedLength PROVE StepsOK'
  BY DEF StepsOK
<1>1. /\ c \in Chunk /\ c.step = StartStep /\ StartStep \in U \ {0}
      /\ c.min \in U /\ c.max \in U /\ c.cursor \in U
      /\ tj[i] \notin {"resize", "resize_empty"}
  BY FixedFacts
<1>2. /\ tj[i] \in PC /\ ChunkOK(c, tj[i]) /\ Splittable(c) /\ AlignedOK(c, tj[i])
      /\ nchunks \in Nat \ {0} /\ i \in 1 .. nchunks /\ i # n
      /\ csi \in [chunks -> Chunk] /\ tj \in [chunks -> PC]
  <2>1. /\ nchunks \in Nat \ {0} /\ i \in 1 .. nchunks
        /\ csi \in [chunks -> Chunk] /\ tj \in [chunks -> PC]
    BY DEF IndInv, TypeOK, chunks
  <2>2. Splittable(c) /\ AlignedOK(c, tj[i])
    BY DEF SplitChunk, StepsOK
  <2>3. i # n
    BY <2>1
  <2> HIDE DEF c, n
  <2> QED BY <2>1, <2>2, <2>3, ChunkFacts DEF c
<1>3. s \in U /\ LowerBound(c) < s /\ s <= c.max
  <2> HIDE DEF c
  <2> QED BY <1>1, <1>2, SplitInside
<1>4. OnStep(s)
  <2> DEFINE q == (LowerBound(c) \div c.step)
                    + (((c.max \div c.step) - (LowerBound(c) \div c.step)) \div 2) + 1
  <2>1. s = c.step * q
    BY DEF SplitPoint
  <2>2. LowerBound(c) \in U
    BY <1>1 DEF LowerBound
  <2>3. /\ c.max \div c.step \in Nat /\ LowerBound(c) \div c.step \in Nat
        /\ LowerBound(c) \div c.step <= c.max \div c.step
    <3>1. \A x \in Nat, y \in Nat \ {0} : x \div y \in Nat
      OBVIOUS
    <3>2. \A x, z \in Nat, y \in Nat \ {0} : x <= z => x \div y <= z \div y
      OBVIOUS
    <3> HIDE DEF s, c
    <3>3. LowerBound(c) \in Nat /\ c.max \in Nat /\ c.step \in Nat \ {0} /\ LowerBound(c) <= c.max
      BY <1>1, <1>3, <2>2 DEF U
    <3> QED BY <3>1, <3>2, <3>3
  <2>4. q \in Nat
    <3> DEFINE a == LowerBound(c) \div c.step
               b == c.max \div c.step
    <3>1. a \in Nat /\ b \in Nat /\ a <= b /\ q = a + ((b - a) \div 2) + 1
      BY <2>3
    <3> HIDE DEF a, b, q
    <3> QED BY <3>1
  <2> HIDE DEF q, s, c
  <2>5. s = q * StartStep
    BY <1>1, <2>1, <2>4 DEF U
  <2> QED BY <2>4, <2>5 DEF OnStep
<1>5. /\ lo.min = c.min /\ lo.max = s - 1 /\ lo.cursor = c.cursor
      /\ hi.min = s /\ hi.max = c.max /\ hi.cursor = s
  BY <1>1 DEF LowerPart, UpperPart, Chunk
<1>6. first \in Nat /\ first <= s
  <2>1. CASE tj[i] \in {"write", "advance"}
    <3>1. c.status = "DUMPING_CHUNK" /\ LowerBound(c) = c.cursor /\ c.min <= c.cursor
      <4>1. c.status = "DUMPING_CHUNK" /\ c.min <= c.cursor
        BY <2>1, <1>2 DEF Splittable, ChunkOK, RangeOK, StatusOK, Dumped
      <4> QED BY <4>1 DEF LowerBound
    <3> HIDE DEF s, c
    <3> QED BY <3>1, <1>1, <1>3 DEF U
  <2>2. CASE tj[i] \notin {"write", "advance"}
    <3>1. c.status = "ASSIGNED" /\ tj[i] \notin Dumped
      BY <2>2, <1>1, <1>2 DEF Splittable, ChunkOK, SkippedOK, StatusOK, Dumped
    <3>2. LowerBound(c) = c.min /\ first = c.min
      BY <3>1 DEF LowerBound
    <3> HIDE DEF s, c
    <3> QED BY <3>2, <1>1, <1>3 DEF U
  <2> QED BY <2>1, <2>2
<1>7. AlignedOK(lo, tj[i])
  <2> HIDE DEF s, lo, c
  <2>1. lo.min <= lo.max => c.min <= c.max
    BY <1>1, <1>3, <1>5 DEF U
  <2>2. tj[i] \in {"write", "advance"} => c.cursor # c.max
    BY <1>2 DEF Splittable, is_last_step, ChunkOK, StatusOK, Dumped
  <2> QED BY <1>2, <1>5, <2>1, <2>2 DEF AlignedOK
<1>8. AlignedOK(hi, "step")
  <2> HIDE DEF hi, s
  <2> QED BY <1>4, <1>5 DEF AlignedOK
<1>9. /\ chunks' = chunks \cup {n} /\ n \notin chunks /\ files' = files
      /\ csi'[i] = lo /\ csi'[n] = hi /\ tj'[n] = "step"
      /\ \A j \in chunks : tj'[j] = tj[j] /\ (j # i => csi'[j] = csi[j])
  <2>1. /\ csi' = [j \in 1 .. n |-> CASE j = i -> lo [] j = n -> hi [] OTHER -> csi[j]]
        /\ tj' = [j \in 1 .. n |-> IF j = n THEN "step" ELSE tj[j]]
        /\ nchunks' = n /\ files' = files
    BY DEF SplitChunk
  <2>2. 1 .. n = (1 .. nchunks) \cup {n} /\ n \notin 1 .. nchunks
    BY <1>2
  <2> HIDE DEF lo, hi, c, n
  <2> QED BY <1>2, <2>1, <2>2 DEF chunks
<1>10. /\ Ahead(csi[i], tj[i]) = first .. c.max /\ Ahead(csi'[i], tj'[i]) = first .. (s - 1) /\ Ahead(csi'[n], tj'[n]) = s .. c.max
       /\ \A j \in chunks : j # i => Ahead(csi'[j], tj'[j]) = Ahead(csi[j], tj[j])
  <2> HIDE DEF lo, hi, s, n
  <2> QED BY <1>5, <1>9 DEF Ahead, Dumped
<1> HIDE DEF lo, hi, n
<1>11. /\ Ahead(csi'[i], tj'[i]) \subseteq Ahead(csi[i], tj[i]) /\ Ahead(csi'[n], tj'[n]) \subseteq Ahead(csi[i], tj[i])
       /\ Ahead(csi'[i], tj'[i]) \cap Ahead(csi'[n], tj'[n]) = {}
  <2>1. first \in Nat /\ first <= s /\ s \in Nat /\ c.max \in Nat /\ s <= c.max
    <3> HIDE DEF s, c
    <3> QED BY <1>1, <1>3, <1>6 DEF U
  <2> HIDE DEF s, c
  <2> QED BY <1>10, <2>1
<1> HIDE DEF s, c
<1>12. \A j \in chunks' : AlignedOK(csi'[j], tj'[j])
  BY <1>7, <1>8, <1>9 DEF StepsOK
<1>12a. \A j \in chunks' : AlignedOK(csi[j], tj[j])'
  BY <1>12 DEF AlignedOK, OnStep
<1>13. \A j \in chunks : j # i => Ahead(csi[j], tj[j]) \cap Ahead(csi[i], tj[i]) = {}
  BY DEF StepsOK
<1>14. \A j, k \in chunks' : j # k => Ahead(csi'[j], tj'[j]) \cap Ahead(csi'[k], tj'[k]) = {}
  <2> SUFFICES ASSUME NEW j \in chunks', NEW k \in chunks', j # k
               PROVE  Ahead(csi'[j], tj'[j]) \cap Ahead(csi'[k], tj'[k]) = {}
    OBVIOUS
  <2>1. CASE j \in {i, n} /\ k \in {i, n}
    BY <2>1, <1>11
  <2>2. CASE j \in {i, n} /\ k \notin {i, n}
    BY <2>2, <1>9, <1>10, <1>11, <1>13
  <2>3. CASE j \notin {i, n} /\ k \in {i, n}
    BY <2>3, <1>9, <1>10, <1>11, <1>13
  <2>4. CASE j \notin {i, n} /\ k \notin {i, n}
    BY <2>4, <1>9, <1>10 DEF StepsOK
  <2> QED BY <2>1, <2>2, <2>3, <2>4
<1>15. \A f \in files' : /\ \E q \in Nat : f.from = q * StartStep /\ f.part = q + 1
                         /\ \A j \in chunks' : f.from \notin Ahead(csi'[j], tj'[j])
  BY <1>9, <1>10, <1>11 DEF StepsOK
<1> QED BY <1>9, <1>12a, <1>14, <1>15 DEF StepsOK

\* The other steps leave the keys in front of every chunk, and its files, alone.
LEMMA OtherSteps ==
    ASSUME IndInv, StepsOK, NEW i \in chunks,
           \/ AssignChunk(i) \/ MarkUnsplittable(i) \/ SkipEmpty(i) \/ UpdateStep(i)
           \/ LoopTest(i) \/ CancelJob(i)
    PROVE  StepsOK'
<1> DEFINE c == csi[i]
<1> SUFFICES ASSUME FixedLength PROVE StepsOK'
  BY DEF StepsOK
<1>1. /\ c \in Chunk /\ tj[i] \in PC /\ AlignedOK(c, tj[i])
      /\ csi \in [chunks -> Chunk] /\ tj \in [chunks -> PC]
      /\ tj[i] \notin {"resize", "resize_empty"}
  BY ChunkFacts, FixedFacts DEF StepsOK, IndInv, TypeOK, chunks
<1>2. CASE AssignChunk(i)
  <2> DEFINE d == [c EXCEPT !.status = "ASSIGNED"]
  <2>1. tj[i] = "none"
    BY <1>2, ChunkFacts DEF AssignChunk, ChunkOK, StatusOK
  <2>2. d \in Chunk /\ d.min = c.min /\ d.max = c.max
    BY <1>1 DEF Chunk, Status
  <2>3. /\ csi' = [csi EXCEPT ![i] = d] /\ tj' = [tj EXCEPT ![i] = "step"]
        /\ nchunks' = nchunks /\ files' = files
    BY <1>2 DEF AssignChunk
  <2> HIDE DEF d
  <2>4. AlignedOK(d, "step") /\ Ahead(d, "step") = Ahead(c, tj[i]) /\ "step" \in PC
    BY <1>1, <2>1, <2>2 DEF AlignedOK, Ahead, Dumped, PC
  <2> QED BY <2>2, <2>3, <2>4, OneChunkSteps
<1>3. CASE MarkUnsplittable(i)
  <2> DEFINE d == [c EXCEPT !.status = "UNSPLITTABLE"]
  <2>2. d \in Chunk /\ d.min = c.min /\ d.max = c.max /\ d.cursor = c.cursor
    BY <1>1 DEF Chunk, Status
  <2>3. /\ csi' = [csi EXCEPT ![i] = d] /\ tj' = [tj EXCEPT ![i] = tj[i]]
        /\ nchunks' = nchunks /\ files' = files
    BY <1>1, <1>3 DEF MarkUnsplittable
  <2> HIDE DEF d
  <2>4. AlignedOK(d, tj[i]) /\ Ahead(d, tj[i]) = Ahead(c, tj[i])
    BY <1>1, <2>2 DEF AlignedOK, Ahead
  <2> QED BY <1>1, <2>2, <2>3, <2>4, OneChunkSteps
<1>4. CASE SkipEmpty(i) \/ UpdateStep(i)
  BY <1>1, <1>4 DEF SkipEmpty, UpdateStep
<1>5. CASE LoopTest(i)
  <2> DEFINE d == Returned(c)
             p == IF c.min <= c.max THEN "step" ELSE "done"
  <2>1. tj[i] = "test"
    BY <1>5 DEF LoopTest
  <2>2. d \in Chunk /\ d.min = c.min /\ d.max = c.max
    BY <1>1 DEF Chunk, Status, Returned
  <2>3. /\ csi' = [csi EXCEPT ![i] = d] /\ tj' = [tj EXCEPT ![i] = p]
        /\ nchunks' = nchunks /\ files' = files
    BY <1>5 DEF LoopTest
  <2>4. p \in {"step", "done"}
    OBVIOUS
  <2> HIDE DEF d, p
  <2>5. AlignedOK(d, p) /\ Ahead(d, p) = Ahead(c, tj[i]) /\ p \in PC
    BY <1>1, <2>1, <2>2, <2>4 DEF AlignedOK, Ahead, Dumped, PC
  <2> QED BY <2>2, <2>3, <2>5, OneChunkSteps
<1>6. CASE CancelJob(i)
  <2>1. /\ tj[i] = "step" /\ csi' = [csi EXCEPT ![i] = c]
        /\ tj' = [tj EXCEPT ![i] = "cancelled"]
        /\ nchunks' = nchunks /\ files' = files
    BY <1>1, <1>6 DEF CancelJob
  <2>2. AlignedOK(c, "cancelled") /\ Ahead(c, "cancelled") = Ahead(c, tj[i]) /\ "cancelled" \in PC
    BY <1>1, <2>1 DEF AlignedOK, Ahead, Dumped, PC
  <2> QED BY <1>1, <2>1, <2>2, OneChunkSteps
<1> QED BY <1>2, <1>3, <1>4, <1>5, <1>6

\* Nothing but a split touches part and deep of a chunk.
LEMMA SameNumbers ==
    ASSUME NEW c \in Chunk
    PROVE  /\ \A min, max : Prepared(c, min, max).part = c.part
                                  /\ Prepared(c, min, max).stride = c.stride
           /\ Skipped(c).part = c.part /\ Skipped(c).stride = c.stride
           /\ \A s, b : Resized(c, s, b).part = c.part
                                          /\ Resized(c, s, b).stride = c.stride
           /\ Trimmed(Advanced(c)).part = c.part /\ Trimmed(Advanced(c)).stride = c.stride
           /\ Returned(c).part = c.part /\ Returned(c).stride = c.stride
           /\ \A t : [c EXCEPT !.status = t].part = c.part
                                /\ [c EXCEPT !.status = t].stride = c.stride
  BY DEF Chunk, Prepared, Skipped, Resized, Trimmed, Advanced, Returned

\* So no step of a worker, nor of the builder but a split, moves the numbers.
LEMMA OtherNumbers ==
    ASSUME IndInv, NumbersOK, NEW i \in chunks, Worker(i) \/ AssignChunk(i) \/ MarkUnsplittable(i)
    PROVE  NumbersOK'
<1> DEFINE c == csi[i]
           Same(d) == d.part = c.part /\ d.stride = c.stride
<1>1. c \in Chunk /\ csi \in [chunks -> Chunk] /\ i \in chunks
  BY ChunkFacts DEF IndInv, TypeOK, chunks
<1>2. nchunks' = nchunks
  BY DEF Worker, BeginStep, SkipEmpty, WriteRows, UpdateStep, UpdateMin, LoopTest, CancelJob,
         AssignChunk, MarkUnsplittable
<1>3. \E d : Same(d) /\ csi' = [csi EXCEPT ![i] = d]
  <2>1. CASE BeginStep(i)
    <3>1. PICK max, min : csi' = [csi EXCEPT ![i] = Prepared(c, min, max)]
      BY <2>1 DEF BeginStep
    <3>2. Same(Prepared(c, min, max))
      BY <1>1, SameNumbers
    <3> HIDE DEF Same, c
    <3> QED BY <3>1, <3>2
  <2>2. CASE SkipEmpty(i)
    <3>1. csi' = [csi EXCEPT ![i] = Skipped(c)] /\ Same(Skipped(c))
      BY <2>2, <1>1, SameNumbers DEF SkipEmpty
    <3> HIDE DEF Same, c
    <3> QED BY <3>1
  <2>3. CASE UpdateStep(i)
    <3>1. PICK s, b : csi' = [csi EXCEPT ![i] = Resized(c, s, b)]
      BY <2>3 DEF UpdateStep
    <3>2. Same(Resized(c, s, b))
      BY <1>1, SameNumbers
    <3> HIDE DEF Same, c
    <3> QED BY <3>1, <3>2
  <2>4. CASE UpdateMin(i)
    <3>1. csi' = [csi EXCEPT ![i] = Trimmed(Advanced(c))] /\ Same(Trimmed(Advanced(c)))
      BY <2>4, <1>1, SameNumbers DEF UpdateMin
    <3> HIDE DEF Same, c
    <3> QED BY <3>1
  <2>5. CASE LoopTest(i)
    <3>1. csi' = [csi EXCEPT ![i] = Returned(c)] /\ Same(Returned(c))
      BY <2>5, <1>1, SameNumbers DEF LoopTest
    <3> HIDE DEF Same, c
    <3> QED BY <3>1
  <2>6. CASE CancelJob(i) \/ WriteRows(i)
    <3>1. csi' = [csi EXCEPT ![i] = c] /\ Same(c)
      BY <2>6, <1>1 DEF CancelJob, WriteRows
    <3> HIDE DEF Same, c
    <3> QED BY <3>1
  <2>7. CASE AssignChunk(i) \/ MarkUnsplittable(i)
    <3>1. PICK t : csi' = [csi EXCEPT ![i] = [c EXCEPT !.status = t]]
      BY <2>7 DEF AssignChunk, MarkUnsplittable
    <3>2. Same([c EXCEPT !.status = t])
      BY <1>1, SameNumbers
    <3> HIDE DEF Same, c
    <3> QED BY <3>1, <3>2
  <2> QED BY <2>1, <2>2, <2>3, <2>4, <2>5, <2>6, <2>7 DEF Worker
<1>4. \A j \in chunks : csi'[j].part = csi[j].part /\ csi'[j].stride = csi[j].stride
  <2>1. PICK d : Same(d) /\ csi' = [csi EXCEPT ![i] = d]
    BY <1>3
  <2> QED BY <1>1, <2>1
<1>5. ~FixedLength => \A f \in files' : f \in files \/ (f.chunk \in chunks /\ f.part = csi[f.chunk].part)
  <2>1. CASE WriteRows(i)
    <3>1. files' = files \cup {[part |-> FilePart(c), chunk |-> i, from |-> c.min]}
      BY <2>1 DEF WriteRows
    <3>2. ~FixedLength => FilePart(c) = c.part
      BY DEF FilePart
    <3> QED BY <3>1, <3>2, <1>1
  <2>2. CASE ~WriteRows(i)
    <3>1. files' = files
      BY <2>2 DEF Worker, BeginStep, SkipEmpty, UpdateStep, UpdateMin, LoopTest, CancelJob,
                  AssignChunk, MarkUnsplittable
    <3> QED BY <3>1
  <2> QED BY <2>1, <2>2
<1> QED BY <1>2, <1>4, <1>5, NumbersKept

\* Every step keeps numbers apart and steps with one owner.
LEMMA PartsNext ==
    ASSUME IndInv, NumbersOK, StepsOK, [Next]_vars
    PROVE  NumbersOK' /\ StepsOK'
<1>1. ASSUME NEW i \in chunks, SplitChunk(i) PROVE NumbersOK' /\ StepsOK'
  BY <1>1, NumbersSplit, SplitSteps
<1>2. ASSUME NEW i \in chunks, Worker(i) \/ AssignChunk(i) \/ MarkUnsplittable(i)
      PROVE  NumbersOK' /\ StepsOK'
  <2>1. NumbersOK'
    BY <1>2, OtherNumbers
  <2>2. StepsOK'
    BY <1>2, BeginStepSteps, UpdateMinSteps, WriteRowsSteps, OtherSteps DEF Worker
  <2> QED BY <2>1, <2>2
<1>3. CASE UNCHANGED <<nchunks, csi, tj, files>>
  <2>1. NumbersOK'
    BY <1>3, NumbersKept
  <2>2. FixedLength => \A j \in chunks : /\ AlignedOK(csi'[j], tj'[j])
                                         /\ Ahead(csi'[j], tj'[j]) \subseteq Ahead(csi[j], tj[j])
    BY <1>3 DEF StepsOK
  <2> QED BY <1>3, <2>1, <2>2, StepsKept
<1>4. ASSUME NEW i \in chunks, DropChunk(i) PROVE UNCHANGED <<nchunks, csi, tj, files>>
  BY <1>4 DEF DropChunk
<1>5. CASE Shutdown \/ GetNextCall \/ GetNextNull \/ UNCHANGED vars
  BY <1>5, <1>3 DEF Shutdown, GetNextCall, GetNextNull, vars
<1> QED BY <1>1, <1>2, <1>3, <1>4, <1>5 DEF Next, Builder

\* The first chunk may use every number, and begins on a step.
LEMMA PartsInit ==
    ASSUME Init
    PROVE  NumbersOK /\ StepsOK
<1> USE WidthAssumption, RowsAssumption, StepAssumption
<1>1. chunks = {1} /\ csi[1] = FirstChunk /\ tj[1] = "none" /\ files = {}
  BY DEF Init, chunks
<1>2. FirstChunk.stride = 1 /\ (FixedLength => FirstChunk.min = (FirstKey \div StartStep) * StartStep)
  BY DEF FirstChunk
<1>3. FirstKey \div StartStep \in Nat
  <2>1. FirstKey \in Nat /\ StartStep \in Nat \ {0}
    BY DEF U
  <2> QED BY <2>1
<1>4. FixedLength => AlignedOK(FirstChunk, "none")
  <2> HIDE DEF FirstChunk
  <2> QED BY <1>2, <1>3 DEF AlignedOK, OnStep
<1> HIDE DEF FirstChunk
<1>5. NumbersOK
  BY <1>1, <1>2 DEF NumbersOK
<1>6. StepsOK
  BY <1>1, <1>4 DEF StepsOK
<1> QED BY <1>5, <1>6

\* No two jobs write the same data file: a number belongs to one chunk, and with
\* fixed steps to one step of it, however the splits interleave with the writes;
\* with adapted steps as long as no chunk is split deeper than 53 times.
THEOREM DistinctFiles == Spec => []FilesDistinct
<1>1. IndInv /\ NumbersOK /\ StepsOK => FilesDistinct
  <2> SUFFICES ASSUME IndInv, NumbersOK, StepsOK, FixedLength \/ PartsExact,
                      NEW f \in files, NEW g \in files, f.part = g.part
               PROVE  f.chunk = g.chunk /\ (FixedLength => f.from = g.from)
    BY DEF FilesDistinct
  <2>1. CASE FixedLength
    <3>1. PICK q \in Nat : f.from = q * StartStep /\ f.part = q + 1
      BY <2>1 DEF StepsOK
    <3>2. PICK r \in Nat : g.from = r * StartStep /\ g.part = r + 1
      BY <2>1 DEF StepsOK
    <3>3. q = r
      <4>1. f.part = q + 1 /\ g.part = r + 1
        BY <3>1, <3>2, Zenon
      <4>2. q + 1 = r + 1
        BY <4>1, Zenon
      <4> QED BY <4>2
    <3>4. f.from = g.from
      BY <3>1, <3>2, <3>3
    <3> QED BY <2>1, <3>4 DEF StepsOK
  <2>2. CASE ~FixedLength
    <3>1. /\ f.chunk \in chunks /\ f.part = csi[f.chunk].part
          /\ g.chunk \in chunks /\ g.part = csi[g.chunk].part
      BY <2>2 DEF NumbersOK
    <3>2. f.part \in Numbers(csi[f.chunk]) /\ f.part \in Numbers(csi[g.chunk])
      BY <3>1, ChunkFacts, OwnNumber
    <3>3. f.chunk # g.chunk => Numbers(csi[f.chunk]) \cap Numbers(csi[g.chunk]) = {}
      BY <2>2, <3>1 DEF NumbersOK
    <3> QED BY <2>2, <3>2, <3>3
  <2> QED BY <2>1, <2>2
<1>2. Init => NumbersOK /\ StepsOK
  BY PartsInit
<1>3. IndInv /\ NumbersOK /\ StepsOK /\ [Next]_vars => NumbersOK' /\ StepsOK'
  BY PartsNext
<1> QED BY <1>1, <1>2, <1>3, Invariance, PTL DEF Spec

-----------------------------------------------------------------------------
(* The export by chunks implements TableExport *)

\* A SELECT's rows go into the file while the export is running or cancelled,
\* and the step itself does not end the export.
LEMMA WriteRowsRefines ==
    ASSUME IndInv, NEW i \in chunks, WriteRows(i)
    PROVE  Abstract!Next
<1> DEFINE c == csi[i]
<1>1. PICK S \in SUBSET Selected(c) :
        /\ written' = [k \in AllRows |-> IF k \in S THEN written[k] + 1 ELSE written[k]]
        /\ tj' = [tj EXCEPT ![i] =
                     IF FixedLength \/ csi[i].cursor = csi[i].max THEN "advance"
                     ELSE IF S = {} THEN "resize_empty" ELSE "resize"]
  BY DEF WriteRows
<1>2. S \in SUBSET AllRows
  BY DEF Selected, RowsBetween, AllRows
<1>3. tj[i] = "write" /\ tj'[i] # "done" /\ i \in chunks'
      /\ shutdown_triggered' = shutdown_triggered
  BY <1>1 DEF WriteRows, IndInv, TypeOK, chunks
<1>4. outcome' = outcome
  <2>1. i \in Running /\ i \in Running'
    BY <1>1, <1>3 DEF Running, IndInv, TypeOK, chunks
  <2> QED BY <1>3, <2>1 DEF outcome, Finished
<1>5. \A k \in S : written[k] = 0
  <2> SUFFICES ASSUME NEW k \in S PROVE written[k] = 0
    OBVIOUS
  <2>1. c \in Chunk /\ RangeOK(c, "write")
    BY <1>3, ChunkFacts DEF ChunkOK
  <2>2. CASE k \in RowsBetween(c.min, c.cursor)
    <3>1. k \in Rows /\ k \in Int /\ c.min \in Int /\ c.cursor \in Int /\ c.max \in Int
      BY <2>1, <2>2, RowsAssumption DEF RowsBetween, Chunk, U
    <3>2. c.cursor <= c.max /\ c.min <= k /\ k <= c.cursor
      BY <2>1, <2>2 DEF RangeOK, RowsBetween
    <3>3. k \in Pending(i)
      BY <1>3, <3>1, <3>2 DEF Pending, From, Dumped, RowsBetween
    <3> QED BY <3>3 DEF IndInv, PendingUnwritten
  <2>3. CASE k \notin RowsBetween(c.min, c.cursor)
    <3>1. k = NullKey /\ c.include_null
      BY <2>3 DEF Selected
    <3> QED BY <1>3, <3>1 DEF IndInv, NullOK, NullAsked
  <2> QED BY <2>2, <2>3
<1>6. \A k \in AllRows : (IF k \in S THEN written[k] + 1 ELSE written[k])
                            = (IF k \in S THEN 1 ELSE written[k])
  BY <1>5
<1>7. written' = [k \in AllRows |-> IF k \in S THEN 1 ELSE written[k]]
  BY <1>1, <1>6
<1> QED BY <1>2, <1>4, <1>5, <1>7 DEF Abstract!Next, Abstract!Export

\* Any other step writes nothing: it cancels, completes or changes neither.
LEMMA QuietRefines ==
    ASSUME IndInv', HandedOut', written' = written,
           shutdown_triggered' = shutdown_triggered, Finished => Finished'
    PROVE  Abstract!Next \/ UNCHANGED <<written, outcome>>
<1>1. CASE shutdown_triggered \/ (Finished <=> Finished')
  BY <1>1 DEF outcome
<1>2. CASE ~shutdown_triggered /\ ~Finished /\ Finished'
  <2>1. outcome = "running" /\ outcome' = "complete"
    BY <1>2 DEF outcome
  <2>2. \A k \in AllRows : written[k] = 1
    <3>1. (\A k \in AllRows : written[k] = 1)'
      <4>1. (IndInv /\ HandedOut /\ Finished /\ ~shutdown_triggered => \A k \in AllRows : written[k] = 1)'
        BY FinishedComplete, PTL
      <4> QED BY <1>2, <4>1
    <3> QED BY <3>1
  <2> QED BY <2>1, <2>2 DEF Abstract!Next, Abstract!Complete
<1> QED BY <1>1, <1>2

\* A finished export is left alone by every step but a shutdown.
LEMMA StepRefines ==
    ASSUME IndInv, IndInv', HandedOut', [Next]_vars
    PROVE  Abstract!Next \/ UNCHANGED <<written, outcome>>
<1>1. CASE Shutdown
  BY <1>1 DEF Shutdown, outcome, Abstract!Next, Abstract!Cancel
<1>2. CASE UNCHANGED vars
  <2>1. written' = written /\ shutdown_triggered' = shutdown_triggered /\ (Finished => Finished')
    BY <1>2 DEF vars, Finished, Running, chunks
  <2> QED BY <2>1, QuietRefines
<1>3. CASE Builder
  <2>1. written' = written /\ shutdown_triggered' = shutdown_triggered /\ builder # "removed"
    BY <1>3 DEF Builder, GetNextCall, GetNextNull, AssignChunk, DropChunk, MarkUnsplittable,
                SplitChunk, Popped
  <2> QED BY <2>1, QuietRefines DEF Finished
<1>4. ASSUME NEW i \in chunks, WriteRows(i)
      PROVE  Abstract!Next \/ UNCHANGED <<written, outcome>>
  BY <1>4, WriteRowsRefines
<1>5. ASSUME NEW i \in chunks, Worker(i), ~WriteRows(i)
      PROVE  Abstract!Next \/ UNCHANGED <<written, outcome>>
  <2>1. written' = written /\ shutdown_triggered' = shutdown_triggered /\ i \in Running
    BY <1>5 DEF Worker, BeginStep, SkipEmpty, UpdateStep, UpdateMin, LoopTest, CancelJob, Running
  <2> QED BY <2>1, QuietRefines DEF Finished
<1> QED BY <1>1, <1>2, <1>3, <1>4, <1>5 DEF Next

\* Every behaviour of the chunked export is one of the abstract export.
THEOREM Refinement == Spec => ImplementsTableExport
<1>1. Init => Abstract!Init
  BY DEF Init, Abstract!Init, outcome, Finished
<1>2. IndInv /\ IndInv' /\ HandedOut' /\ [Next]_vars => [Abstract!Next]_(Abstract!exportVars)
  BY StepRefines DEF Abstract!exportVars
<1> QED BY <1>1, <1>2, NoneForgotten, PTL DEF Spec, Abstract!Spec, ImplementsTableExport
=============================================================================
