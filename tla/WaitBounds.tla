------------------------------ MODULE WaitBounds ------------------------------
(***************************************************************************)
(* How a wait answer is made to fit one response frame: the pages of       *)
(* rpc/views.rs, the staged degradation of rpc/wait.rs and the shrinking   *)
(* of a failure record (scheduler/diagnostics.rs).                         *)
(*                                                                         *)
(* Every length is counted in bytes, and a text is a sequence of bytes     *)
(* whose third component is 1 exactly at the first byte of a character     *)
(* (module Tracker).  The body of one agent is a record                    *)
(*   page, total, next   the page of the final text, which begins at       *)
(*                       offset 0, the length of the whole text, and the   *)
(*                       offset of the next page or None                   *)
(*   failure             None, or a failure record: the bytes of its       *)
(*                       fields, and the bytes of its stderr tail          *)
(*   question            None, or the length of the embedded question      *)
(*   tail                the activity text                                 *)
(* and whatever else the caller keeps in it.                               *)
(***************************************************************************)
EXTENDS Tracker

CONSTANTS
  FrameCap,     \* MAX_RESPONSE_FRAME_BYTES
  ChunkCap,     \* MAX_RESULT_CHUNK_BYTES
  Escape,       \* bytes one byte of text may take in JSON
  SummaryCap,   \* MAX_QUESTION_SUMMARY_BYTES
  FieldFloor,   \* the fields of a failure record at their smallest budgets
  RecordCap     \* PERSISTABLE_RECORD_BYTES

ASSUME BoundsAssumption ==
  {FrameCap, ChunkCap, Escape, SummaryCap, FieldFloor, RecordCap} \subseteq Nat \ {0}

Boundary(text, end) == end = Len(text) \/ text[end + 1][3] = 1

\* the last character boundary that is not beyond end
FloorBoundary(text, end) ==
  CHOOSE b \in 0..end : Boundary(text, b) /\ \A c \in b + 1..end : ~Boundary(text, c)

\* truncate_at_char_boundary
Truncated(text, max) ==
  IF Len(text) <= max THEN text ELSE SubSeq(text, 1, FloorBoundary(text, max))

\* paged_text_bounds, from a valid offset: the page ends on a boundary, and
\* one that would not advance is refused
PagedTextBounds(text, offset, limit) ==
  LET reach == IF offset + limit < Len(text) THEN offset + limit ELSE Len(text)
      end == FloorBoundary(text, reach) IN
  IF end <= offset /\ offset < Len(text)
    THEN [ok |-> FALSE, end |-> offset, next |-> None]
    ELSE [ok |-> TRUE, end |-> end, next |-> IF end < Len(text) THEN end ELSE None]

\* the offset of the next page, from the total of the original text
NextOffset(body, end) == IF end < body.total THEN end ELSE None

Cut(body, end) == [body EXCEPT !.page = SubSeq(@, 1, end), !.next = NextOffset(body, end)]
-----------------------------------------------------------------------------
(* A failure record                                                        *)

RecordSize(record) == record.fields + record.tail

RECURSIVE FieldsWithin(_, _)
\* the budgets are halved until the record without a tail fits, or at the floor
FieldsWithin(fields, max) ==
  LET half == fields \div 2 IN
  IF fields <= max \/ fields <= FieldFloor THEN fields
  ELSE FieldsWithin(IF half < FieldFloor THEN FieldFloor ELSE half, max)

\* shrink_persistable_record: then the longest suffix of the tail that fits
ShrinkRecord(record, max) ==
  LET fields == FieldsWithin(record.fields, max)
      fitting == {t \in 0..record.tail : fields + t <= max}
      tail == IF fitting = {} THEN 0 ELSE CHOOSE t \in fitting : \A u \in fitting : u <= t IN
  [fields |-> fields, tail |-> tail, truncated |-> record.truncated \/ tail < record.tail]

\* persistable_failure_record: the fields are within their budgets
PersistableRecord(fields, tail, window) ==
  LET kept == IF tail <= window THEN tail ELSE window
      fitting == {t \in 0..kept : fields + t <= RecordCap}
      longest == CHOOSE t \in fitting : \A u \in fitting : u <= t IN
  [fields |-> fields, tail |-> longest, truncated |-> longest < tail]
-----------------------------------------------------------------------------
(* The frame                                                               *)

BodySize(body) ==
  1 + Len(body.page) + Len(body.tail)
    + (IF body.failure = None THEN 0 ELSE RecordSize(body.failure))
    + (IF body.question = None THEN 0 ELSE body.question)

RECURSIVE FrameSize(_)
FrameSize(bodies) ==
  IF bodies = <<>> THEN 0 ELSE BodySize(Head(bodies)) + FrameSize(Tail(bodies))

\* wait_envelope_fits
Fits(bodies, errors) == FrameSize(bodies) + errors <= FrameCap

\* What the rest of the envelope leaves for body i: body b fits in its place
\* when BodySize(b) is within it.
Room(bodies, i, errors) == FrameCap - errors - FrameSize(bodies) + BodySize(bodies[i])

RECURSIVE FitSearch(_, _, _, _)
\* a binary search for the largest number of good, as far as it is one
FitSearch(lo, hi, best, good) ==
  LET mid == lo + (hi - lo) \div 2 IN
  IF lo > hi THEN best
  ELSE IF mid \in good THEN IF mid = hi THEN mid ELSE FitSearch(mid + 1, hi, mid, good)
  ELSE IF mid = 0 THEN best ELSE FitSearch(lo, mid - 1, best, good)

\* fit_failure_message: the largest budget whose record fits, or the floor
FitFailureMessage(record, room) ==
  LET good == {max \in 0..RecordSize(record) : RecordSize(ShrinkRecord(record, max)) <= room} IN
  ShrinkRecord(record, FitSearch(0, RecordSize(record), 0, good))

RECURSIVE PageSearch(_, _, _, _)
PageSearch(ends, lo, hi, good) ==
  LET mid == lo + (hi - lo + 1) \div 2 IN
  IF lo >= hi THEN ends[lo]
  ELSE IF ends[mid] \in good THEN PageSearch(ends, mid, hi, good)
  ELSE PageSearch(ends, lo, mid - 1, good)

\* shrunk_result_page: the largest end inside the page that fits
ShrunkPage(body, room) ==
  LET ends == SetToSortSeq({e \in 1..Len(body.page) - 1 : Boundary(body.page, e)}, <)
      good == {e \in 1..Len(body.page) - 1 : BodySize(Cut(body, e)) <= room} IN
  IF ends = <<>> THEN body
  ELSE IF ends[1] \notin good THEN body
  ELSE Cut(body, PageSearch(ends, 1, Len(ends), good))

\* the stages that leave the page alone
ShrinkFailure(body, room) ==
  IF body.failure = None THEN body
  ELSE [body EXCEPT !.failure = FitFailureMessage(@, room - BodySize(body) + RecordSize(@))]

ShrinkQuestion(body) ==
  IF body.question = None \/ body.question <= SummaryCap THEN body
  ELSE [body EXCEPT !.question = SummaryCap, !.question_truncated = TRUE]

\* bound_wait_result, bound_wait_body
BoundWaitBody(body) ==
  LET first == ShrinkFailure(body, FrameCap)
      second == ShrinkQuestion(first)
      third == ShrunkPage(second, FrameCap) IN
  IF BodySize(body) <= FrameCap THEN [ok |-> TRUE, body |-> body]
  ELSE IF BodySize(first) <= FrameCap THEN [ok |-> TRUE, body |-> first]
  ELSE IF BodySize(second) <= FrameCap THEN [ok |-> TRUE, body |-> second]
  ELSE [ok |-> BodySize(third) <= FrameCap, body |-> third]

RECURSIVE Structured(_, _, _)
\* bound_wait_many_result, stages 1 and 2: one body after the other, each
\* measured in the whole frame
Structured(bodies, i, errors) ==
  LET room == Room(bodies, i, errors)
      first == ShrinkFailure(bodies[i], room)
      shrunk == IF BodySize(bodies[i]) <= room THEN bodies[i]
                ELSE IF BodySize(first) <= room THEN first ELSE ShrinkQuestion(first) IN
  IF i > Len(bodies) THEN bodies
  ELSE Structured([bodies EXCEPT ![i] = shrunk], i + 1, errors)

\* an equal share of the frame for every page
EqualShares(bodies) ==
  LET budget == (FrameCap \div Escape) \div (IF bodies = <<>> THEN 1 ELSE Len(bodies)) IN
  [i \in DOMAIN bodies |->
     IF Len(bodies[i].page) <= budget THEN bodies[i]
     ELSE Cut(bodies[i], FloorBoundary(bodies[i].page, budget))]

\* Faulty variant: the cursor of a halved page is the one it had before.
HalvedStale(body) ==
  [body EXCEPT !.page = SubSeq(@, 1, FloorBoundary(body.page, Len(body.page) \div 2))]

Halved(body) == Cut(body, FloorBoundary(body.page, Len(body.page) \div 2))

RECURSIVE HalveLongest(_, _)
\* ... and then the longest page is halved as long as that can help
HalveLongest(bodies, errors) ==
  LET longest == CHOOSE i \in DOMAIN bodies :
                   /\ \A j \in DOMAIN bodies : Len(bodies[j].page) <= Len(bodies[i].page)
                   /\ \A j \in 1..i - 1 : Len(bodies[j].page) < Len(bodies[i].page) IN
  IF Fits(bodies, errors) \/ bodies = <<>> THEN bodies
  ELSE IF Len(bodies[longest].page) <= 1 THEN bodies
  ELSE HalveLongest([bodies EXCEPT ![longest] = Halved(@)], errors)

\* bound_wait_many_result
BoundWaitMany(bodies, errors) ==
  LET structured == Structured(bodies, 1, errors)
      shares == EqualShares(structured)
      final == CASE Fits(bodies, errors) -> bodies
                 [] ~Fits(bodies, errors) /\ Fits(structured, errors) -> structured
                 [] OTHER -> HalveLongest(shares, errors) IN
  [ok |-> Fits(final, errors), bodies |-> final]

\* dedup_terminal_tail
DedupTerminalTail(tail, final) ==
  CASE tail = <<>> \/ final = <<>> -> tail
    [] tail # <<>> /\ final # <<>> /\ IsSuffix(final, tail) -> SubSeq(tail, 1, Len(tail) - Len(final))
    [] tail # <<>> /\ final # <<>> /\ ~IsSuffix(final, tail) /\ IsSuffix(tail, final) -> <<>>
    [] OTHER -> tail
=============================================================================
