------------------------------- MODULE Storage ------------------------------
(***************************************************************************)
(* The storage callbacks of vl_hal_t on the three platforms that provide   *)
(* them: two files on POSIX, one flash sector with one record on RP2040,   *)
(* two NVS entries on ESP32.  Each keeps two values, the high-water mark   *)
(* and the blob.                                                           *)
(*                                                                         *)
(* A store is several steps and power may fail at each; `after` is the set *)
(* of contents the medium may then be found with.  POSIX writes reach the  *)
(* disk when the kernel sees fit (nothing in the code calls fsync), so     *)
(* there `after` still holds the past when the store has returned.         *)
(***************************************************************************)
EXTENDS Naturals

CONSTANTS
  Boards,    \* the platforms considered
  Marks,     \* instants that are ever stored as the mark
  Trimmed,   \* those whose most significant byte is white space
  Texts,     \* blobs that are ever stored, the empty one apart
  Absent,    \* no file; no entry; the field of a sector without a record
  Empty,     \* a file of length 0; the empty text that clear() stores
  Part,      \* some of the bytes of what was being written
  None

VARIABLES
  board,     \* which platform this is
  media,     \* the medium, as a load sees it
  after,     \* what a power failure may leave on it
  pc,        \* where the running store is, or "idle"
  op,        \* its slot, and the contents it is to end with
  answer,    \* what the last callback answered
  least,     \* the least mark vl_verify() may store now
  acked,     \* history: per slot, the value of the last store, if it answered OK
  settled,   \* history: per slot, that value once it is on the medium
  torn,      \* history: the slots that an RP2040 store which was broken off
             \* left with something else, and that were not stored since
  floor,     \* history: the last mark that reached the medium
  forgot     \* history: the mark last loaded is less than what was stored

history == <<acked, settled, torn, floor, forgot>>
vars == <<board, media, after, pc, op, answer, least, history>>

ASSUME BoardsAssumption  == Boards \subseteq {"posix", "rp2040", "esp32"}
ASSUME MarksAssumption   == Marks \subseteq Nat \ {0}
ASSUME TrimmedAssumption == Trimmed \subseteq Marks
ASSUME ValuesAssumption  ==
  /\ Absent \notin Marks \cup Texts /\ Empty \notin Marks \cup Texts
  /\ Part \notin Marks \cup Texts   /\ None \notin Marks \cup Texts
  /\ Absent # Empty /\ Absent # Part /\ Absent # None
  /\ Empty # Part /\ Empty # None /\ Part # None
  /\ None \notin Nat

Slots    == {"mark", "blob"}
Values(w) == IF w = "mark" THEN Marks ELSE Texts \cup {Empty}
Contents == [mark : Marks \cup {Absent, Empty, Part},
             blob : Texts \cup {Absent, Empty, Part}]
Erased   == [mark |-> Absent, blob |-> Absent]
Nothing  == [w \in Slots |-> None]

Status == {"OK", "PLATFORM", "NOT_FOUND"}
Reply(call, status, value) == [call |-> call, status |-> status, value |-> value]
NoReply  == Reply("none", "OK", None)
MarkIs(v) == Reply("hwm_load", "OK", v)
BlobIs(v) == Reply("blob_load", "OK", v)
NoBlob    == Reply("blob_load", "NOT_FOUND", None)
Broken(w) == Reply(IF w = "mark" THEN "hwm_load" ELSE "blob_load", "PLATFORM", None)
Stored    == Reply("store", "OK", None)
NotStored == Reply("store", "PLATFORM", None)
Refused(r) == r.status # "OK"

TypeOK ==
  /\ board \in Boards
  /\ media \in Contents
  /\ after \subseteq Contents
  /\ pc \in {"idle", "opened", "erased", "set"}
  /\ IF pc = "idle" THEN op = None ELSE op \in [slot : Slots, rec : Contents]
  /\ answer \in [call : {"none", "hwm_load", "blob_load", "store"}, status : Status,
                 value : Nat \cup Texts \cup {Empty, Part, None}]
  /\ answer = BlobIs(Empty) => board = "esp32"
  /\ least \in Nat \cup {None}
  /\ acked \in [Slots -> Marks \cup Texts \cup {Empty, None}]
  /\ settled \in [Slots -> Marks \cup Texts \cup {Empty, None}]
  /\ torn \subseteq Slots
  /\ floor \in Marks \cup {0}
  /\ forgot \in BOOLEAN

Init ==
  /\ board \in Boards
  /\ media = Erased /\ after = {Erased}
  /\ pc = "idle" /\ op = None
  /\ answer = NoReply /\ least = None
  /\ acked = Nothing /\ settled = Nothing /\ torn = {}
  /\ floor = 0 /\ forgot = FALSE

-----------------------------------------------------------------------------
(* Loads.  A fault is the medium's: the open fails, or the read does, on   *)
(* POSIX at the first byte or later.                                       *)
Faults == CASE board = "posix"  -> {"none", "open", "start", "read"}
            [] board = "rp2040" -> {"none"}
            [] OTHER            -> {"none", "open", "read"}

(* Mutants: a short file is no mark; an empty file is an empty blob; a     *)
(* failed load counts as no mark.                                          *)
BugShortIsNoMark(c, fault) ==
  IF fault = "none" /\ c \in Marks \ Trimmed THEN MarkIs(c) ELSE MarkIs(0)
BugEmptyIsBlob(c, fault) ==
  IF fault = "open" \/ c = Absent THEN NoBlob ELSE BlobIs(c)
BugFailureIsNoMark(r) == IF Refused(r) THEN 1 ELSE r.value + 1

(* read_text_file() trims, so a mark of four bytes may come back shorter;  *)
(* a file that does not open is "never written", whatever the reason.      *)
PosixMark(c, fault) ==
  CASE fault = "open" \/ c = Absent            -> MarkIs(0)
    [] fault = "none" /\ c \in Marks \ Trimmed -> MarkIs(c)
    [] OTHER                                   -> Broken("mark")

PosixBlob(c, fault) ==
  CASE fault \in {"open", "start"} \/ c \in {Absent, Empty} -> NoBlob
    [] fault = "read"                                      -> BlobIs(Part)
    [] OTHER                                               -> BlobIs(c)

(* record_read(): a sector without a record is an empty record.            *)
SectorMark(c) == MarkIs(IF c \in Marks THEN c ELSE 0)
SectorBlob(c) == IF c \in {Absent, Empty} THEN NoBlob ELSE BlobIs(c)

NvsMark(c, fault) ==
  CASE fault = "open" -> MarkIs(0)
    [] fault = "read" -> Broken("mark")
    [] OTHER          -> MarkIs(IF c \in Marks THEN c ELSE 0)

NvsBlob(c, fault) ==
  CASE fault = "open" -> NoBlob
    [] fault = "read" -> Broken("blob")
    [] OTHER          -> IF c = Absent THEN NoBlob ELSE BlobIs(c)

MarkReply(m, fault) == CASE board = "posix"  -> PosixMark(m.mark, fault)
                         [] board = "rp2040" -> SectorMark(m.mark)
                         [] OTHER            -> NvsMark(m.mark, fault)
BlobReply(m, fault) == CASE board = "posix"  -> PosixBlob(m.blob, fault)
                         [] board = "rp2040" -> SectorBlob(m.blob)
                         [] OTHER            -> NvsBlob(m.blob, fault)

(* vl_verify() stores a mark only after a load that answered, and only a   *)
(* later one.  One call at a time is modelled here; two that overlap are   *)
(* in Verify.                                                              *)
Learnt(r) == IF Refused(r) THEN least ELSE r.value + 1

(* History only: the answer is less than what was stored.                  *)
Forgets(r) == r.value < floor \/ (acked.mark # None /\ r.value < acked.mark)

HwmLoad ==
  /\ pc = "idle"
  /\ \E fault \in Faults : answer' = MarkReply(media, fault)
  /\ least' = Learnt(answer')
  /\ forgot' = IF Refused(answer') THEN forgot ELSE Forgets(answer')
  /\ UNCHANGED <<board, media, after, pc, op, acked, settled, torn, floor>>

BlobLoad ==
  /\ pc = "idle"
  /\ \E fault \in Faults : answer' = BlobReply(media, fault)
  /\ UNCHANGED <<board, media, after, pc, op, least, history>>

-----------------------------------------------------------------------------
(* Stores.  A second call at the same instant may store the same mark.     *)
MayStore(w, v) ==
  /\ pc = "idle"
  /\ v \in Values(w)
  /\ w = "mark" => least # None /\ v >= least

NextLeast(w, v) == IF w = "mark" THEN v ELSE least

(* History of the stores.  What a slot held is no longer promised once a   *)
(* store to it is begun; the other slot's value still is.  The floor falls *)
(* in one case only: a mark is stored after a load that answered less.     *)
Superseded(w, v) ==
  /\ acked' = [acked EXCEPT ![w] = None]
  /\ settled' = [settled EXCEPT ![w] = None]
  /\ floor' = IF w = "mark" /\ forgot /\ v < floor THEN v ELSE floor
  /\ UNCHANGED <<torn, forgot>>

Raised(w, v) == IF w = "mark" /\ v > floor THEN v ELSE floor

(* The store of v answered OK, and v is on the medium.                     *)
Landed(w, v) ==
  /\ acked' = [acked EXCEPT ![w] = v]
  /\ settled' = [settled EXCEPT ![w] = v]
  /\ torn' = torn \ {w}
  /\ UNCHANGED forgot

Begin(w, v, where) ==
  /\ pc' = where
  /\ op' = [slot |-> w, rec |-> [media EXCEPT ![w] = v]]
  /\ least' = NextLeast(w, v)
  /\ Superseded(w, v)
  /\ UNCHANGED <<board, answer>>

End(r) ==
  /\ pc' = "idle" /\ op' = None /\ answer' = r
  /\ UNCHANGED <<board, least>>

(* Nothing was touched: the open failed, or nvs_set_*() did.               *)
StoreFails(w, v) ==
  /\ board # "rp2040"
  /\ MayStore(w, v)
  /\ answer' = NotStored
  /\ least' = NextLeast(w, v)
  /\ UNCHANGED <<board, media, after, pc, op, history>>

With(ms, w, cs) == {[m EXCEPT ![w] = c] : m \in ms, c \in cs}

(* What a write in progress may leave of a file that was just truncated.   *)
Written(v) == IF v = Empty THEN {Empty} ELSE {Empty, Part, v}

(* fopen(path, "wb") truncates.                                            *)
PosixOpen(w, v) ==
  /\ board = "posix"
  /\ MayStore(w, v)
  /\ Begin(w, v, "opened")
  /\ media' = [media EXCEPT ![w] = Empty]
  /\ after' = after \cup With(after, w, {Empty})

PosixWrite ==
  /\ pc = "opened"
  /\ LET w == op.slot
         v == op.rec[w]
     IN /\ media' = [media EXCEPT ![w] = v]
        /\ after' = after \cup With(after, w, Written(v))
        /\ acked' = [acked EXCEPT ![w] = v]
  /\ End(Stored)
  /\ UNCHANGED <<settled, torn, floor, forgot>>

(* A short write, or a close that reports what the write did not.          *)
PosixWriteFails ==
  /\ pc = "opened"
  /\ LET w == op.slot IN
       /\ \E c \in Written(op.rec[w]) : media' = [media EXCEPT ![w] = c]
       /\ after' = after \cup With(after, w, Written(op.rec[w]))
  /\ End(NotStored)
  /\ UNCHANGED history

(* The kernel writes a file back when it likes.                            *)
PosixFlush(w) ==
  /\ board = "posix"
  /\ after' = With(after, w, {media[w]})
  /\ settled' = [settled EXCEPT ![w] = acked[w]]
  /\ floor' = IF acked[w] # None THEN Raised(w, acked[w]) ELSE floor
  /\ UNCHANGED <<board, media, pc, op, answer, least, acked, torn, forgot>>

(* A sector interrupted on the way to or from `rec`: a program clears bits *)
(* and an erase sets them, so a number that is not finished is at least    *)
(* the one in `rec`; a damaged magic or length is no record at all.        *)
Damaged(rec) ==
  {Erased} \cup
  {m \in Contents : /\ m.mark \in Marks \cup {Absent}
                    /\ rec.mark \in Marks => m.mark \in Marks /\ m.mark >= rec.mark
                    /\ m.blob \in {rec.blob, Part}}

(* hwm_store() does not burn an erase cycle for the value that is there.   *)
SectorSame(v) ==
  /\ board = "rp2040"
  /\ MayStore("mark", v)
  /\ media.mark = v
  /\ answer' = Stored
  /\ least' = v
  /\ Landed("mark", v)
  /\ floor' = IF forgot THEN v ELSE Raised("mark", v)
  /\ UNCHANGED <<board, media, after, pc, op>>

(* Mutant: the record is built afresh, not read and changed.               *)
BugFreshRecord(w, v) ==
  /\ board = "rp2040"
  /\ MayStore(w, v)
  /\ ~(w = "mark" /\ media.mark = v)
  /\ pc' = "erased"
  /\ op' = [slot |-> w, rec |-> [Erased EXCEPT ![w] = v]]
  /\ least' = NextLeast(w, v)
  /\ Superseded(w, v)
  /\ media' = Erased
  /\ after' = {media, op'.rec} \cup Damaged(op'.rec)
  /\ UNCHANGED <<board, answer>>

(* record_write() with interrupts off: nothing but a power failure comes   *)
(* between the erase and the program.  The record was read first, and goes *)
(* back with one field changed; in the meantime it is nowhere but in RAM.  *)
SectorErase(w, v) ==
  /\ board = "rp2040"
  /\ MayStore(w, v)
  /\ ~(w = "mark" /\ media.mark = v)
  /\ Begin(w, v, "erased")
  /\ media' = Erased
  /\ after' = {media, op'.rec} \cup Damaged(media) \cup Damaged(op'.rec)

SectorProgram ==
  /\ pc = "erased"
  /\ media' = op.rec
  /\ after' = {op.rec}
  /\ LET w == op.slot
         v == op.rec[w]
     IN Landed(w, v) /\ floor' = Raised(w, v)
  /\ End(Stored)

(* The slots that do not hold what the broken-off store was to leave.      *)
Harmed == {w \in Slots : media'[w] # op.rec[w]}

(* What is read back differs from what was programmed.                     *)
SectorProgramFails ==
  /\ pc = "erased"
  /\ media' \in after \ {op.rec}
  /\ after' = {media'}
  /\ torn' = torn \cup Harmed
  /\ End(NotStored)
  /\ UNCHANGED <<acked, settled, floor, forgot>>

(* nvs_set_*() replaces one entry and leaves the other alone.              *)
NvsSet(w, v) ==
  /\ board = "esp32"
  /\ MayStore(w, v)
  /\ Begin(w, v, "set")
  /\ media' = [media EXCEPT ![w] = v]
  /\ after' = after \cup With(after, w, {v})

NvsCommit ==
  /\ pc = "set"
  /\ LET w == op.slot
         v == op.rec[w]
     IN /\ after' = With(after, w, {v})
        /\ Landed(w, v) /\ floor' = Raised(w, v)
  /\ End(Stored)
  /\ UNCHANGED media

NvsCommitFails ==
  /\ pc = "set"
  /\ End(NotStored)
  /\ UNCHANGED <<media, after, history>>

-----------------------------------------------------------------------------
(* What a process that starts knows.                                       *)
Restarts ==
  /\ pc' = "idle" /\ op' = None /\ answer' = NoReply
  /\ least' = None /\ forgot' = FALSE

(* The process is killed; the kernel still has what was written.           *)
ProcessDies ==
  /\ board = "posix"
  /\ Restarts
  /\ UNCHANGED <<board, media, after, acked, settled, torn, floor>>

PowerFails ==
  /\ media' \in after
  /\ after' = {media'}
  /\ Restarts
  /\ acked' = settled
  /\ torn' = IF pc = "erased" THEN torn \cup Harmed ELSE torn
  /\ UNCHANGED <<board, settled, floor>>

Next ==
  \/ HwmLoad \/ BlobLoad
  \/ \E w \in Slots : \E v \in Values(w) :
       \/ StoreFails(w, v)
       \/ PosixOpen(w, v)
       \/ SectorErase(w, v)
       \/ NvsSet(w, v)
  \/ PosixWrite \/ PosixWriteFails
  \/ \E w \in Slots : PosixFlush(w)
  \/ \E v \in Marks : SectorSame(v)
  \/ SectorProgram \/ SectorProgramFails
  \/ NvsCommit \/ NvsCommitFails
  \/ ProcessDies \/ PowerFails

Spec == Init /\ [][Next]_vars

-----------------------------------------------------------------------------
(* A store that answered OK is what a load without a fault answers, until  *)
(* the next store to the same slot: whatever is stored in the other slot,  *)
(* and through a power failure once the medium has it.  The code makes     *)
(* three exceptions: read_text_file() trims a mark, which is then refused; *)
(* an empty text may read as none; and an RP2040 store, to either slot,    *)
(* that is broken off between the erase and the program                    *)
(* (vl_hal_rp2040.c:62-63) may cost the other slot's value too.            *)
AckedIsRead ==
  pc = "idle" =>
    /\ acked.mark # None =>
         \/ MarkReply(media, "none") = MarkIs(acked.mark)
         \/ /\ board = "posix" /\ acked.mark \in Trimmed
            /\ MarkReply(media, "none") = Broken("mark")
         \/ board = "rp2040" /\ "mark" \in torn
    /\ acked.blob # None =>
         \/ BlobReply(media, "none") = BlobIs(acked.blob)
         \/ acked.blob = Empty /\ BlobReply(media, "none") = NoBlob
         \/ board = "rp2040" /\ "blob" \in torn

(* Whatever was interrupted, failed or trimmed, and whatever goes wrong in *)
(* the load itself: hwm_load() answers no less than the last mark that     *)
(* reached the medium, or an error, which vl_verify() returns.  The code   *)
(* fails open in two cases: a file or a namespace that does not open is    *)
(* taken for one that was never written (vl_hal_posix.c:347,               *)
(* vl_hal_esp32.c:143), and so is an RP2040 sector that a broken-off store *)
(* left torn.  Only after such an answer is a smaller mark ever stored;    *)
(* that one then is the last.                                              *)
MarkFailsClosed ==
  pc = "idle" =>
    \A fault \in Faults :
      LET r == MarkReply(media, fault) IN
        \/ Refused(r)
        \/ r.value >= floor
        \/ fault = "open"
        \/ board = "rp2040" /\ "mark" \in torn

(* docs/PORTING.md:177: "Return a real error from a callback rather than a *)
(* plausible value", for which vl_verify() "fails closed"                  *)
(* (vectilicense.h:121-122): an answer of hwm_load() is never less than    *)
(* the mark it was to read.                                                *)
NoPlausibleMark == ~forgot

(* The price of it: a mark file of the wrong length is never repaired.     *)
(* vl_verify() stores no mark without having loaded one, so once no call   *)
(* that has loaded one is left and the disk holds nothing readable, only a *)
(* load whose open fails gets the device out.                              *)
Unreadable == {Empty, Part} \cup Trimmed
Stranded ==
  /\ board = "posix" /\ least = None
  /\ \A m \in after \cup {media} : m.mark \in Unreadable
StrandedStays == [][Stranded => Stranded' \/ answer' = MarkIs(0)]_vars
=============================================================================
