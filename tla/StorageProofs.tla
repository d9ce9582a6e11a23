---------------------------- MODULE StorageProofs ---------------------------
(***************************************************************************)
(* Proofs about the storage callbacks, for all sets of marks and texts.    *)
(***************************************************************************)
EXTENDS Storage, TLAPS

(* Who may be in the middle of a store, and of what.                       *)
OpInv ==
  /\ pc = "opened" => board = "posix"
  /\ pc = "erased" => board = "rp2040"
  /\ pc = "set" => board = "esp32"
  /\ pc # "idle" => /\ op.rec[op.slot] \in Values(op.slot)
                    /\ op.slot = "mark" => least = op.rec.mark /\ op.rec.mark >= floor
                    /\ board = "rp2040" => op.rec \in after
                    /\ pc = "set" => media[op.slot] = op.rec[op.slot]
                    /\ acked[op.slot] = None /\ settled[op.slot] = None

(* What the medium may hold: only POSIX files have a mark cut short, a     *)
(* sector nobody is writing is certain, and no other medium is torn.       *)
MediumInv ==
  /\ media \in after
  /\ board = "rp2040" /\ pc = "idle" => after = {media}
  /\ board # "posix" => \A m \in after : m.mark \in Marks \cup {Absent}
  /\ board # "rp2040" => torn = {}

(* A settled value is one that was acknowledged, and outside RP2040 it is  *)
(* in every state power may leave.                                         *)
SettledInv ==
  \A w \in Slots : settled[w] # None =>
    /\ settled[w] = acked[w]
    /\ board # "rp2040" => \A m \in after : m[w] = settled[w]

(* What is there, or is about to be programmed again.                      *)
Present == IF pc = "erased" THEN op.rec ELSE media

AckedInv ==
  \A w \in Slots : acked[w] # None =>
    /\ acked[w] \in Values(w)
    /\ w \in torn \/ Present[w] = acked[w]

(* No mark that may be found is below the floor, unless the sector is      *)
(* torn, and none will be stored, unless a load forgot.                    *)
LeastInv ==
  least # None /\ ~forgot => /\ least >= floor
                             /\ acked.mark # None => least >= acked.mark

AtFloor(m, f) == /\ m.mark \in Marks => m.mark >= f
                 /\ m.mark = Absent => f = 0

FloorInv ==
  /\ "mark" \in torn \/ AtFloor(Present, floor)
  /\ board # "rp2040" => \A m \in after : AtFloor(m, floor)

StorageInv ==
  TypeOK /\ OpInv /\ MediumInv /\ SettledInv /\ AckedInv /\ LeastInv /\ FloorInv

-----------------------------------------------------------------------------
(* Replacing one slot leaves the other as it was.                          *)
LEMMA SlotReplaced ==
  ASSUME NEW m \in Contents, NEW w \in Slots, NEW c
  PROVE  /\ [m EXCEPT ![w] = c][w] = c
         /\ \A u \in Slots : u # w => [m EXCEPT ![w] = c][u] = m[u]
  BY DEF Contents, Slots

LEMMA SlotReplacedType ==
  ASSUME NEW m \in Contents, NEW w \in Slots, NEW c \in Values(w) \cup {Absent, Empty, Part}
  PROVE  [m EXCEPT ![w] = c] \in Contents
<1>1. CASE w = "mark"
  BY <1>1 DEF Contents, Slots, Values
<1>2. CASE w = "blob"
  BY <1>2 DEF Contents, Slots, Values
<1> QED
  BY <1>1, <1>2 DEF Slots

(* The states a replaced slot adds to those power may leave.               *)
LEMMA WithReplaced ==
  ASSUME NEW ms \in SUBSET Contents, NEW w \in Slots,
         NEW cs \in SUBSET (Values(w) \cup {Absent, Empty, Part}),
         NEW n \in With(ms, w, cs)
  PROVE  /\ n \in Contents
         /\ n[w] \in cs
         /\ \E m \in ms : \A u \in Slots : u # w => n[u] = m[u]
<1>1. PICK m \in ms, c \in cs : n = [m EXCEPT ![w] = c]
  BY DEF With
<1>2. m \in Contents /\ c \in Values(w) \cup {Absent, Empty, Part}
  OBVIOUS
<1>3. /\ [m EXCEPT ![w] = c] \in Contents
      /\ [m EXCEPT ![w] = c][w] \in cs
      /\ \A u \in Slots : u # w => [m EXCEPT ![w] = c][u] = m[u]
  BY <1>2, SlotReplaced, SlotReplacedType
<1> QED
  BY <1>1, <1>3

(* Field and slot are two names of one thing.                              *)
LEMMA Fields ==
  ASSUME NEW m \in Contents
  PROVE  /\ m.mark = m["mark"] /\ m.blob = m["blob"]
         /\ m.mark \in Marks \cup {Absent, Empty, Part}
         /\ m.blob \in Texts \cup {Absent, Empty, Part}
  BY DEF Contents

(* What a load can answer.                                                 *)
LEMMA MarkReplies ==
  ASSUME NEW m \in Contents, NEW fault \in Faults
  PROVE  \/ MarkReply(m, fault) = Broken("mark")
         \/ \E v \in Marks \cup {0} : MarkReply(m, fault) = MarkIs(v)
  BY Fields DEF MarkReply, PosixMark, SectorMark, NvsMark

LEMMA BlobReplies ==
  ASSUME NEW m \in Contents, NEW fault \in Faults
  PROVE  \/ BlobReply(m, fault) = Broken("blob")
         \/ BlobReply(m, fault) = NoBlob
         \/ \E v \in Texts \cup {Part, Empty} :
              BlobReply(m, fault) = BlobIs(v) /\ (v = Empty => board \notin {"posix", "rp2040"})
  BY Fields, ValuesAssumption DEF BlobReply, PosixBlob, SectorBlob, NvsBlob

(* A lower floor is passed by whatever passes a higher one.                *)
LEMMA FloorLowered ==
  ASSUME NEW m \in Contents, NEW f \in Nat, NEW g \in Nat, g <= f, AtFloor(m, f)
  PROVE  AtFloor(m, g)
<1>1. \A k \in Marks : k \in Nat
  BY MarksAssumption
<1> QED
  BY <1>1 DEF AtFloor

(* The types the arithmetic needs.                                         *)
LEMMA Numbers ==
  ASSUME StorageInv
  PROVE  /\ floor \in Nat
         /\ least # None => least \in Nat
         /\ acked.mark # None => acked.mark \in Marks /\ acked.mark \in Nat
         /\ \A v \in Values("mark") : v \in Nat /\ v \in Marks
         /\ board \in {"posix", "rp2040", "esp32"}
<1>1. floor \in Nat /\ (least # None => least \in Nat)
  <2>1. floor \in Marks \cup {0} /\ least \in Nat \cup {None}
    BY DEF StorageInv, TypeOK
  <2> QED
    BY <2>1, MarksAssumption
<1>2. acked.mark # None => acked.mark \in Marks
  BY DEF StorageInv, AckedInv, Slots, Values
<1>3. \A v \in Values("mark") : v \in Nat /\ v \in Marks
  BY MarksAssumption DEF Values
<1>4. board \in {"posix", "rp2040", "esp32"}
  BY BoardsAssumption DEF StorageInv, TypeOK
<1> QED
  BY <1>1, <1>2, <1>3, <1>4, MarksAssumption

-----------------------------------------------------------------------------
LEMMA StorageInit == Init => StorageInv
<1> SUFFICES ASSUME Init PROVE StorageInv
  OBVIOUS
<1> USE DEF Init, Erased, Nothing, NoReply, Reply
<1>1. TypeOK
  <2>1. Erased \in Contents
    BY DEF Contents
  <2>2. /\ answer \in [call : {"none", "hwm_load", "blob_load", "store"}, status : Status,
                      value : Nat \cup Texts \cup {Empty, Part, None}]
        /\ answer # BlobIs(Empty)
    BY DEF Status, BlobIs
  <2>3. Nothing \in [Slots -> Marks \cup Texts \cup {Empty, None}]
    OBVIOUS
  <2> QED
    BY <2>1, <2>2, <2>3 DEF TypeOK
<1>2. OpInv
  BY DEF OpInv
<1>3. MediumInv /\ SettledInv /\ AckedInv
  BY DEF MediumInv, SettledInv, AckedInv, Slots
<1>4. LeastInv /\ FloorInv
  BY MarksAssumption DEF FloorInv, LeastInv, AtFloor, Present
<1> QED
  BY <1>1, <1>2, <1>3, <1>4 DEF StorageInv

LEMMA HwmLoadKeeps == StorageInv /\ HwmLoad => StorageInv'
<1> SUFFICES ASSUME StorageInv, HwmLoad PROVE StorageInv'
  OBVIOUS
<1>1. PICK fault \in Faults : answer' = MarkReply(media, fault)
  BY DEF HwmLoad
<1>2. media \in Contents
  BY DEF StorageInv, TypeOK
<1>3. \/ answer' = Broken("mark")
      \/ \E v \in Marks \cup {0} : answer' = MarkIs(v)
  BY <1>1, <1>2, MarkReplies
<1>4. /\ pc = "idle"
      /\ UNCHANGED <<board, media, after, pc, op, acked, settled, torn, floor>>
      /\ least' = Learnt(answer')
      /\ forgot' = IF Refused(answer') THEN forgot ELSE Forgets(answer')
  BY DEF HwmLoad
<1>5. CASE answer' = Broken("mark")
  <2>1. least' = least /\ forgot' = forgot
    BY <1>4, <1>5 DEF Learnt, Refused, Broken, Reply
  <2>2. TypeOK'
    BY <1>4, <1>5, <2>1 DEF StorageInv, TypeOK, Broken, BlobIs, Reply, Status
  <2>3. OpInv' /\ MediumInv' /\ SettledInv' /\ AckedInv' /\ LeastInv' /\ FloorInv'
    BY <1>4, <2>1 DEF StorageInv, OpInv, MediumInv, SettledInv, AckedInv, LeastInv, FloorInv, Present
  <2> QED
    BY <2>2, <2>3 DEF StorageInv
<1>6. ASSUME NEW v \in Marks \cup {0}, answer' = MarkIs(v)
      PROVE  StorageInv'
  <2>1. v \in Nat /\ least' = v + 1 /\ forgot' = Forgets(answer') /\ answer'.value = v
    BY <1>4, <1>6, MarksAssumption DEF Learnt, Refused, MarkIs, Reply
  <2>2. forgot' \in BOOLEAN
    BY <2>1 DEF Forgets
  <2>3. TypeOK'
    BY <1>4, <1>6, <2>1, <2>2 DEF StorageInv, TypeOK, MarkIs, BlobIs, Reply, Status
  <2>4. OpInv' /\ MediumInv' /\ SettledInv' /\ AckedInv' /\ FloorInv'
    BY <1>4 DEF StorageInv, OpInv, MediumInv, SettledInv, AckedInv, FloorInv, Present
  <2>5. LeastInv'
    <3> SUFFICES ASSUME ~forgot'
                 PROVE  v + 1 >= floor /\ (acked.mark # None => v + 1 >= acked.mark)
      BY <1>4, <2>1 DEF LeastInv
    <3>1. ~(v < floor) /\ (acked.mark # None => ~(v < acked.mark))
      BY <2>1 DEF Forgets
    <3> QED
      BY <2>1, <3>1, Numbers
  <2> QED
    BY <2>3, <2>4, <2>5 DEF StorageInv
<1> QED
  BY <1>3, <1>5, <1>6

LEMMA BlobLoadKeeps == StorageInv /\ BlobLoad => StorageInv'
<1> SUFFICES ASSUME StorageInv, BlobLoad PROVE StorageInv'
  OBVIOUS
<1> USE DEF StorageInv, BlobLoad, history
<1>1. PICK fault \in Faults : answer' = BlobReply(media, fault)
  OBVIOUS
<1>2. media \in Contents
  BY DEF TypeOK
<1>3. TypeOK'
  BY <1>1, <1>2, BlobReplies, BoardsAssumption, ValuesAssumption
  DEF TypeOK, Broken, BlobIs, NoBlob, Reply, Status
<1>4. OpInv' /\ MediumInv' /\ SettledInv' /\ AckedInv' /\ LeastInv' /\ FloorInv'
  BY DEF OpInv, MediumInv, SettledInv, AckedInv, LeastInv, FloorInv, Present
<1> QED
  BY <1>3, <1>4

LEMMA StoreFailsKeeps ==
  ASSUME NEW w \in Slots, NEW v \in Values(w), StorageInv, StoreFails(w, v)
  PROVE  StorageInv'
<1> USE DEF StoreFails, MayStore, NextLeast, history
<1>1. TypeOK'
  BY MarksAssumption DEF StorageInv, TypeOK, NotStored, BlobIs, Reply, Status, Values
<1>2. OpInv' /\ MediumInv' /\ SettledInv' /\ AckedInv' /\ FloorInv'
  BY DEF StorageInv, OpInv, MediumInv, SettledInv, AckedInv, FloorInv, Present
<1>3. LeastInv'
  <2>1. CASE w = "mark"
    <3>1. least' = v /\ least # None /\ v >= least /\ v \in Nat
      BY <2>1, Numbers
    <3>2. LeastInv
      BY DEF StorageInv
    <3> QED
      BY <3>1, <3>2, Numbers DEF LeastInv
  <2>2. CASE w # "mark"
    BY <2>2 DEF StorageInv, LeastInv
  <2> QED
    BY <2>1, <2>2
<1> QED
  BY <1>1, <1>2, <1>3 DEF StorageInv

(* A store that got as far as touching the medium: what it sets out to do, *)
(* and what is no longer promised.                                         *)
LEMMA Begun ==
  ASSUME NEW w \in Slots, NEW v \in Values(w), NEW where \in {"opened", "erased", "set"},
         StorageInv, MayStore(w, v), Begin(w, v, where)
  PROVE  /\ op' \in [slot : Slots, rec : Contents]
         /\ op'.slot = w /\ op'.rec = [media EXCEPT ![w] = v] /\ op'.rec[w] = v
         /\ w = "mark" => op'.rec.mark = v /\ least' = v /\ v \in Nat /\ v >= floor'
         /\ least' \in Nat \cup {None}
         /\ floor' \in Marks \cup {0} /\ floor' \in Nat /\ floor' <= floor
         /\ acked' \in [Slots -> Marks \cup Texts \cup {Empty, None}] /\ acked'[w] = None
         /\ settled' \in [Slots -> Marks \cup Texts \cup {Empty, None}] /\ settled'[w] = None
         /\ \A u \in Slots : u # w => acked'[u] = acked[u] /\ settled'[u] = settled[u]
         /\ pc = "idle" /\ pc' = where /\ UNCHANGED <<board, answer, torn, forgot>>
         /\ LeastInv'
<1>1. media \in Contents
  BY DEF StorageInv, TypeOK
<1>2. [media EXCEPT ![w] = v] \in Contents
  BY <1>1, SlotReplacedType
<1>3. [media EXCEPT ![w] = v][w] = v
  BY <1>1, SlotReplaced
<1>4. op' = [slot |-> w, rec |-> [media EXCEPT ![w] = v]]
  BY DEF Begin
<1>5. op' \in [slot : Slots, rec : Contents] /\ op'.slot = w
  BY <1>2, <1>4
<1>6. op'.rec = [media EXCEPT ![w] = v] /\ op'.rec[w] = v /\ op'.rec \in Contents
  BY <1>2, <1>3, <1>4
<1>7. /\ acked' = [acked EXCEPT ![w] = None] /\ settled' = [settled EXCEPT ![w] = None]
      /\ floor' = (IF w = "mark" /\ forgot /\ v < floor THEN v ELSE floor)
      /\ least' = NextLeast(w, v)
      /\ pc = "idle" /\ pc' = where /\ UNCHANGED <<board, answer, torn, forgot>>
  BY DEF Begin, Superseded, MayStore
<1>8. /\ acked' \in [Slots -> Marks \cup Texts \cup {Empty, None}] /\ acked'[w] = None
      /\ settled' \in [Slots -> Marks \cup Texts \cup {Empty, None}] /\ settled'[w] = None
      /\ \A u \in Slots : u # w => acked'[u] = acked[u] /\ settled'[u] = settled[u]
  BY <1>7 DEF StorageInv, TypeOK
<1>9. /\ floor' \in Marks \cup {0} /\ floor' \in Nat /\ floor' <= floor
  BY <1>7, Numbers DEF StorageInv, TypeOK
<1>10. ASSUME w = "mark"
       PROVE  op'.rec.mark = v /\ least' = v /\ v \in Nat /\ v >= floor'
  <2>1. op'.rec.mark = v /\ least' = v
    BY <1>6, <1>7, <1>10, Fields DEF NextLeast
  <2>2. v \in Nat /\ least # None /\ v >= least
    BY <1>10, Numbers DEF MayStore
  <2>3. forgot \in BOOLEAN /\ LeastInv
    BY DEF StorageInv, TypeOK
  <2>4. ASSUME forgot PROVE v >= floor'
    <3>1. floor' = (IF v < floor THEN v ELSE floor)
      BY <1>7, <1>10, <2>4
    <3>2. floor \in Nat /\ v \in Nat
      BY <2>2, Numbers
    <3> QED
      BY <3>1, <3>2
  <2>5. ASSUME ~forgot PROVE v >= floor'
    <3>1. floor' = floor /\ least >= floor
      BY <1>7, <2>2, <2>3, <2>5 DEF LeastInv
    <3>2. floor \in Nat /\ least \in Nat
      BY <2>2, Numbers
    <3> QED
      BY <2>2, <3>1, <3>2
  <2> QED
    BY <2>1, <2>2, <2>3, <2>4, <2>5
<1>11. least' \in Nat \cup {None}
  BY <1>7, <1>10 DEF NextLeast, StorageInv, TypeOK
<1>12. LeastInv'
  <2>1. CASE w = "mark"
    <3>1. acked'.mark = None
      BY <1>8, <2>1
    <3> QED
      BY <1>10, <2>1, <3>1 DEF LeastInv
  <2>2. CASE w # "mark"
    <3>1. acked'.mark = acked.mark /\ least' = least /\ forgot' = forgot
      BY <1>7, <1>8, <2>2 DEF Slots, NextLeast
    <3>2. LeastInv
      BY DEF StorageInv
    <3> QED
      BY <1>9, <3>1, <3>2, Numbers DEF LeastInv
  <2> QED
    BY <2>1, <2>2
<1> QED
  BY <1>5, <1>6, <1>7, <1>8, <1>9, <1>10, <1>11, <1>12

(* Outside RP2040, one slot of the medium is written and the old contents  *)
(* may come back.                                                          *)
SlotWritten(w, cs, x) ==
  /\ media' = [media EXCEPT ![w] = x]
  /\ after' = after \cup With(after, w, cs)
  /\ UNCHANGED <<board, torn>>

(* What may be written: whole values, but to a file, and no mark below f.  *)
Writable(w, cs, f) ==
  /\ cs \subseteq Values(w) \cup {Empty, Part}
  /\ board # "posix" => cs \subseteq Values(w)
  /\ f \in Nat /\ f <= floor
  /\ w = "mark" => \A u \in cs \cap Marks : u >= f

LEMMA OneSlotWritten ==
  ASSUME StorageInv, board # "rp2040", NEW w \in Slots, NEW cs, NEW x \in cs, NEW f,
         SlotWritten(w, cs, x), Writable(w, cs, f)
  PROVE  /\ media' \in Contents /\ after' \subseteq Contents
         /\ media'[w] = x /\ \A u \in Slots : u # w => media'[u] = media[u]
         /\ \A n \in after' : \A u \in Slots : u # w => \E m \in after : n[u] = m[u]
         /\ MediumInv'
         /\ \A m \in after' : AtFloor(m, f)
<1>1. media \in Contents /\ after \subseteq Contents /\ media \in after
  BY DEF StorageInv, TypeOK, MediumInv
<1>w. /\ cs \subseteq Values(w) \cup {Empty, Part}
      /\ board # "posix" => cs \subseteq Values(w)
      /\ f \in Nat /\ f <= floor
      /\ w = "mark" => \A u \in cs \cap Marks : u >= f
  BY DEF Writable
<1>2. ASSUME NEW n \in With(after, w, cs)
      PROVE  /\ n \in Contents /\ n[w] \in cs
             /\ \E m \in after : \A u \in Slots : u # w => n[u] = m[u]
  <2>1. after \in SUBSET Contents /\ cs \in SUBSET (Values(w) \cup {Absent, Empty, Part})
    BY <1>1, <1>w
  <2>2. n \in Contents
    BY <2>1, WithReplaced
  <2>3. n[w] \in cs
    BY <2>1, WithReplaced
  <2>4. \E m \in after : \A u \in Slots : u # w => n[u] = m[u]
    BY <2>1, WithReplaced
  <2> QED
    BY <2>2, <2>3, <2>4
<1>3. media' \in With(after, w, cs)
  <2>1. [media EXCEPT ![w] = x] \in With(after, w, cs)
    BY <1>1 DEF With
  <2> QED
    BY <2>1 DEF SlotWritten
<1>4. media'[w] = x /\ \A u \in Slots : u # w => media'[u] = media[u]
  BY <1>1, SlotReplaced DEF SlotWritten
<1>5. after' = after \cup With(after, w, cs) /\ board' = board /\ torn' = torn
  BY DEF SlotWritten
<1>6. ASSUME NEW m \in after
      PROVE  AtFloor(m, f) /\ (board # "posix" => m.mark \in Marks \cup {Absent})
  <2>1. m \in Contents /\ AtFloor(m, floor)
    BY <1>1 DEF StorageInv, FloorInv
  <2>2. AtFloor(m, f)
    BY <1>w, <2>1, FloorLowered, Numbers
  <2> QED
    BY <2>2 DEF StorageInv, MediumInv
<1>7. ASSUME NEW m \in after'
      PROVE  AtFloor(m, f) /\ (board # "posix" => m.mark \in Marks \cup {Absent})
  <2>1. CASE m \in after
    BY <1>6, <2>1
  <2>2. CASE m \in With(after, w, cs)
    <3>1. m \in Contents
      BY <1>2, <2>2
    <3>2. CASE w = "mark"
      <4>1. m.mark \in cs
        BY <1>2, <2>2, <3>1, <3>2, Fields
      <4> QED
        BY <1>w, <4>1, <3>2, ValuesAssumption DEF Values, AtFloor
    <3>3. CASE w = "blob"
      <4>1. PICK n \in after : m["mark"] = n["mark"]
        BY <1>2, <2>2, <3>3 DEF Slots
      <4>2. m.mark = n.mark
        BY <4>1, <1>1, <3>1, Fields
      <4> QED
        BY <1>6, <4>2 DEF AtFloor
    <3> QED
      BY <3>2, <3>3 DEF Slots
  <2> QED
    BY <1>5, <2>1, <2>2
<1>8. MediumInv'
  BY <1>3, <1>5, <1>7 DEF StorageInv, MediumInv
<1>9. media' \in Contents /\ after' \subseteq Contents
  BY <1>1, <1>2, <1>3, <1>5
<1>10. \A n \in after' : \A u \in Slots : u # w => \E m \in after : n[u] = m[u]
  BY <1>2, <1>5
<1> QED
  BY <1>4, <1>7, <1>8, <1>9, <1>10

(* A store begun on the file or the entry.                                 *)
LEMMA BegunKeeps ==
  ASSUME NEW w \in Slots, NEW v \in Values(w), NEW where \in {"opened", "set"},
         StorageInv, MayStore(w, v), Begin(w, v, where),
         board = IF where = "opened" THEN "posix" ELSE "esp32",
         NEW x \in {Empty, v}, SlotWritten(w, {x}, x),
         where = "set" => x = v
  PROVE  StorageInv'
<1>1. /\ op' \in [slot : Slots, rec : Contents]
      /\ op'.slot = w /\ op'.rec[w] = v
      /\ w = "mark" => op'.rec.mark = v /\ least' = v /\ v \in Nat /\ v >= floor'
      /\ least' \in Nat \cup {None}
      /\ floor' \in Marks \cup {0} /\ floor' \in Nat /\ floor' <= floor
  BY Begun
<1>2. /\ acked' \in [Slots -> Marks \cup Texts \cup {Empty, None}] /\ acked'[w] = None
      /\ settled' \in [Slots -> Marks \cup Texts \cup {Empty, None}] /\ settled'[w] = None
      /\ \A u \in Slots : u # w => acked'[u] = acked[u] /\ settled'[u] = settled[u]
      /\ pc = "idle" /\ pc' = where /\ UNCHANGED <<board, answer, torn, forgot>>
      /\ LeastInv'
  BY Begun
<1>3. board # "rp2040" /\ where # "erased" /\ where # "idle"
  OBVIOUS
<1>4. /\ media' \in Contents /\ after' \subseteq Contents
      /\ media'[w] = x /\ \A u \in Slots : u # w => media'[u] = media[u]
      /\ \A n \in after' : \A u \in Slots : u # w => \E m \in after : n[u] = m[u]
      /\ MediumInv'
      /\ \A m \in after' : AtFloor(m, floor')
  <2>1. {x} \subseteq Values(w) \cup {Empty, Part} /\ x \in {x}
    OBVIOUS
  <2>2. board # "posix" => {x} \subseteq Values(w)
    OBVIOUS
  <2>3. w = "mark" => \A u \in {x} \cap Marks : u >= floor'
    BY <1>1, ValuesAssumption
  <2>4. Writable(w, {x}, floor')
    BY <1>1, <2>1, <2>2, <2>3 DEF Writable
  <2> QED
    BY <1>3, <2>1, <2>4, OneSlotWritten, Zenon
<1>5. TypeOK'
  BY <1>1, <1>2, <1>4 DEF StorageInv, TypeOK
<1>6. OpInv'
  BY <1>1, <1>2, <1>3, <1>4 DEF OpInv
<1>7. SettledInv'
  <2> SUFFICES ASSUME NEW u \in Slots, settled'[u] # None
               PROVE  settled'[u] = acked'[u] /\ \A n \in after' : n[u] = settled'[u]
    BY DEF SettledInv
  <2>1. u # w /\ settled'[u] = settled[u] /\ acked'[u] = acked[u]
    BY <1>2
  <2>2. settled[u] = acked[u] /\ \A m \in after : m[u] = settled[u]
    BY <1>3, <2>1 DEF StorageInv, SettledInv
  <2> QED
    BY <1>4, <2>1, <2>2
<1>8. AckedInv'
  BY <1>2, <1>3, <1>4 DEF StorageInv, AckedInv, Present
<1>9. FloorInv'
  BY <1>2, <1>3, <1>4 DEF FloorInv, Present, MediumInv
<1> QED
  BY <1>2, <1>4, <1>5, <1>6, <1>7, <1>8, <1>9 DEF StorageInv

LEMMA PosixOpenKeeps ==
  ASSUME NEW w \in Slots, NEW v \in Values(w), StorageInv, PosixOpen(w, v)
  PROVE  StorageInv'
<1>1. SlotWritten(w, {Empty}, Empty)
  BY DEF PosixOpen, Begin, Superseded, SlotWritten
<1> QED
  BY <1>1, BegunKeeps DEF PosixOpen

LEMMA NvsSetKeeps ==
  ASSUME NEW w \in Slots, NEW v \in Values(w), StorageInv, NvsSet(w, v)
  PROVE  StorageInv'
<1>1. SlotWritten(w, {v}, v)
  BY DEF NvsSet, Begin, Superseded, SlotWritten
<1> QED
  BY <1>1, BegunKeeps DEF NvsSet

(* The store under way, and that its slot has no histories.                *)
LEMMA UnderWay ==
  ASSUME StorageInv, pc # "idle"
  PROVE  /\ op.slot \in Slots /\ op.rec \in Contents
         /\ op.rec[op.slot] \in Values(op.slot)
         /\ acked[op.slot] = None /\ settled[op.slot] = None
         /\ board = "rp2040" => op.rec \in after
         /\ op.slot = "mark" =>
              /\ op.rec[op.slot] = op.rec.mark /\ op.rec.mark \in Marks
              /\ least = op.rec.mark /\ op.rec.mark >= floor
<1>1. op.slot \in Slots /\ op.rec \in Contents
  BY DEF StorageInv, TypeOK
<1>2. OpInv
  BY DEF StorageInv
<1>3. ASSUME op.slot = "mark"
      PROVE  /\ op.rec[op.slot] = op.rec.mark /\ op.rec.mark \in Marks
             /\ least = op.rec.mark /\ op.rec.mark >= floor
  <2>1. op.rec[op.slot] = op.rec.mark
    BY <1>1, <1>3, Fields
  <2> QED
    BY <1>2, <1>3, <2>1 DEF OpInv, Values
<1> QED
  BY <1>1, <1>2, <1>3 DEF OpInv

(* Writing what the store set out to write, or as much as was possible.    *)
LEMMA WrittenSlot ==
  ASSUME StorageInv, pc = "opened", NEW x \in Written(op.rec[op.slot]),
         media' = [media EXCEPT ![op.slot] = x],
         after' = after \cup With(after, op.slot, Written(op.rec[op.slot])),
         UNCHANGED <<board, settled, torn, floor, forgot>>,
         \A u \in Slots : u # op.slot => acked'[u] = acked[u],
         pc' = "idle", least' = least
  PROVE  /\ media' \in Contents /\ after' \subseteq Contents
         /\ media'[op.slot] = x
         /\ \A u \in Slots : u # op.slot => media'[u] = media[u]
         /\ MediumInv' /\ SettledInv' /\ FloorInv'
<1> DEFINE w == op.slot
           v == op.rec[w]
<1>1. board = "posix"
  BY DEF StorageInv, OpInv
<1>2. /\ w \in Slots /\ v \in Values(w)
      /\ settled[w] = None
      /\ w = "mark" => v \in Marks /\ v >= floor
  BY UnderWay
<1>3. SlotWritten(w, Written(v), x)
  BY DEF SlotWritten
<1>4. Written(v) \in SUBSET (Values(w) \cup {Empty, Part}) /\ x \in Written(v)
  BY <1>2 DEF Written
<1>5. w = "mark" => \A u \in Written(v) \cap Marks : u >= floor
  BY <1>2, ValuesAssumption DEF Written
<1> HIDE DEF w, v
<1>6. /\ media' \in Contents /\ after' \subseteq Contents
      /\ media'[w] = x
      /\ \A u \in Slots : u # w => media'[u] = media[u]
      /\ \A n \in after' : \A u \in Slots : u # w => \E m \in after : n[u] = m[u]
      /\ MediumInv'
      /\ \A m \in after' : AtFloor(m, floor)
  <2>1. floor \in Nat /\ floor <= floor
    BY Numbers
  <2>2. Writable(w, Written(v), floor)
    BY <1>1, <1>4, <1>5, <2>1 DEF Writable
  <2>3. board # "rp2040"
    BY <1>1
  <2> QED
    BY <1>2, <1>3, <1>4, <2>2, <2>3, OneSlotWritten, Zenon
<1>7. SettledInv'
  <2> SUFFICES ASSUME NEW u \in Slots, settled'[u] # None
               PROVE  settled'[u] = acked'[u] /\ \A n \in after' : n[u] = settled'[u]
    BY DEF SettledInv
  <2>1. u # w /\ settled'[u] = settled[u] /\ acked'[u] = acked[u]
    BY <1>2 DEF w
  <2>2. settled[u] = acked[u] /\ \A m \in after : m[u] = settled[u]
    BY <1>1, <2>1 DEF StorageInv, SettledInv
  <2> QED
    BY <1>6, <2>1, <2>2
<1>8. FloorInv'
  BY <1>6 DEF FloorInv, Present, MediumInv
<1> QED
  BY <1>6, <1>7, <1>8 DEF w

LEMMA PosixWriteKeeps == StorageInv /\ PosixWrite => StorageInv'
<1> SUFFICES ASSUME StorageInv, PosixWrite PROVE StorageInv'
  OBVIOUS
<1>1. /\ op.slot \in Slots /\ op.rec[op.slot] \in Values(op.slot)
      /\ op.slot = "mark" => op.rec[op.slot] \in Marks /\ least = op.rec[op.slot]
                             /\ op.rec[op.slot] >= floor
  BY UnderWay DEF PosixWrite
<1>2. /\ media' = [media EXCEPT ![op.slot] = op.rec[op.slot]]
      /\ after' = after \cup With(after, op.slot, Written(op.rec[op.slot]))
      /\ acked' = [acked EXCEPT ![op.slot] = op.rec[op.slot]]
      /\ UNCHANGED <<board, settled, torn, floor, forgot, least>>
      /\ pc = "opened" /\ pc' = "idle" /\ op' = None /\ answer' = Stored
  BY DEF PosixWrite, End
<1>3. op.rec[op.slot] \in Written(op.rec[op.slot])
  BY DEF Written
<1>4. /\ acked' \in [Slots -> Marks \cup Texts \cup {Empty, None}]
      /\ acked'[op.slot] = op.rec[op.slot]
      /\ \A u \in Slots : u # op.slot => acked'[u] = acked[u]
  <2>1. op.rec[op.slot] \in Marks \cup Texts \cup {Empty, None}
    BY <1>1 DEF Values
  <2>2. acked \in [Slots -> Marks \cup Texts \cup {Empty, None}]
    BY DEF StorageInv, TypeOK
  <2> QED
    BY <1>1, <1>2, <2>1, <2>2
<1>5. /\ media' \in Contents /\ after' \subseteq Contents
      /\ media'[op.slot] = op.rec[op.slot]
      /\ \A u \in Slots : u # op.slot => media'[u] = media[u]
      /\ MediumInv' /\ SettledInv' /\ FloorInv'
  BY <1>2, <1>3, <1>4, WrittenSlot
<1>6. TypeOK'
  BY <1>2, <1>4, <1>5 DEF StorageInv, TypeOK, Stored, BlobIs, Reply, Status
<1>7. OpInv'
  BY <1>2 DEF OpInv
<1>8. AckedInv'
  BY <1>1, <1>2, <1>4, <1>5 DEF AckedInv, StorageInv, Present
<1>9. LeastInv'
  <2>1. CASE op.slot = "mark"
    <3>1. acked'.mark = op.rec[op.slot]
      BY <1>4, <2>1
    <3>2. least \in Nat /\ least # None /\ least' = acked'.mark /\ least' >= floor'
      BY <1>1, <1>2, <2>1, <3>1, MarksAssumption, ValuesAssumption
    <3> QED
      BY <1>2, <3>2 DEF LeastInv
  <2>2. CASE op.slot = "blob"
    BY <1>2, <1>4, <2>2 DEF StorageInv, LeastInv, Slots
  <2> QED
    BY <1>1, <2>1, <2>2 DEF Slots
<1> QED
  BY <1>5, <1>6, <1>7, <1>8, <1>9 DEF StorageInv

LEMMA PosixWriteFailsKeeps == StorageInv /\ PosixWriteFails => StorageInv'
<1> SUFFICES ASSUME StorageInv, PosixWriteFails PROVE StorageInv'
  OBVIOUS
<1>1. op.slot \in Slots /\ acked[op.slot] = None
  BY UnderWay DEF PosixWriteFails
<1>2. PICK x \in Written(op.rec[op.slot]) : media' = [media EXCEPT ![op.slot] = x]
  BY DEF PosixWriteFails
<1>3. /\ after' = after \cup With(after, op.slot, Written(op.rec[op.slot]))
      /\ UNCHANGED <<board, acked, settled, torn, floor, forgot, least>>
      /\ pc = "opened" /\ pc' = "idle" /\ op' = None /\ answer' = NotStored
  BY DEF PosixWriteFails, End, history
<1>4. /\ media' \in Contents /\ after' \subseteq Contents
      /\ \A u \in Slots : u # op.slot => media'[u] = media[u]
      /\ MediumInv' /\ SettledInv' /\ FloorInv'
  BY <1>2, <1>3, WrittenSlot
<1>5. TypeOK'
  BY <1>3, <1>4 DEF StorageInv, TypeOK, NotStored, BlobIs, Reply, Status
<1>6. OpInv' /\ LeastInv'
  BY <1>3 DEF StorageInv, OpInv, LeastInv
<1>7. AckedInv'
  BY <1>1, <1>3, <1>4 DEF AckedInv, StorageInv, Present
<1> QED
  BY <1>4, <1>5, <1>6, <1>7 DEF StorageInv

(* Writing back makes every state power may leave agree with the medium on *)
(* one slot.                                                               *)
LEMMA SlotSettles ==
  ASSUME StorageInv, NEW w \in Slots, after' = With(after, w, {media[w]})
  PROVE  /\ after' \subseteq Contents /\ media \in after'
         /\ \A n \in after' : n[w] = media[w]
         /\ \A n \in after' : \E m \in after : \A u \in Slots : u # w => n[u] = m[u]
<1>1. media \in Contents /\ media \in after /\ after \subseteq Contents
  BY DEF StorageInv, TypeOK, MediumInv
<1>2. media[w] \in Values(w) \cup {Absent, Empty, Part}
  BY <1>1 DEF Contents, Slots, Values
<1>3. /\ after \in SUBSET Contents
      /\ {media[w]} \in SUBSET (Values(w) \cup {Absent, Empty, Part})
  BY <1>1, <1>2
<1>4. ASSUME NEW n \in With(after, w, {media[w]})
      PROVE  /\ n \in Contents /\ n[w] = media[w]
             /\ \E m \in after : \A u \in Slots : u # w => n[u] = m[u]
  <2>1. n \in Contents
    BY <1>3, WithReplaced
  <2>2. n[w] \in {media[w]}
    BY <1>3, WithReplaced
  <2>3. \E m \in after : \A u \in Slots : u # w => n[u] = m[u]
    BY <1>3, WithReplaced
  <2> QED
    BY <2>1, <2>2, <2>3
<1>5. media \in With(after, w, {media[w]})
  <2>1. media = [media EXCEPT ![w] = media[w]]
    BY <1>1 DEF Contents
  <2>2. [media EXCEPT ![w] = media[w]] \in With(after, w, {media[w]})
    BY <1>1 DEF With
  <2> QED
    BY <2>1, <2>2
<1> QED
  BY <1>4, <1>5

(* No file of the mark can then be below what the medium has.              *)
LEMMA SettlesFloor ==
  ASSUME StorageInv, NEW w \in Slots, board # "rp2040",
         after' = With(after, w, {media[w]}), UNCHANGED <<board, media, torn>>,
         NEW f,
         \/ f = floor
         \/ w = "mark" /\ media.mark \in Marks
            /\ f = (IF media.mark > floor THEN media.mark ELSE floor)
  PROVE  MediumInv' /\ \A n \in after' : AtFloor(n, f)
<1>1. /\ after' \subseteq Contents /\ media \in after'
      /\ \A n \in after' : n[w] = media[w]
      /\ \A n \in after' : \E m \in after : \A u \in Slots : u # w => n[u] = m[u]
  BY SlotSettles
<1>2. /\ media \in Contents /\ media \in after /\ after \subseteq Contents
      /\ \A m \in after : AtFloor(m, floor)
  BY DEF StorageInv, TypeOK, MediumInv, FloorInv
<1>3. ASSUME NEW n \in after'
      PROVE  \E m \in after : n.mark = m.mark /\ (w = "mark" => m = media)
  <2>1. CASE w = "mark"
    <3>1. n.mark = media.mark
      BY <1>1, <1>2, <2>1, Fields
    <3> QED
      BY <1>2, <3>1
  <2>2. CASE w # "mark"
    <3>1. PICK m \in after : n["mark"] = m["mark"]
      BY <1>1, <2>2 DEF Slots
    <3>2. m \in Contents /\ n \in Contents
      BY <1>1, <1>2
    <3> QED
      BY <2>2, <3>1, <3>2, Fields
  <2> QED
    BY <2>1, <2>2
<1>4. ASSUME NEW n \in after' PROVE AtFloor(n, f)
  <2>1. PICK m \in after : n.mark = m.mark /\ (w = "mark" => m = media)
    BY <1>3
  <2>2. AtFloor(m, floor)
    BY <1>2
  <2>3. CASE f = floor
    BY <2>1, <2>2, <2>3 DEF AtFloor
  <2>4. CASE w = "mark" /\ media.mark \in Marks /\ f = (IF media.mark > floor THEN media.mark ELSE floor)
    <3>1. n.mark = media.mark /\ media.mark \in Nat /\ media.mark # Absent
      BY <2>1, <2>4, MarksAssumption, ValuesAssumption
    <3>2. media.mark >= floor
      BY <2>1, <2>2, <2>4 DEF AtFloor
    <3> QED
      BY <2>4, <3>1, <3>2, Numbers DEF AtFloor
  <2> QED
    BY <2>3, <2>4
<1>5. MediumInv'
  BY <1>1, <1>3 DEF StorageInv, MediumInv
<1> QED
  BY <1>4, <1>5

LEMMA SettlesHistory ==
  ASSUME StorageInv, NEW w \in Slots, board # "rp2040",
         after' = With(after, w, {media[w]}), UNCHANGED <<board, media>>,
         settled'[w] = acked'[w], acked'[w] # None => media[w] = acked'[w],
         \A u \in Slots : u # w => settled'[u] = settled[u] /\ acked'[u] = acked[u]
  PROVE  SettledInv'
<1>1. /\ \A n \in after' : n[w] = media[w]
      /\ \A n \in after' : \E m \in after : \A u \in Slots : u # w => n[u] = m[u]
  BY SlotSettles
<1> SUFFICES ASSUME NEW u \in Slots, settled'[u] # None
             PROVE  settled'[u] = acked'[u] /\ \A n \in after' : n[u] = settled'[u]
  BY DEF SettledInv
<1>2. CASE u = w
  BY <1>1, <1>2
<1>3. CASE u # w
  <2>1. settled[u] = acked[u] /\ \A m \in after : m[u] = settled[u]
    BY <1>3 DEF StorageInv, SettledInv
  <2> QED
    BY <1>1, <1>3, <2>1
<1> QED
  BY <1>2, <1>3

LEMMA PosixFlushKeeps ==
  ASSUME NEW w \in Slots, StorageInv, PosixFlush(w)
  PROVE  StorageInv'
<1>1. /\ board = "posix" /\ pc \notin {"erased", "set"}
      /\ after' = With(after, w, {media[w]})
      /\ settled' = [settled EXCEPT ![w] = acked[w]]
      /\ floor' = (IF acked[w] # None THEN Raised(w, acked[w]) ELSE floor)
      /\ UNCHANGED <<board, media, pc, op, answer, least, acked, torn, forgot>>
  BY DEF PosixFlush, StorageInv, OpInv
<1>2. acked[w] # None => acked[w] \in Values(w) /\ media[w] = acked[w]
  BY <1>1 DEF StorageInv, AckedInv, MediumInv, Present
<1>3. /\ settled' \in [Slots -> Marks \cup Texts \cup {Empty, None}]
      /\ settled'[w] = acked[w] /\ \A u \in Slots : u # w => settled'[u] = settled[u]
  <2>1. /\ settled \in [Slots -> Marks \cup Texts \cup {Empty, None}]
        /\ acked \in [Slots -> Marks \cup Texts \cup {Empty, None}]
    BY DEF StorageInv, TypeOK
  <2> QED
    BY <1>1, <2>1
<1>4. media \in Contents /\ media.mark = media["mark"]
  BY DEF StorageInv, TypeOK
<1>5. \/ floor' = floor
      \/ /\ w = "mark" /\ media.mark \in Marks /\ media.mark = acked.mark
         /\ floor' = (IF media.mark > floor THEN media.mark ELSE floor)
  BY <1>1, <1>2, <1>4 DEF Raised, Values
<1>6. MediumInv' /\ \A n \in after' : AtFloor(n, floor')
  BY <1>1, <1>5, SettlesFloor
<1>7. SettledInv'
  BY <1>1, <1>2, <1>3, SettlesHistory
<1>8. TypeOK'
  <2>1. floor' \in Marks \cup {0}
    BY <1>5 DEF StorageInv, TypeOK
  <2>2. after' \subseteq Contents
    BY <1>1, SlotSettles
  <2> QED
    BY <1>1, <1>3, <2>1, <2>2 DEF StorageInv, TypeOK
<1>9. OpInv'
  <2>1. pc # "idle" => acked[op.slot] = None /\ settled[op.slot] = None /\ op.slot \in Slots
    BY UnderWay
  <2>2. pc # "idle" => settled'[op.slot] = None
    BY <1>3, <2>1
  <2>3. pc # "idle" /\ op.slot = "mark" => floor' = floor
    BY <1>1, <2>1 DEF Raised
  <2> QED
    BY <1>1, <2>2, <2>3 DEF StorageInv, OpInv
<1>10. AckedInv'
  BY <1>1 DEF StorageInv, AckedInv, Present
<1>11. LeastInv'
  <2>1. LeastInv
    BY DEF StorageInv
  <2>2. CASE floor' = floor
    BY <1>1, <2>1, <2>2 DEF LeastInv
  <2>3. CASE media.mark = acked.mark /\ media.mark \in Marks
             /\ floor' = (IF media.mark > floor THEN media.mark ELSE floor)
    <3>1. acked.mark # None
      BY <2>3, ValuesAssumption
    <3> QED
      BY <1>1, <2>1, <2>3, <3>1, Numbers DEF LeastInv
  <2> QED
    BY <1>5, <2>2, <2>3
<1>12. FloorInv'
  BY <1>1, <1>6 DEF FloorInv, Present, MediumInv
<1> QED
  BY <1>6, <1>7, <1>8, <1>9, <1>10, <1>11, <1>12 DEF StorageInv

LEMMA NvsCommitFailsKeeps == StorageInv /\ NvsCommitFails => StorageInv'
<1> SUFFICES ASSUME StorageInv, NvsCommitFails PROVE StorageInv'
  OBVIOUS
<1>1. /\ UNCHANGED <<board, media, after, least, acked, settled, torn, floor, forgot>>
      /\ pc = "set" /\ pc' = "idle" /\ op' = None /\ answer' = NotStored
  BY DEF NvsCommitFails, End, history
<1>2. TypeOK'
  BY <1>1 DEF StorageInv, TypeOK, NotStored, BlobIs, Reply, Status
<1>3. OpInv' /\ MediumInv' /\ SettledInv'
  BY <1>1 DEF StorageInv, OpInv, MediumInv, SettledInv
<1>4. AckedInv' /\ FloorInv' /\ LeastInv'
  BY <1>1 DEF StorageInv, AckedInv, FloorInv, LeastInv, Present
<1> QED
  BY <1>2, <1>3, <1>4 DEF StorageInv

(* The history of a store that answered OK.                                *)
LEMMA LandedIs ==
  ASSUME NEW w \in Slots, NEW v \in Values(w), StorageInv, Landed(w, v)
  PROVE  /\ acked' \in [Slots -> Marks \cup Texts \cup {Empty, None}]
         /\ acked'[w] = v /\ \A u \in Slots : u # w => acked'[u] = acked[u]
         /\ settled' \in [Slots -> Marks \cup Texts \cup {Empty, None}]
         /\ settled'[w] = v /\ \A u \in Slots : u # w => settled'[u] = settled[u]
         /\ torn' = torn \ {w} /\ torn' \subseteq Slots /\ forgot' = forgot
         /\ w = "mark" => v \in Marks /\ v \in Nat /\ acked'.mark = v
<1>1. v \in Marks \cup Texts \cup {Empty, None}
  BY DEF Values
<1>2. /\ settled \in [Slots -> Marks \cup Texts \cup {Empty, None}]
      /\ acked \in [Slots -> Marks \cup Texts \cup {Empty, None}]
      /\ torn \subseteq Slots
  BY DEF StorageInv, TypeOK
<1>3. w = "mark" => v \in Marks /\ v \in Nat
  BY Numbers
<1>4. /\ acked' = [acked EXCEPT ![w] = v] /\ settled' = [settled EXCEPT ![w] = v]
      /\ torn' = torn \ {w} /\ forgot' = forgot
  BY DEF Landed
<1>5. acked'[w] = v /\ settled'[w] = v
  BY <1>2, <1>4
<1> QED
  BY <1>1, <1>2, <1>3, <1>4, <1>5

(* A store whose mark is at the floor raises the floor to it at most.      *)
LEMMA RaisedIs ==
  ASSUME NEW w \in Slots, NEW v \in Values(w), StorageInv, w = "mark" => v >= floor
  PROVE  /\ Raised(w, v) \in Marks \cup {0}
         /\ w = "mark" => Raised(w, v) = v
         /\ w # "mark" => Raised(w, v) = floor
<1>1. floor \in Marks \cup {0} /\ floor \in Nat
  BY Numbers DEF StorageInv, TypeOK
<1>2. w = "mark" => v \in Marks /\ v \in Nat
  BY Numbers
<1> QED
  BY <1>1, <1>2 DEF Raised

LEMMA NvsCommitKeeps == StorageInv /\ NvsCommit => StorageInv'
<1> SUFFICES ASSUME StorageInv, NvsCommit PROVE StorageInv'
  OBVIOUS
<1> DEFINE w == op.slot
           v == op.rec[w]
<1>1. /\ pc = "set" /\ pc' = "idle" /\ op' = None /\ answer' = Stored
      /\ after' = With(after, w, {v})
      /\ Landed(w, v) /\ floor' = Raised(w, v)
      /\ UNCHANGED <<board, least, media>>
  BY DEF NvsCommit, End
<1>2. /\ board = "esp32" /\ w \in Slots /\ v \in Values(w) /\ media[w] = v
      /\ w = "mark" => v = op.rec.mark /\ v \in Marks /\ least = v /\ v >= floor
  BY <1>1, UnderWay DEF StorageInv, OpInv
<1> HIDE DEF w, v
<1>3. /\ acked' \in [Slots -> Marks \cup Texts \cup {Empty, None}]
      /\ acked'[w] = v /\ \A u \in Slots : u # w => acked'[u] = acked[u]
      /\ settled' \in [Slots -> Marks \cup Texts \cup {Empty, None}]
      /\ settled'[w] = v /\ \A u \in Slots : u # w => settled'[u] = settled[u]
      /\ torn' = torn \ {w} /\ torn' \subseteq Slots /\ forgot' = forgot
      /\ w = "mark" => v \in Marks /\ v \in Nat /\ acked'.mark = v
  BY <1>1, <1>2, LandedIs
<1>4. /\ floor' \in Marks \cup {0}
      /\ w = "mark" => floor' = v
      /\ w # "mark" => floor' = floor
  BY <1>1, <1>2, RaisedIs
<1>5. torn = {} /\ torn' = torn
  BY <1>2, <1>3 DEF StorageInv, MediumInv
<1>6. after' \subseteq Contents /\ media \in after'
  BY <1>1, <1>2, SlotSettles
<1>7. MediumInv' /\ \A n \in after' : AtFloor(n, floor')
  <2>1. media \in Contents
    BY DEF StorageInv, TypeOK
  <2>2. \/ floor' = floor
        \/ w = "mark" /\ media.mark \in Marks
           /\ floor' = (IF media.mark > floor THEN media.mark ELSE floor)
    <3>1. CASE w = "mark"
      <4>1. media.mark = v /\ floor' = v /\ v \in Marks /\ v \in Nat /\ v >= floor
        BY <1>2, <1>3, <1>4, <2>1, <3>1, Fields
      <4> QED
        BY <3>1, <4>1, Numbers
    <3> QED
      BY <1>4, <3>1
  <2> QED
    BY <1>1, <1>2, <1>5, <2>2, SettlesFloor
<1>8. SettledInv'
  BY <1>1, <1>2, <1>3, SettlesHistory
<1>9. TypeOK'
  BY <1>1, <1>3, <1>4, <1>6 DEF StorageInv, TypeOK, Stored, BlobIs, Reply, Status
<1>10. OpInv'
  BY <1>1 DEF OpInv
<1>11. AckedInv'
  BY <1>1, <1>2, <1>3, <1>5 DEF StorageInv, AckedInv, Present
<1>12. LeastInv'
  <2>1. CASE w = "mark"
    BY <1>1, <1>2, <1>3, <1>4, <2>1 DEF LeastInv
  <2>2. CASE w # "mark"
    <3>1. acked'.mark = acked.mark
      BY <1>3, <2>2 DEF Slots
    <3> QED
      BY <1>1, <1>3, <1>4, <2>2, <3>1 DEF StorageInv, LeastInv
  <2> QED
    BY <2>1, <2>2
<1>13. FloorInv'
  BY <1>1, <1>6, <1>7 DEF FloorInv, Present
<1> QED
  BY <1>7, <1>8, <1>9, <1>10, <1>11, <1>12, <1>13 DEF StorageInv

-----------------------------------------------------------------------------
(* The sector.                                                             *)
LEMMA SectorSameKeeps ==
  ASSUME NEW v \in Marks, StorageInv, SectorSame(v)
  PROVE  StorageInv'
<1>1. /\ board = "rp2040" /\ pc = "idle" /\ media.mark = v
      /\ answer' = Stored /\ least' = v
      /\ floor' = (IF forgot THEN v ELSE Raised("mark", v))
      /\ Landed("mark", v)
      /\ least # None /\ v >= least
      /\ UNCHANGED <<board, media, after, pc, op>>
  BY DEF SectorSame, MayStore
<1>2. v \in Values("mark") /\ "mark" \in Slots /\ v \in Nat
  BY MarksAssumption DEF Values, Slots
<1>3. /\ acked' \in [Slots -> Marks \cup Texts \cup {Empty, None}]
      /\ settled' \in [Slots -> Marks \cup Texts \cup {Empty, None}]
      /\ acked'["mark"] = v /\ settled'["mark"] = v /\ acked'.mark = v
      /\ acked'["blob"] = acked["blob"] /\ settled'["blob"] = settled["blob"]
      /\ torn' = torn \ {"mark"} /\ torn' \subseteq Slots /\ forgot' = forgot
  BY <1>1, <1>2, LandedIs DEF Slots
<1>4. media \in Contents /\ after = {media} /\ media["mark"] = v
  BY <1>1, Fields DEF StorageInv, TypeOK, MediumInv
<1>5. floor' = v
  <2>1. CASE forgot
    BY <1>1, <2>1
  <2>2. CASE ~forgot
    <3>1. v >= floor
      BY <1>1, <1>2, <2>2, Numbers DEF StorageInv, LeastInv
    <3> QED
      BY <1>1, <1>2, <2>2, <3>1, RaisedIs
  <2> QED
    BY <2>1, <2>2
<1>6. TypeOK'
  BY <1>1, <1>2, <1>3, <1>5 DEF StorageInv, TypeOK, Stored, BlobIs, Reply, Status
<1>7. OpInv' /\ MediumInv'
  BY <1>1 DEF StorageInv, OpInv, MediumInv
<1>8. SettledInv'
  BY <1>1, <1>3 DEF StorageInv, SettledInv, Slots
<1>9. AckedInv'
  BY <1>1, <1>2, <1>3, <1>4 DEF StorageInv, AckedInv, Present, Slots
<1>10. LeastInv'
  BY <1>1, <1>2, <1>3, <1>5 DEF LeastInv
<1>11. FloorInv'
  BY <1>1, <1>2, <1>5, ValuesAssumption DEF FloorInv, AtFloor, Present
<1> QED
  BY <1>6, <1>7, <1>8, <1>9, <1>10, <1>11 DEF StorageInv

(* What an interrupted erase or program leaves.                            *)
LEMMA DamagedSector ==
  ASSUME NEW rec \in Contents, NEW m \in Damaged(rec)
  PROVE  m \in Contents /\ m.mark \in Marks \cup {Absent}
<1>1. Erased \in Contents /\ Erased.mark = Absent
  BY DEF Erased, Contents
<1> QED
  BY <1>1 DEF Damaged

LEMMA SectorEraseKeeps ==
  ASSUME NEW w \in Slots, NEW v \in Values(w), StorageInv, SectorErase(w, v)
  PROVE  StorageInv'
<1> DEFINE rec == op'.rec
<1>0. MayStore(w, v) /\ Begin(w, v, "erased") /\ "erased" \in {"opened", "erased", "set"}
  BY DEF SectorErase
<1>1. /\ op' \in [slot : Slots, rec : Contents]
      /\ op'.slot = w /\ rec = [media EXCEPT ![w] = v] /\ rec[w] = v
      /\ w = "mark" => rec.mark = v /\ least' = v /\ v \in Nat /\ v >= floor'
      /\ least' \in Nat \cup {None}
      /\ floor' \in Marks \cup {0} /\ floor' \in Nat /\ floor' <= floor
  BY <1>0, Begun
<1>2. /\ acked' \in [Slots -> Marks \cup Texts \cup {Empty, None}] /\ acked'[w] = None
      /\ settled' \in [Slots -> Marks \cup Texts \cup {Empty, None}] /\ settled'[w] = None
      /\ \A u \in Slots : u # w => acked'[u] = acked[u] /\ settled'[u] = settled[u]
      /\ pc = "idle" /\ pc' = "erased" /\ UNCHANGED <<board, answer, torn, forgot>>
      /\ LeastInv'
  BY <1>0, Begun
<1>3. /\ board = "rp2040" /\ media' = Erased
      /\ after' = {media, rec} \cup Damaged(media) \cup Damaged(rec)
  BY DEF SectorErase
<1>4. media \in Contents /\ rec \in Contents
  BY <1>1 DEF StorageInv, TypeOK
<1>5. \A u \in Slots : u # w => rec[u] = media[u]
  <2>1. \A u \in Slots : u # w => [media EXCEPT ![w] = v][u] = media[u]
    BY <1>4, SlotReplaced
  <2> QED
    BY <1>1, <2>1
<1>6. media.mark \in Marks \cup {Absent} /\ rec.mark \in Marks \cup {Absent}
  <2>1. media.mark \in Marks \cup {Absent}
    BY <1>3 DEF StorageInv, MediumInv
  <2>2. CASE w = "mark"
    BY <1>1, <2>1, <2>2 DEF Values
  <2>3. CASE w = "blob"
    <3>1. rec["mark"] = media["mark"]
      BY <1>5, <2>3 DEF Slots
    <3> QED
      BY <1>4, <2>1, <3>1, Fields
  <2> QED
    BY <2>1, <2>2, <2>3 DEF Slots
<1> HIDE DEF rec
<1>7. ASSUME NEW m \in after'
      PROVE  m \in Contents /\ m.mark \in Marks \cup {Absent}
  BY <1>3, <1>4, <1>6, <1>7, DamagedSector
<1>8. media' \in after' /\ rec \in after'
  BY <1>3 DEF Damaged
<1>9. TypeOK'
  BY <1>1, <1>2, <1>3, <1>7, <1>8 DEF StorageInv, TypeOK
<1>10. OpInv'
  BY <1>1, <1>2, <1>3, <1>8 DEF OpInv, rec
<1>11. MediumInv'
  BY <1>2, <1>3, <1>7, <1>8 DEF MediumInv
<1>12. SettledInv'
  BY <1>2, <1>3 DEF StorageInv, SettledInv
<1>13. AckedInv'
  BY <1>1, <1>2, <1>5 DEF StorageInv, AckedInv, Present, rec
<1>14. FloorInv'
  <2>1. "mark" \in torn \/ AtFloor(rec, floor')
    <3>1. CASE w = "mark"
      BY <1>1, <3>1, ValuesAssumption DEF AtFloor, Values
    <3>2. CASE w = "blob"
      <4>1. rec.mark = media.mark
        BY <1>4, <1>5, <3>2, Fields DEF Slots
      <4>2. "mark" \in torn \/ AtFloor(media, floor)
        BY <1>2 DEF StorageInv, FloorInv, Present
      <4>3. AtFloor(media, floor) => AtFloor(media, floor')
        BY <1>1, <1>4, FloorLowered, Numbers
      <4> QED
        BY <4>1, <4>2, <4>3 DEF AtFloor
    <3> QED
      BY <3>1, <3>2 DEF Slots
  <2> QED
    BY <1>2, <1>3, <2>1 DEF FloorInv, Present, rec
<1> QED
  BY <1>2, <1>9, <1>10, <1>11, <1>12, <1>13, <1>14 DEF StorageInv

LEMMA SectorProgramKeeps == StorageInv /\ SectorProgram => StorageInv'
<1> SUFFICES ASSUME StorageInv, SectorProgram PROVE StorageInv'
  OBVIOUS
<1> DEFINE w == op.slot
           rec == op.rec
<1>1. /\ pc = "erased" /\ pc' = "idle" /\ op' = None /\ answer' = Stored
      /\ media' = rec /\ after' = {rec}
      /\ Landed(w, rec[w]) /\ floor' = Raised(w, rec[w])
      /\ UNCHANGED <<board, least>>
  BY DEF SectorProgram, End
<1>2. /\ board = "rp2040" /\ w \in Slots /\ rec \in Contents /\ rec[w] \in Values(w)
      /\ rec \in after
      /\ w = "mark" => rec[w] = rec.mark /\ rec.mark \in Marks /\ least = rec.mark /\ rec.mark >= floor
  BY <1>1, UnderWay DEF StorageInv, OpInv
<1>3. \A u \in Slots : u # w /\ acked[u] # None => acked[u] \in Values(u) /\ (u \in torn \/ rec[u] = acked[u])
  BY <1>1 DEF StorageInv, AckedInv, Present
<1>4. "mark" \in torn \/ AtFloor(rec, floor)
  BY <1>1 DEF StorageInv, FloorInv, Present
<1>5. settled[w] = None /\ \A u \in Slots : settled[u] # None => settled[u] = acked[u]
  BY <1>1, UnderWay DEF StorageInv, SettledInv
<1> HIDE DEF w, rec
<1>6. /\ acked' \in [Slots -> Marks \cup Texts \cup {Empty, None}]
      /\ acked'[w] = rec[w] /\ \A u \in Slots : u # w => acked'[u] = acked[u]
      /\ settled' \in [Slots -> Marks \cup Texts \cup {Empty, None}]
      /\ settled'[w] = rec[w] /\ \A u \in Slots : u # w => settled'[u] = settled[u]
      /\ torn' = torn \ {w} /\ torn' \subseteq Slots /\ forgot' = forgot
      /\ w = "mark" => rec[w] \in Marks /\ rec[w] \in Nat /\ acked'.mark = rec[w]
  BY <1>1, <1>2, LandedIs
<1>7. /\ floor' \in Marks \cup {0}
      /\ w = "mark" => floor' = rec[w]
      /\ w # "mark" => floor' = floor
  <2>1. w = "mark" => rec[w] >= floor
    BY <1>2
  <2> QED
    BY <1>1, <1>2, <2>1, RaisedIs
<1>8. TypeOK'
  BY <1>1, <1>2, <1>6, <1>7 DEF StorageInv, TypeOK, Stored, BlobIs, Reply, Status
<1>9. OpInv' /\ MediumInv'
  BY <1>1, <1>2 DEF StorageInv, OpInv, MediumInv
<1>10. SettledInv'
  BY <1>1, <1>2, <1>5, <1>6 DEF SettledInv
<1>11. AckedInv'
  BY <1>1, <1>2, <1>3, <1>6 DEF AckedInv, Present
<1>12. LeastInv' /\ FloorInv'
  <2>1. CASE w = "mark"
    <3>1. rec.mark \in Nat /\ floor' = rec.mark /\ least' = rec.mark /\ acked'.mark = rec.mark
          /\ rec.mark # Absent
      BY <1>1, <1>2, <1>6, <1>7, <2>1, MarksAssumption, ValuesAssumption
    <3> QED
      BY <1>1, <1>2, <3>1 DEF FloorInv, LeastInv, AtFloor, Present
  <2>2. CASE w # "mark"
    <3>1. floor' = floor /\ acked'.mark = acked.mark /\ ("mark" \in torn => "mark" \in torn')
      BY <1>6, <1>7, <2>2 DEF Slots
    <3> QED
      BY <1>1, <1>2, <1>4, <1>6, <3>1 DEF StorageInv, FloorInv, LeastInv, Present
  <2> QED
    BY <2>1, <2>2
<1> QED
  BY <1>8, <1>9, <1>10, <1>11, <1>12 DEF StorageInv

(* A store broken off harms the slots it does not leave as it was to.      *)
LEMMA BrokenOff ==
  ASSUME StorageInv, pc = "erased", media' \in after, pc' = "idle",
         torn' = torn \cup Harmed, UNCHANGED <<board, floor>>,
         acked' = acked \/ acked' = settled
  PROVE  torn' \subseteq Slots /\ AckedInv' /\ FloorInv'
<1>1. board = "rp2040" /\ op.rec \in Contents /\ media' \in Contents /\ torn \subseteq Slots
  BY DEF StorageInv, OpInv, TypeOK
<1>2. \A u \in Slots : u \notin torn' => media'[u] = op.rec[u] /\ u \notin torn
  BY DEF Harmed
<1>3. \A u \in Slots : acked'[u] # None => acked'[u] = acked[u]
  BY DEF StorageInv, SettledInv
<1>4. AckedInv'
  <2> SUFFICES ASSUME NEW u \in Slots, acked'[u] # None
               PROVE  acked'[u] \in Values(u) /\ (u \in torn' \/ media'[u] = acked'[u])
    BY DEF AckedInv, Present
  <2>1. acked[u] \in Values(u) /\ (u \in torn \/ op.rec[u] = acked[u])
    BY <1>3 DEF StorageInv, AckedInv, Present
  <2> QED
    BY <1>2, <1>3, <2>1
<1>5. "mark" \in torn' \/ AtFloor(media', floor)
  <2> SUFFICES ASSUME "mark" \notin torn' PROVE AtFloor(media', floor)
    OBVIOUS
  <2>1. media'.mark = op.rec.mark /\ "mark" \notin torn
    BY <1>1, <1>2, Fields DEF Slots
  <2>2. AtFloor(op.rec, floor)
    BY <2>1 DEF StorageInv, FloorInv, Present
  <2> QED
    BY <2>1, <2>2 DEF AtFloor
<1>6. FloorInv'
  BY <1>1, <1>5 DEF FloorInv, Present
<1>7. torn' \subseteq Slots
  BY <1>1 DEF Harmed
<1> QED
  BY <1>4, <1>6, <1>7

LEMMA SectorProgramFailsKeeps == StorageInv /\ SectorProgramFails => StorageInv'
<1> SUFFICES ASSUME StorageInv, SectorProgramFails PROVE StorageInv'
  OBVIOUS
<1>1. /\ pc = "erased" /\ pc' = "idle" /\ op' = None /\ answer' = NotStored
      /\ media' \in after /\ after' = {media'}
      /\ torn' = torn \cup Harmed
      /\ UNCHANGED <<board, least, acked, settled, floor, forgot>>
  BY DEF SectorProgramFails, End
<1>2. torn' \subseteq Slots /\ AckedInv' /\ FloorInv'
  BY <1>1, BrokenOff
<1>3. board = "rp2040"
  BY <1>1 DEF StorageInv, OpInv
<1>4. TypeOK'
  BY <1>1, <1>2 DEF StorageInv, TypeOK, NotStored, BlobIs, Reply, Status
<1>5. OpInv' /\ MediumInv'
  BY <1>1, <1>3 DEF StorageInv, OpInv, MediumInv
<1>6. SettledInv' /\ LeastInv'
  BY <1>1, <1>3 DEF StorageInv, SettledInv, LeastInv
<1> QED
  BY <1>2, <1>4, <1>5, <1>6 DEF StorageInv

-----------------------------------------------------------------------------
LEMMA ProcessDiesKeeps == StorageInv /\ ProcessDies => StorageInv'
<1> SUFFICES ASSUME StorageInv, ProcessDies PROVE StorageInv'
  OBVIOUS
<1>1. /\ board = "posix" /\ pc' = "idle" /\ op' = None /\ answer' = NoReply
      /\ least' = None /\ forgot' = FALSE
      /\ UNCHANGED <<board, media, after, acked, settled, torn, floor>>
  BY DEF ProcessDies, Restarts
<1>2. pc # "erased"
  BY <1>1 DEF StorageInv, OpInv
<1>3. TypeOK'
  BY <1>1 DEF StorageInv, TypeOK, NoReply, BlobIs, Reply, Status
<1>4. OpInv' /\ MediumInv' /\ SettledInv' /\ LeastInv'
  BY <1>1 DEF StorageInv, OpInv, MediumInv, SettledInv, LeastInv
<1>5. AckedInv' /\ FloorInv'
  BY <1>1, <1>2 DEF StorageInv, AckedInv, FloorInv, Present
<1> QED
  BY <1>3, <1>4, <1>5 DEF StorageInv

LEMMA PowerFailsKeeps == StorageInv /\ PowerFails => StorageInv'
<1> SUFFICES ASSUME StorageInv, PowerFails PROVE StorageInv'
  OBVIOUS
<1>1. /\ media' \in after /\ after' = {media'}
      /\ pc' = "idle" /\ op' = None /\ answer' = NoReply /\ least' = None /\ forgot' = FALSE
      /\ acked' = settled
      /\ torn' = (IF pc = "erased" THEN torn \cup Harmed ELSE torn)
      /\ UNCHANGED <<board, settled, floor>>
  BY DEF PowerFails, Restarts
<1>2. pc = "erased" => board = "rp2040"
  BY DEF StorageInv, OpInv
<1>3. torn' \subseteq Slots /\ AckedInv' /\ FloorInv'
  <2>1. CASE pc = "erased"
    BY <1>1, <2>1, BrokenOff
  <2>2. CASE pc # "erased"
    <3>1. torn' = torn /\ torn' \subseteq Slots
      BY <1>1, <2>2 DEF StorageInv, TypeOK
    <3>2. \A u \in Slots : settled[u] # None => settled[u] = acked[u]
      BY DEF StorageInv, SettledInv
    <3>3. CASE board = "rp2040"
      <4>1. media' = media
        BY <1>1, <2>2, <3>3 DEF StorageInv, MediumInv, OpInv, TypeOK
      <4>2. AckedInv'
        BY <1>1, <2>2, <3>1, <3>2, <4>1 DEF StorageInv, AckedInv, Present
      <4> QED
        BY <1>1, <2>2, <3>1, <3>3, <4>1, <4>2 DEF StorageInv, FloorInv, Present
    <3>4. CASE board # "rp2040"
      <4>1. \A u \in Slots : settled[u] # None => media'[u] = settled[u]
        BY <1>1, <3>4 DEF StorageInv, SettledInv
      <4>2. AckedInv'
        BY <1>1, <3>1, <3>2, <4>1 DEF StorageInv, AckedInv, Present
      <4> QED
        BY <1>1, <3>1, <3>4, <4>2 DEF StorageInv, FloorInv, Present
    <3> QED
      BY <3>3, <3>4
  <2> QED
    BY <2>1, <2>2
<1>4. TypeOK'
  BY <1>1, <1>3 DEF StorageInv, TypeOK, NoReply, BlobIs, Reply, Status
<1>5. OpInv' /\ MediumInv'
  BY <1>1, <1>2 DEF StorageInv, OpInv, MediumInv
<1>6. SettledInv' /\ LeastInv'
  BY <1>1 DEF StorageInv, SettledInv, LeastInv
<1> QED
  BY <1>3, <1>4, <1>5, <1>6 DEF StorageInv

LEMMA StorageStep == StorageInv /\ [Next]_vars => StorageInv'
<1> SUFFICES ASSUME StorageInv, [Next]_vars PROVE StorageInv'
  OBVIOUS
<1>1. CASE HwmLoad \/ BlobLoad
  BY <1>1, HwmLoadKeeps, BlobLoadKeeps
<1>2. ASSUME NEW w \in Slots, NEW v \in Values(w),
             StoreFails(w, v) \/ PosixOpen(w, v) \/ SectorErase(w, v) \/ NvsSet(w, v)
      PROVE  StorageInv'
  BY <1>2, StoreFailsKeeps, PosixOpenKeeps, SectorEraseKeeps, NvsSetKeeps
<1>3. CASE PosixWrite \/ PosixWriteFails
  BY <1>3, PosixWriteKeeps, PosixWriteFailsKeeps
<1>4. ASSUME NEW w \in Slots, PosixFlush(w) PROVE StorageInv'
  BY <1>4, PosixFlushKeeps
<1>5. ASSUME NEW v \in Marks, SectorSame(v) PROVE StorageInv'
  BY <1>5, SectorSameKeeps
<1>6. CASE SectorProgram \/ SectorProgramFails
  BY <1>6, SectorProgramKeeps, SectorProgramFailsKeeps
<1>7. CASE NvsCommit \/ NvsCommitFails
  BY <1>7, NvsCommitKeeps, NvsCommitFailsKeeps
<1>8. CASE ProcessDies \/ PowerFails
  BY <1>8, ProcessDiesKeeps, PowerFailsKeeps
<1>9. CASE UNCHANGED vars
  <2> USE <1>9 DEF vars, history, StorageInv
  <2>1. TypeOK'
    BY DEF TypeOK
  <2>2. OpInv' /\ MediumInv' /\ SettledInv'
    BY DEF OpInv, MediumInv, SettledInv
  <2>3. AckedInv' /\ FloorInv'
    BY DEF AckedInv, FloorInv, Present
  <2>4. LeastInv'
    BY DEF LeastInv
  <2> QED
    BY <2>1, <2>2, <2>3, <2>4
<1> QED
  BY <1>1, <1>2, <1>3, <1>4, <1>5, <1>6, <1>7, <1>8, <1>9 DEF Next

-----------------------------------------------------------------------------
THEOREM StorageInvariant == Spec => []StorageInv
  BY StorageInit, StorageStep, PTL DEF Spec

(* The callbacks answer what the HAL declares and keep to their types;     *)
(* outside ESP32 no load calls an empty text a blob.                       *)
THEOREM StorageTypeCorrect == Spec => []TypeOK
<1>1. StorageInv => TypeOK
  BY DEF StorageInv
<1> QED
  BY <1>1, StorageInvariant, PTL

(* What a store acknowledged is what a load answers, in either slot and on *)
(* any of the platforms, but for a trimmed mark, an empty text and a slot  *)
(* that a broken-off RP2040 store has torn.                                *)
THEOREM AckedIsReadAlways == Spec => []AckedIsRead
<1>1. ASSUME StorageInv, pc = "idle", acked.mark # None
      PROVE  \/ MarkReply(media, "none") = MarkIs(acked.mark)
             \/ /\ board = "posix" /\ acked.mark \in Trimmed
                /\ MarkReply(media, "none") = Broken("mark")
             \/ board = "rp2040" /\ "mark" \in torn
  <2>0. media \in Contents /\ AckedInv /\ (torn # {} => board = "rp2040")
    BY <1>1 DEF StorageInv, TypeOK, MediumInv
  <2>1. media.mark = media["mark"]
    BY <2>0, Fields
  <2>2. CASE "mark" \in torn
    BY <2>0, <2>2
  <2>3. CASE "mark" \notin torn
    <3>1. acked.mark \in Marks /\ media.mark = acked.mark /\ media.mark # Absent
      BY <1>1, <2>0, <2>1, <2>3, ValuesAssumption DEF AckedInv, Slots, Values, Present
    <3>2. board \in {"posix", "rp2040", "esp32"}
      BY <1>1, Numbers
    <3> QED
      BY <3>1, <3>2 DEF MarkReply, PosixMark, SectorMark, NvsMark
  <2> QED
    BY <2>2, <2>3
<1>2. ASSUME StorageInv, pc = "idle", acked.blob # None
      PROVE  \/ BlobReply(media, "none") = BlobIs(acked.blob)
             \/ acked.blob = Empty /\ BlobReply(media, "none") = NoBlob
             \/ board = "rp2040" /\ "blob" \in torn
  <2>0. media \in Contents /\ AckedInv /\ (torn # {} => board = "rp2040")
    BY <1>2 DEF StorageInv, TypeOK, MediumInv
  <2>1. media.blob = media["blob"]
    BY <2>0, Fields
  <2>2. CASE "blob" \in torn
    BY <2>0, <2>2
  <2>3. CASE "blob" \notin torn
    <3>1. /\ acked.blob \in Texts \cup {Empty} /\ media.blob = acked.blob
          /\ media.blob # Absent
      BY <1>2, <2>0, <2>1, <2>3, ValuesAssumption DEF AckedInv, Slots, Values, Present
    <3>2. board \in {"posix", "rp2040", "esp32"}
      BY <1>2, Numbers
    <3> QED
      BY <3>1, <3>2 DEF BlobReply, PosixBlob, SectorBlob, NvsBlob
  <2> QED
    BY <2>2, <2>3
<1>3. StorageInv => AckedIsRead
  BY <1>1, <1>2 DEF AckedIsRead
<1> QED
  BY <1>3, StorageInvariant, PTL

(* No load, whatever goes wrong in it, answers less than the last mark     *)
(* that reached the medium, but one whose open fails and one of a torn     *)
(* RP2040 sector; and only after such an answer is a smaller mark stored.  *)
THEOREM MarkFailsClosedAlways == Spec => []MarkFailsClosed
<1>1. ASSUME StorageInv, pc = "idle", NEW fault \in Faults
      PROVE  LET r == MarkReply(media, fault) IN
               \/ Refused(r)
               \/ r.value >= floor
               \/ fault = "open"
               \/ board = "rp2040" /\ "mark" \in torn
  <2>1. /\ (board = "rp2040" /\ "mark" \in torn) \/ AtFloor(media, floor)
        /\ floor \in Nat
        /\ board \in {"posix", "rp2040", "esp32"}
        /\ board # "posix" => media.mark \in Marks \cup {Absent}
    BY <1>1, Numbers DEF StorageInv, FloorInv, MediumInv, Present
  <2>2. CASE AtFloor(media, floor)
    <3>1. /\ media.mark \in Marks => media.mark >= floor
          /\ media.mark = Absent => 0 >= floor
      BY <2>1, <2>2 DEF AtFloor
    <3>2. CASE board = "posix"
      BY <2>1, <3>1, <3>2 DEF MarkReply, PosixMark, Refused, Broken, MarkIs, Reply
    <3>3. CASE board = "rp2040"
      BY <2>1, <3>1, <3>3, ValuesAssumption DEF MarkReply, SectorMark, Refused, MarkIs, Reply
    <3>4. CASE board = "esp32"
      BY <2>1, <3>1, <3>4, ValuesAssumption DEF MarkReply, NvsMark, Refused, Broken, MarkIs, Reply
    <3> QED
      BY <2>1, <3>2, <3>3, <3>4
  <2> QED
    BY <2>1, <2>2
<1>2. StorageInv => MarkFailsClosed
  BY <1>1 DEF MarkFailsClosed
<1> QED
  BY <1>2, StorageInvariant, PTL

-----------------------------------------------------------------------------
(* Writing the blob's file changes no mark, on the medium or in prospect.  *)
LEMMA BlobWriteKeepsMarks ==
  ASSUME StorageInv, NEW cs \in SUBSET (Values("blob") \cup {Empty, Part}), NEW x \in cs,
         media' = [media EXCEPT !["blob"] = x],
         after' = after \cup With(after, "blob", cs)
  PROVE  \A n \in after' \cup {media'} : \E m \in after \cup {media} : n.mark = m.mark
<1>1. /\ media \in Contents /\ after \in SUBSET Contents /\ "blob" \in Slots
      /\ cs \in SUBSET (Values("blob") \cup {Absent, Empty, Part})
  BY DEF StorageInv, TypeOK, Slots
<1>2. media'.mark = media.mark
  BY <1>1 DEF Contents
<1>3. ASSUME NEW n \in With(after, "blob", cs)
      PROVE  \E m \in after : n.mark = m.mark
  <2>1. n \in Contents
    BY <1>1, WithReplaced
  <2>2. \E m \in after : \A u \in Slots : u # "blob" => n[u] = m[u]
    BY <1>1, WithReplaced
  <2>3. PICK m \in after : n["mark"] = m["mark"]
    BY <2>2 DEF Slots
  <2>4. m \in Contents
    BY <1>1
  <2> QED
    BY <2>1, <2>3, <2>4, Fields
<1>4. ASSUME NEW n \in after' \cup {media'}
      PROVE  \E m \in after \cup {media} : n.mark = m.mark
  <2>1. CASE n \in after
    BY <2>1
  <2>2. CASE n \in With(after, "blob", cs)
    BY <1>3, <2>2
  <2>3. CASE n = media'
    BY <1>2, <2>3
  <2> QED
    BY <1>4, <2>1, <2>2, <2>3
<1> QED
  BY <1>4

LEMMA FlushKeepsMarks ==
  ASSUME StorageInv, NEW w \in Slots, PosixFlush(w)
  PROVE  \A n \in after' \cup {media'} : \E m \in after \cup {media} : n.mark = m.mark
<1>1. media' = media /\ after' = With(after, w, {media[w]})
  BY DEF PosixFlush
<1>2. /\ media \in Contents /\ after \subseteq Contents /\ after' \subseteq Contents
      /\ \A n \in after' : n[w] = media[w]
      /\ \A n \in after' : \E m \in after : \A u \in Slots : u # w => n[u] = m[u]
  BY <1>1, SlotSettles DEF StorageInv, TypeOK
<1>3. ASSUME NEW n \in after'
      PROVE  \E m \in after \cup {media} : n.mark = m.mark
  <2>1. CASE w = "mark"
    BY <1>2, <2>1, Fields
  <2>2. CASE w # "mark"
    <3>1. PICK m \in after : n["mark"] = m["mark"]
      BY <1>2, <2>2 DEF Slots
    <3>2. m \in Contents /\ n \in Contents
      BY <1>2
    <3> QED
      BY <3>1, <3>2, Fields
  <2> QED
    BY <2>1, <2>2
<1> QED
  BY <1>1, <1>3

LEMMA StrandedStep ==
  ASSUME StorageInv, Next, Stranded
  PROVE  Stranded' \/ answer' = MarkIs(0)
<1>1. /\ board = "posix" /\ least = None
      /\ \A m \in after \cup {media} : m.mark \in Unreadable
      /\ pc \notin {"erased", "set"}
  BY DEF Stranded, StorageInv, OpInv
<1>2. ASSUME board' = "posix", least' = None,
             \A n \in after' \cup {media'} : \E m \in after \cup {media} : n.mark = m.mark
      PROVE  Stranded'
  BY <1>1, <1>2 DEF Stranded
<1>3. ASSUME NEW w \in Slots, NEW v \in Values(w), MayStore(w, v)
      PROVE  w = "blob" /\ NextLeast(w, v) = None
  BY <1>1, <1>3 DEF MayStore, NextLeast, Slots
<1>4. CASE HwmLoad
  <2>1. media.mark \in Unreadable /\ media.mark # Absent /\ media.mark \notin Marks \ Trimmed
    BY <1>1, TrimmedAssumption, ValuesAssumption DEF Unreadable
  <2>2. answer' = MarkIs(0) \/ answer' = Broken("mark")
    BY <1>1, <1>4, <2>1 DEF HwmLoad, MarkReply, PosixMark
  <2>3. CASE answer' = Broken("mark")
    <3>1. least' = None /\ UNCHANGED <<board, media, after>>
      BY <1>1, <1>4, <2>3 DEF HwmLoad, Learnt, Refused, Broken, Reply
    <3> QED
      BY <1>1, <1>2, <3>1
  <2> QED
    BY <2>2, <2>3
<1>5. CASE BlobLoad \/ ProcessDies
  BY <1>1, <1>2, <1>5 DEF BlobLoad, ProcessDies, Restarts
<1>6. CASE PowerFails
  BY <1>1, <1>2, <1>6 DEF PowerFails, Restarts
<1>7. ASSUME NEW w \in Slots, NEW v \in Values(w), StoreFails(w, v)
      PROVE  Stranded'
  BY <1>1, <1>2, <1>3, <1>7 DEF StoreFails
<1>8. ASSUME NEW w \in Slots, NEW v \in Values(w), PosixOpen(w, v)
      PROVE  Stranded'
  <2>1. w = "blob" /\ least' = None /\ board' = "posix"
    BY <1>1, <1>3, <1>8 DEF PosixOpen, Begin
  <2>2. {Empty} \in SUBSET (Values("blob") \cup {Empty, Part}) /\ Empty \in {Empty}
    OBVIOUS
  <2>3. /\ media' = [media EXCEPT !["blob"] = Empty]
        /\ after' = after \cup With(after, "blob", {Empty})
    BY <1>8, <2>1 DEF PosixOpen
  <2> QED
    BY <1>2, <2>1, <2>2, <2>3, BlobWriteKeepsMarks
<1>9. CASE PosixWrite \/ PosixWriteFails
  <2>1. pc = "opened" /\ least' = None /\ board' = "posix"
    BY <1>1, <1>9 DEF PosixWrite, PosixWriteFails, End
  <2>2. op.slot = "blob" /\ op.rec[op.slot] \in Values(op.slot)
    BY <1>1, <2>1, UnderWay, ValuesAssumption DEF Slots
  <2> DEFINE cs == Written(op.rec["blob"])
  <2>3. cs \in SUBSET (Values("blob") \cup {Empty, Part}) /\ op.rec["blob"] \in cs
    BY <2>2 DEF Written
  <2>4. /\ \E x \in cs : media' = [media EXCEPT !["blob"] = x]
        /\ after' = after \cup With(after, "blob", cs)
    BY <1>9, <2>2, <2>3 DEF PosixWrite, PosixWriteFails
  <2> HIDE DEF cs
  <2> QED
    BY <1>2, <2>1, <2>3, <2>4, BlobWriteKeepsMarks
<1>10. ASSUME NEW w \in Slots, PosixFlush(w) PROVE Stranded'
  <2>1. board' = "posix" /\ least' = None
    BY <1>1, <1>10 DEF PosixFlush
  <2> QED
    BY <1>2, <1>10, <2>1, FlushKeepsMarks
<1>11. ~ \E w \in Slots : \E v \in Values(w) : SectorErase(w, v) \/ NvsSet(w, v)
  BY <1>1 DEF SectorErase, NvsSet
<1>12. ~ \E v \in Marks : SectorSame(v)
  BY <1>1 DEF SectorSame
<1>13. ~ (SectorProgram \/ SectorProgramFails \/ NvsCommit \/ NvsCommitFails)
  BY <1>1 DEF SectorProgram, SectorProgramFails, NvsCommit, NvsCommitFails
<1> QED
  BY <1>4, <1>5, <1>6, <1>7, <1>8, <1>9, <1>10, <1>11, <1>12, <1>13 DEF Next

(* A POSIX device whose mark file cannot be read stays refused until a     *)
(* load fails to open the file.                                            *)
THEOREM StrandedStaysAlways == Spec => StrandedStays
<1>1. StorageInv /\ [Next]_vars => [Stranded => Stranded' \/ answer' = MarkIs(0)]_vars
  BY StrandedStep
<1> QED
  BY <1>1, StorageInvariant, PTL DEF Spec, StrandedStays
=============================================================================
