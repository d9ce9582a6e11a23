# VectiLicense in TLA+

A verification development kept beside the code of VectiLicense, an offline licence
library in C99 with a C++ bridge for ESP32 products. It contains TLA+ models translated from
the source, the TLC configurations that check them on small instances, and proofs checked
by TLAPS for every value of the constants. Paths below are those of the repository
(`core/…`, `bridge/…`, `transport/…`).

## 1. The system

A vendor signs a 100-byte licence (payload and Ed25519 signature) for one device with
`tools/vl_mint.py`; the operator carries it, as 160 Base32 characters, to the device by any
route; the firmware calls `vl_verify()` and gates features on the answer.

| Component | State it keeps | Operations | What makes it correct |
|---|---|---|---|
| `core/vl_core.c` `vl_verify` | none of its own; the HAL's high-water mark | one call, a pipeline of checks with callbacks to the platform | OK only if every applicable check passed; the caller's struct and its `checked` word tell the truth; the mark is moved by genuine licences only, never falls, and covers every grant |
| `bridge/vl_bridge.h` `vecti::License` | `_status`, `_lic`, `_blob`; the slot `_pending` and its flag; the HAL's stored blob | `begin`, `activate`, `submit`, `pump`, `onResult`, `clear`, accessors | what is shown is what was verified; what is stored is an issued licence in canonical form; a submitted text is judged once and answered; nobody writes the slot while it is read |
| `transport/vl_chunk.c` | sizes, bitmap, count, buffer | `reset`, `feed`, `complete` | nothing is written outside the message; complete means whole; what is handed up is what was sent |
| `transport/vl_line.c` | buffer, length, two flags | `push`, `reset` | each byte does to the line and to the answer what it should: the lines handed up are those of the stream |
| `hal/posix` | two files, `.hwm` and `.blob` | load and store of each, identity, clock | what was stored and written back is what is loaded; a mark that cannot be read is an error, and no smaller mark is answered in its place |
| `hal/rp2040` | one flash sector with both | the same | likewise; a store that completes keeps the other value, with which it shares an erase |
| `hal/esp32` | two NVS keys | the same, posture | likewise; a clock that was never set is reported so |
| `hal/stm32`, `hal/nxp`, `hal/none` | none | identity | a register that does not answer is no identity |
| `core/vl_core.c` `vl_compute_fingerprint` | none of its own; the POSIX HAL's cached interface | one call, a callback per segment | the fingerprint means the segments that were read, means one unit, and stays |
| `bridge/vl_bridge_{net,dash,serial,ota}.h` | last key seen, verdict shown | `attach`, `loop`, command handler | each paste reaches the licence object and its verdict reaches the operator |
| `examples/esp32-arduino` | the composition of the above | `setup`, `loop` | updates, flash and cards follow the verdict |
| `examples/baremetal/vl_gate.c` | `g_status`, `g_license`, a line buffer | `gate_init`, `gate_uart_rx`, `gate_allows` | features are allowed only by a licence in force, although an interrupt replaces it |
| `examples/posix/vl_activate.c` | none | verify, then store | – |
| `core/vl_base32.c`, `vl_sha256.c`, `vl_sha512.c`, `vl_ed25519.c`, `vl_util.c` | streaming contexts | pure functions | they compute what their standards define; a payload has one canonical spelling |
| `tools/vl_mint.py` | the vendor's key file | `keygen`, `pubkey`, `issue`, `inspect`, `selftest` | what it issues, the core accepts |

**How they interact.** `vl_verify()` calls the platform through a struct of callbacks
(`vl_hal_t`): identity segments, clock, mark. `vecti::License` calls `vl_verify()` and the
callbacks that load and store the blob, and only on the loop task; other tasks reach it
through `submit()`, which shares a buffer and a flag with `pump()` and takes no lock. The
bridges poll or submit. The transports produce the text that is submitted.

**What is hard.** The mark is read, compared and written in separate callbacks with other
calls, clock changes and power failures in between. `_apply()` reads a shared buffer twice.
A store may fail having written. `loop()` order decides who learns of a verdict. Frames
arrive out of order, twice, late or never. The hardware an identity is read from changes between
and during the readings. An interrupt replaces the licence the main program is asking. Counters and offsets have 32 bits and the sizes
passed in may have 64. `PROJECT.json` lists each hazard at its line, with the properties
that would catch it, or the reason none does yet.

## 2. The modules

`Verify`, `Bridge`, `Chunk` and `Line` end with a refinement mapping to an abstract module,
which states what the component promises without the mechanism.

| Detailed | Abstract | Proofs | Instances |
|---|---|---|---|
| `Verify` | `LicenceService` | `VerifyProofs` | `MCVerify` |
| `Bridge` | `ActivationSlot` | `BridgeProofs` | `MCBridge` |
| `Chunk` | `Reassembly` | `ChunkProofs` | `MCChunk` |
| `Line` | `LineReader` | `LineProofs` | `MCLine` |
| `Storage` | – | `StorageProofs` | `MCStorage` |
| `Base32`, `LineText` | numbers in base 32 and 256, in `Base32` | `LineProofs` | `MCLine` |
| `Hash` | the padding of FIPS 180-4, in the same module | `HashProofs` | `MCDevice` |
| `Identity`, `Fingerprint`, `Gate` | – | `DeviceProofs` | `MCDevice` |
| `Product` | – | `ProductProofs` | `MCProduct` |

`Fingerprint` extends `Identity` and `Hash`, and `Gate` extends `Fingerprint`: the gate, the
fingerprint it shows and the segments below run in one specification. `LineText` joins
`Line` and `Base32`: a line that was handed up goes to the decoder, as a C string. `Product` has the licence object's calls as
single steps and its siblings around it; `Bridge` has the steps inside the calls.

### Verify — `vl_verify()`

The checks are stated as sets of failures and orders in which the code tries them:
`HeaderFailures`/`HeaderOrder` (arguments to signature), `DeviceFailures`/`DeviceOrder`
(binding, revocation, missing clock), `WindowFailures`/`WindowOrder` (dates). A call
reports the first failure. Its actions are the stretches of code between callbacks:
`Call` (entry to `read_id_segment`), `IdentityFails`, `BindDevice` (to `now_epoch`),
`ClockFails`, `ReadClock` (to `hwm_load`), `LoadMark` (to `hwm_store`), `StoreMark`,
`MarkFails`. `Refuse` is the `fail:` label, `Grant` is `*out = lic`. The environment sets the
clock to anything (`SetClock`) and cuts the power at any point (`PowerCycle`), perhaps booting
another image; only the mark survives, and a store in progress may have reached it.

Abstractions: a text is the record of the fields the pipeline looks at. Ed25519 is ideal: a
signature verifies under the key that made it and no other. The fingerprint is a constant
of the device or a failure. `rc` is `None` while a call runs. Features are not modelled: they
are copied and not looked at. `seen` and `granted` are history variables. The early returns
at the arguments do not go through `fail:` but leave the same: an empty struct.

### Bridge — `vecti::License`

`pc` records where each task is inside a method. `submit()` is `SubmitCheck`, `SubmitCopy`,
`SubmitCopied`, `SubmitPublish`: the flag is looked at, the buffer is torn while `memcpy()`
runs, is whole, is published. `pump()` is `Pump`, then `_apply()` on the slot itself as
`ApplyVerify`, `ApplyCanonicalise`, `ApplyStore` (two readings of the buffer and the callback),
then `PumpWipe`, `PumpFree`, `PumpReport`. `begin()` is `BeginFails` or `BeginLoads`, then `_apply()`;
`activate()` is `Activate`, then `_apply()`; `clear()` is `Clear`, then `ClearStore`. `Reset` is a power
failure at any point.

Abstractions: a text is a licence (or none) and a form: canonical, respelt, junk, torn,
blank. `valid` is the set of licences `vl_verify()` would accept now, and changes at any time.
A rejected `submit()` is no step: it changes nothing. The HAL has both blob callbacks or
neither (`NoSlot`). Program order is taken for memory order; see the hazard at
`vl_bridge.h:153`.

### Chunk — `vl_chunk_t` on a link

Operators translate the arithmetic one by one (`Sound`, `Expect`, `Off`, `Want`, `Fits`) with
`Word` for 2^32; `Reset`, `Feed` and `Complete` are the three functions. The sender and the
link are external: a message is cut into numbered frames, sent and resent, lost, repeated,
reordered, and frames of an earlier message may still arrive after the next `reset`. The
bitmap is the set of marked numbers. Which of its two answers a repeated piece gets is left
out: both leave the receiver as it was. `late` is a history variable: a frame of another
message fitted and was stored. Nothing in a frame tells its message, so the receiver cannot
prevent that, and `DeliveredIsSent` says what holds otherwise.

### Line — `vl_line_t`

One action per outcome of a push: `PushEnd`, `PushDropped`, `PushOverflows`, `PushStore`, each
on what `len0` and `buf0` leave of a line that was handed up. The buffer is kept cell by cell.
`input` is the call last made, with a bit that tells it from the same call made again. `LineReader` has the
same variable: it is a function of the calls, without a choice, so that a byte that is lost, changed or kept
too long is a step that it does not have.

### Storage — the storage callbacks of POSIX, RP2040 and ESP32

`board` says which platform this is. `media` is what a load sees, `after` the set of contents a
power failure may leave. A load is one step, with a fault chosen from those its medium has; a store is
as many steps as there are points at which power may fail: `PosixOpen` (truncates) and `PosixWrite`
or `PosixWriteFails`; `SectorErase` (the record was read first) and `SectorProgram` or
`SectorProgramFails`, or `SectorSame` when the mark is there already; `NvsSet` and `NvsCommit` or
`NvsCommitFails`; `StoreFails` when nothing was touched. The caller is `vl_verify()` as far as the mark
goes: `least` is what it has learnt from a load, without which it stores none. `ProcessDies` and
`PowerFails` come between any two steps.

What is assumed of the media, all of it marked external: nothing in the code calls `fsync`, so a POSIX
write is durable only once the kernel has written it back (`PosixFlush`), and the truncation and the
write may be lost or kept separately; erasing flash sets bits and programming clears them, so a number
interrupted on the way is at least the number it was on the way to or from (`Damaged`); an NVS entry is replaced as a whole.
On RP2040 the stock HAL has no clock, and the mark is used by a product that supplies one.

Abstractions: a mark is a number, of which those in `Trimmed` end, on POSIX, in a byte that
`read_text_file()` takes for white space; a text is a model value; `Part` is some of its bytes, `Empty` none,
`Absent` no file, no entry or no record. One call of `vl_verify()` runs at a time (`least`); `Verify` has the calls that overlap.
The history variables say what the storage owes: `acked` and `settled` the value of each slot's last
store, if it answered OK, and once it is on the medium; `floor` the last mark that reached the medium. Nothing the medium does takes it
back. Where the code loses it, the history says so, and the properties name the case: `torn` are the slots that an RP2040 store
which was broken off left with something else, and `forgot` says that the mark was last loaded as less than what was stored, after which
a smaller one may be stored.

### Base32, LineText — the codec and the canonical spelling

`DecodeChar` and `EncodeByte` are the bodies of the two loops, which `Loop` runs over a text or a payload, at the
code's widths of 5 and 8 bits; `Decode` and `Encode` add the checks around them, of lengths and of the caller's room. The bit
buffer is a word that counts modulo `WordSize`, any multiple of 2^12, since no more than the low 12 bits are ever read.
`FoldChar` and `Canonical` are the fold in `License::_apply()`. What the decoder should yield is said without a
buffer: `Spelled(text)` is the digits a text spells, and `Spells(text, bytes)` holds when those digits in base 32
and the bytes in base 256 are the same number up to the padding; `Decodable` says when there is one. A character is a
name ("sp", "nl"), and all errors are `Failed`, the `-1` of both. `LineText` has the two properties, of the
string that a receiver of the line reads, which ends at the first NUL.

### Hash — the streaming half of SHA-256 and SHA-512

A context is the code's: buffer, fill, count of bytes. In the place of the chaining value it remembers what was
compressed (`blocks`), which is what the chaining value is for a function without
collisions. `HashUpdate` tops up a started block, passes whole blocks, keeps the rest;
`HashFinal` appends the mark, zeros and length, over one block or two, and what earlier blocks
left in the buffer is still there to go wrong. `BlockLen` and `LengthLen` are 64 and 8, or 128 and 16, or small.

### Identity, Fingerprint — the segments of every HAL and their hash

`Segment(board, hw, iface, idx)` is `read_id_segment()` of the HAL, given the hardware it finds: Linux and
macOS, ESP32, RP2040, STM32, NXP, the bare-metal example, `hal/none` and `ported`, a HAL that a
vendor wrote and that answers anything. `Fingerprint` runs `vl_compute_fingerprint()` an iteration at a time: `Begin`,
`ReadSegment` (the callback and `TakeSegment`, the rest of the body), `Return`. Between any two,
`HardwareChanges` may pull a cable, start a container or silence a bus, and `Restart` ends the
process, which forgets `iface`, the interface that the POSIX HAL chose. `message`, `known` and
`clean` are history variables.

Abstractions: an id is two words of two bytes and a text one or two bytes; `dummy0` is an
interface whose address is zeros, `tun0` one without, and names stand for the classes the scores
tell apart. A length is a byte, since `SegMax` is at most 255.

### Gate — the bare-metal example

`Line(t)` is `gate_uart_rx()` with a whole line, an interrupt: it preempts the main program between the two
readings of `gate_allows()` (`AllowsStatus`, `AllowsFeature`), and is not preempted. `Save` is the store that
follows, `GateInit` the verification at boot, `Mint` the vendor issuing a licence for the id that was shown,
`PowerCycle` a failure at any point. `Verdict` is `vl_verify()` on a board without
clock and mark; it compares what was hashed in the place of digests, which `HashesItsSegments` justifies.
A text longer than the storage (`grouped`) loads back cut or not at all, since the two board functions are the vendor's.

### Product — the ESP32 sketch

`at` is the next call of `setup()` or `loop()`: `Setup`, then `Pump`, `Portal`, `Card`, `Console`, `Gate` again and
again, without those whose sibling is not installed. The portal's form (`PostForm`) and the console
(`Command`) are served by another task between any two; the paste card (`PasteCard`) comes from
`VectiDash.tick()` at the end of a pass. The clock is unset until `ClockSet`, windows open and close
(`TimePasses`), and `Reset` keeps the NVS, VectiNet's parameter and perhaps the clock. `setup()` may find an NVS that
does not initialise and erase it (`Erases`), and `begin()` an entry that does not read (`Begins`). A text that is
too long is refused, as is one that finds the slot taken (`Taken`).

Abstractions: a call of the licence object is one step, since `Bridge` and the run `bridge_race` are
about what happens inside; a verdict other than OK, BAD_FORMAT and PLATFORM is `REFUSED`; VectiOTA is
taken to accept every kind of update after a reset, until the gate says otherwise. `credit` and `gated` are history variables:
`credit` counts the texts the slot or the portal took and the key that is left after a boot, less the texts that were judged.

## 3. The runs

| Run | Instance | Shows |
|---|---|---|
| `verify_one` | one task, five images, fourteen texts, clock 0..3 | type, `CheckedIsHonest`, `RefusalExplained`, `MarkCoversGrants`, `MarkNeverFalls`, `MarkIsEarned`, every call returns, and the pipeline implements `LicenceService` |
| `rollback_seen` | one task, one text | a violation: see findings |
| `mark_race` | two tasks | a violation: see findings |
| `bridge_one` | one submitting task, two licences | type, `InForceMatchesBlob`, `StoredIsIssued`, `ReportedOkIsDurable`, `NoOverwriteUnderPump`, `SubmissionAnswered`, and the object implements `ActivationSlot` |
| `bridge_race` | the loop task and another submit | a violation: see findings |
| `chunk` | buffer of 5, words of 3 bits, two messages in a row | type, `WritesInside`, `CompleteMeansCovered`, `DeliveredIsSent`, `ArmedAsSent`, `MessageHandedUp`, and the receiver implements `Reassembly` |
| `storage` | three platforms, marks 1..3 of which 2 is trimmed, two blobs | type, `AckedIsRead`, `MarkFailsClosed`, `StrandedStays` |
| `open_fails` | the two platforms whose loads open something | a violation: see findings |
| `line` | ten characters, a limit of four, every stream | type, the reader implements `LineReader`, `DecodesTheBits`, `OneSpelling` |
| `device` | nine boards, two units, every hardware their HAL tells apart, one change | `HashesItsSegments`, `UnitsApart`, `SteadyIdentity`, `CallAnswers`, `AllowsIsTruthful`, `ComesBack` |
| `product` | four sketches, two licences, junk, a text too long, three pastes | `UpdatesFollowVerdict`, `NoWriteUnasked`, `CardCatchesUp`, `QueuedIsJudged` |
| `line_nul` | as `line` | a violation: see findings |

**Bounds, and why they are enough.** The texts of `MCVerify` are a genuine licence and
thirteen others, each one field away from it, plus one that is both revoked and foreign, so each
refusal and one conflict of order occur. The images differ in what decides the path:
deny-list, clock, flags, missing callbacks; one lists a `key_id` twice. Clock values 0..3
with the window 1..2 have an instant before, at both ends and after. With two tasks (`mark_race`), one image with
everything on suffices, because the tasks meet only in the mark; three instants let it be
overtaken. Two licences in `MCBridge` are one in force and another replacing it; a third
adds no new relation. In `MCChunk` the messages have 5 and 4 bytes, so that one chunk size (2)
divides one length and not the other and a late frame may fit or not; an empty message and one
of 6 are refused; sizes 0, 8 and 9 are zero, truncate to zero and truncate to 1, and 6
exceeds the length. Buffer capacities are one too small and one large enough. `MaxMessages = 2`
is the bound on how many messages begin; a third meets only what the second met. In `MCStorage` three marks are one below, one above and a trimmed one
between them; two blobs are the one stored and the one replacing it, beside the empty one; nothing
bounds the number of stores, faults or failures. In `MCLine` four characters carry two bytes with
four bits of padding and two carry one with two, so that both paddings, a byte boundary inside a character, and
every capacity and expected length up to two occur; two digits tell an old cell from a new
one. In `MCDevice` a block of 5 and a segment of at most 4 bytes let a segment end before, at and
after a block and the length fit or not behind the mark; `CountMax = 3` is met by boards with three
segments, by lists of two with an end, and passed by one without. `MaxChanges = 1` is the bound on how often
the hardware changes; each hardware is also an initial one, so a change is one from any to any, at any point
of a call, before or after a restart. `MCProduct` has every sibling, none, and the two sketches whose
pass ends in another call; `MaxPastes = 3` are a text in force, one waiting and one that comes too late.

**Fairness.** `Verify`: `vl_hal_t` callbacks "must not block indefinitely"
(`vectilicense.h:120`), so each call is weakly fair. `Bridge`: the Arduino core calls `loop()` for
ever and `loop()` always calls `pump()`; other work of the sketch (`Activate`, `Clear`) may come
in between each time, so `Pump` is strongly fair and the other steps of the loop task weakly;
a task inside `submit()` is scheduled again. Resets are not prevented: `SubmissionAnswered`
allows for one. `Chunk`: the sender retransmits (weak fairness of `Send`), a frame sent again
and again arrives once (strong fairness of delivery), the caller polls with a large enough
buffer. `Product`: the core calls `loop()` for ever, so the
loop task's next call is weakly fair, and so `pump()` is reached; the other tasks owe nothing.
`Gate`: the interrupt ends (weak fairness of `Save`), and the call that computes a fingerprint goes on whenever
no interrupt runs, which is again and again (strong fairness). `CallAnswers` allows for a restart. `Line` and `Storage`
have no liveness property.

**Deadlock** is checked in every run; no run disables it.

## 4. Findings

Five runs show a statement of a document or comment that the code does not keep.

1. `rollback_seen`: an expired licence is refused before the mark is advanced, so that reading of
   the clock is forgotten; with the clock set back the same licence is granted. What holds is
   `MarkCoversGrants`: no grant is below an earlier grant.
2. `mark_race`: two overlapping calls, which `docs/API.md` allows with atomic callbacks, can
   make the "monotonic" mark fall.
3. `bridge_race`: with two submitting tasks, which "from any task" allows and the example
   sketch has, a text is copied over the buffer that `pump()` is reading.
4. `line_nul`: a received NUL is stored, and the C string handed up is shorter than `l->len`.
5. `open_fails`: `docs/PORTING.md` asks a callback for "a real error ... rather than a plausible value"; on POSIX and ESP32
   a mark that does not open, for whatever reason, loads as OK and 0.

**Seen while modelling.** Behaviour of the code that a reader may not expect:

- The console says "verifying on the next loop()" and `licenseSerialLoop()` reports what it pumps;
  in the sketch `loop()` has nearly always pumped before it, so the console stays silent.
- After one licence replaces another (OK to OK) the card keeps the old summary and the pasted key, which the comment at
  `vl_bridge_dash.h:110` wants gone.
- On RP2040 a power failure while the blob is stored may cost the mark, and the other way round: both are in the sector
  that is being erased, and an empty sector reads as a device that never had either.
- Two HALs fail open (finding 5): the device then grants below its mark, and the next grant overwrites the mark with a smaller one.
- The portal remembers a key also when the slot was taken, and does not offer it again; after a reboot it
  submits the key it still has over a licence that came later by another route.
- `license status` prints from the AsyncTCP task while `pump()` rewrites what it reads, and
  `deviceId()` fills its cache in place.
- A cold boot before SNTP leaves a licensed device unlicensed until the next boot with a clock.
- A mistyped line takes the gate's licence out of force until the next boot; a good one in groups
  outgrows the storage asked for. The comment in `gate_uart_rx()` names `gate_activate()`, which does not exist.
- `vl_base32_encode()` refuses more than 512 bytes because that "would exceed what the decoder will ever accept
  back" (`core/vl_base32.c:67-68`), but the decoder takes 1024 characters, which are 640 bytes: a payload in between is
  read and cannot be spelled again. No line is that long (`VL_LINE_MAX_LEN` is 200 characters, 125 bytes), which
  is what `LineFitsAssumption` says.
- Writing the serial page of the gate after licensing it changes its fingerprint. On Linux, so does a failed
  open of `/proc/cpuinfo`, of the machine-id or of the product UUID, and an interface of a
  better score at the next start; a pinned interface is not asked for a meaningful address.

## 5. The proofs

All are safety properties of `Spec`, for all values of the constants under the assumptions named
in the modules. Each goes from an inductive invariant; the named property alone is seldom
inductive, because it does not say how far each task has come.

- **`VerifyProofs`.** `PipelineInv` says what a call has established at each callback: no
  header failure, no device failure, no window failure, which bits are set. From it follow (by `ChecksListed` and `GrantsBacked`:
  every bit that is set is backed by its check)
  `CheckedIsHonestAlways` and `MarkIsEarnedAlways` for any number of tasks. For the mark, the
  proofs add `StoreRaises` (a call about to store is about to raise the mark), which holds
  with one task only: `MarkCoversGrantsAlways` and `MarkNeverFallsAlways` assume `OneTask`, and the run
  `mark_race` shows that they need it.
  `RefusalExplainedAlways` rests on the order of the checks: one lemma for each group (`HeaderBlamesNothing`, `DeviceBlamesGenuine`,
  `WindowBlamesGenuine`) says which refusals it can end in, that the check named fails, and what has passed by then; with `PipelineInv` that gives the property for any number of
  overlapping calls. `RollbackBelowMark`, with one task, compares a rollback with the mark. The theorem needs `BlameAssumption`: a HAL that cannot read its identity does not
  answer with a verdict of `vl_verify()`, whose error is passed on as it is. The HALs in the repository do not.
  `Implementation`: under `OneTask` every step of the pipeline is a step of `LicenceService` or a stutter.
- **`BridgeProofs`.** `BridgeInv` is the conjunction of `SlotInv` (a set flag excludes a task
  inside `submit()`; `pump()` holds the flag until it frees the slot), `ApplyInv` (both readings see the
  same licence), `ReportInv` and the properties themselves. `BridgeTypeCorrect` holds for any
  number of submitting tasks; the rest assumes `OneSubmitter`, and `bridge_race` shows why.
  `SlotImplementation` is the refinement of `ActivationSlot`.
- **`ChunkProofs`.** `ChunkInv` fixes the sizes as those `reset` accepted and `have` as the number of
  marked pieces. Lemmas about multiplication and division give that pieces lie inside the
  message, are disjoint and cover it. With an invariant about the frames in the air and one about the
  buffer's content they give `DeliveredIsSentAlways`. `ImplementsReassemblyAlways` is the refinement, one lemma
  for each kind of step: the bytes under the pieces in the bitmap are the bytes received, so a piece
  that is stored adds its own positions and changes no other. No assumption beyond the module's.
- **`StorageProofs`.** `StorageInv` is `TypeOK` with `OpInv` (which platform is in which step, and that
  the value on its way is a legal one), `MediumInv` (what a load sees is among what a failure may leave, only
  POSIX can hold a mark cut short, a sector nobody is writing is certain, and only RP2040 is ever torn), `SettledInv` (a settled value
  was acknowledged, and on files and entries is in everything a failure may leave), `AckedInv` (an acknowledged value is there, or in the
  record about to be programmed, or its slot is torn), `LeastInv` (unless a load forgot, no store is below `floor` or
  below what was acknowledged, which rests on the load that `vl_verify()` makes first) and `FloorInv` (no mark a failure may leave is below
  `floor`, or the sector is torn). `MarkFailsClosed` speaks of `media` alone and is not inductive
  without `after`. The four theorems assume only what the module assumes of its constants. The exceptions they name
  are the code's: the run `open_fails` shows one, and the RP2040 one is in every trace in which power fails between erase and program.
- **`HashProofs`.** `HasAbsorbed(ctx, message)`: what was compressed is whole blocks, and with the buffer it
  is the message. `UpdateAbsorbs` says that a call keeps it for the message and what is
  added, `FinalPads` that the last blocks are the padding; both for every block size. `PaddingIsUnique`: no two
  messages have the same padded blocks, so that whatever is the hash of one message is the hash of no other. The recursion of the
  message into calls needs no induction: each step of `Fingerprint` cites them once.
- **`DeviceProofs`.** `CallInv` (the context of a running call has absorbed `message`) gives
  `FingerprintIsOfItsSegments`, for every HAL that keeps `AnswerAssumption`: OK means that the bytes it
  says were written. `LicenceInv` (no licence without an OK) gives `GateAllowsTruthfully`. `KeptInv` (what
  is saved, or about to be, is what was verified on the hardware noted with it) gives `LicenceComesBack`.
  `UnitsStayApart` comes from `UnitInv`: a call that has read its first segments (two on Linux, which skips one that fails)
  has the unit's number at a place that depends on the board only, whatever changed under the call. `IdentityIsSteady`
  comes from `SteadyInv`: while `clean` holds, a call has read what the board tells now (`Reads`), and the
  fingerprint that is known is one the board would show now (`Shows`). The heart of it is `PickOfOrder`: the choice of an
  interface depends only on the names a machine has by itself and on their order, so that containers and tunnels cannot change it.
  `HardwareAssumption` is what these need of the hardware: the system lists each interface of a Linux machine once, and an
  ESP32 reads its fuse MAC or says that it cannot (`esp_efuse_mac_get_default()` returns an error; the HAL does not look for blank fuses).
  `CountAssumption` asks for two segments at least; `VL_ID_SEGMENT_COUNT_MAX` is 64.
- **`ProductProofs`.** `PassOrder`: every pass of `loop()` in a sketch with VectiOTA ends in the gate. With it `GateInv` (a licence is
  in force only with the verdict OK, and before the first pass there is none) gives `UpdatesFollowVerdictAlways`. `CreditInv` counts
  the writes still to come, one for a text that waits and one for a key the portal has not offered, and says that each has
  been asked for: `NoWriteUnaskedAlways`.
- **`LineProofs`.** `LineInv`, then type correctness and `LineImplementation`, the refinement of
  `LineReader`. The codec's part is about every text of every length. What holds along a loop is shown in steps from 0
  (`InSteps`, below). The invariant of the decoder is `Decoded`: the bytes and the leftover bits are, as a number, the digits read
  so far, up to the bits the word has lost, which are never read; `Hopeless` is the other outcome. `DecodeIsRight` is the
  contract of `vl_base32_decode()`; `EncodeIsRight` that of the encoder, whose characters have the value of the bytes up to the
  padding. `NumberIsUnique` (as many digits of one base with one value are the same digits) and `CanonicalIs` (the fold yields the
  letters of the digits spelled) give `SpelledOnce`. `TextIsRead` brings them to a line: what a receiver reads ends inside the
  buffer, because the character after a line is NUL. They assume `WordAssumption`
  (the word keeps 12 bits; the code's keeps 32) and, for the encoder, `LineFitsAssumption`.

**Induction.** The library's induction theorems take an operator as a parameter and cannot be used with the provers at hand. A set
takes its place: `InSteps` says that a set with 0 and every successor of its numbers has every number, and follows from the
well-foundedness of `<`, which the library states for a relation.

**Only model-checked.** Liveness under fairness: `CallReturns`, `SubmissionAnswered`, `MessageHandedUp`, `CallAnswers`,
`CardCatchesUp` and `QueuedIsJudged`; it and everything with ENABLED is out of the prover's reach. Every safety property
of a passing run is a theorem. The bridge's and the mark's theorems are about one task, because with two they are false. No module declares a
RECURSIVE operator.

## 6. What is not modelled, and the plan

**Not modelled.**

- Ed25519 and the compression functions of the hashes: arithmetic that published vectors test better.
  `Verify` takes the ideal signature, `Hash` a digest without collisions.
- Constant time and wiping: TLA+ has no words for them.
- `vl_encode_device_id()`, `posture()`, the `deviceId()` cache, status strings and what the console, the cards and
  the portal print: conversions and reads without state that a property here speaks of. The race on
  the cache is listed as a hazard.
- `examples/posix/vl_activate.c`: a sequential command over the segments in `Identity` and the callbacks in `Storage`.
- `tools/vl_mint.py`: an offline command. What it issues is the genuine licence of `Verify` and the
  minted text of `Gate`.
- In the HALs: the POSIX clock, building of paths, parsing of `/proc/cpuinfo` and of IOKit's answers, the checks of
  the arguments and of the buffer's capacity in the storage callbacks, and the ESP32's posture.
- Order of memory accesses other than program order (hazard at `vl_bridge.h:153`).
- Packaging, build files and tests.

**The plan.**

1. *Done:* `Verify`, `Bridge`, `Chunk`, `Line` with their abstract specifications, runs and proofs.
2. *Done:* `Storage`, with its run and proofs.
3. *Done:* the ESP32 product, `Product`.
4. *Done:* the bare-metal gate, `Gate`.
5. *Done:* the functions: `Base32`, `Hash`, `Identity` and `Fingerprint`.
6. *Done:* a theorem for every safety property of a passing run.
7. *Left:* the two refinements and the theorems of `Bridge` that assume one task, for the overlaps that do no harm (two tasks of which only one
   submits at a time).

## 7. Running it

    tlasany Verify.tla
    tlc -config verify_one.cfg MCVerify.tla
    tlapm VerifyProofs.tla
