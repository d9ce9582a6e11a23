------------------------------ MODULE MCVerify ------------------------------
(* Small instances of Verify: five images and fourteen texts, each text    *)
(* one step away from a licence that is genuine on this device.            *)
EXTENDS Verify

CONSTANTS v1, v2, rogue,       \* signing keys: two vendor keys and a stranger's
          here, elsewhere      \* device fingerprints

MCThisDevice == here
MCIdErrors   == {"PLATFORM", "BUFFER_TOO_SMALL"}

KeyEntry(id, k) == [key_id |-> id, key |-> k]

(* The images: rollback protection with a deny-list; the same licence keys *)
(* with no clock; a clock demanded but absent; rollback protection without *)
(* its callbacks.  The first lists key_id 1 twice: the first entry wins.   *)
Full == [keys |-> <<KeyEntry(1, v1), KeyEntry(2, v2), KeyEntry(1, v2)>>,
         family |-> 1, revoked |-> {7}, flags |-> {"ENFORCE_HWM"},
         hal |-> Callbacks]
NoClock == [Full EXCEPT !.revoked = {}, !.flags = {}, !.hal = {"read_id_segment"}]
NeedsClock == [NoClock EXCEPT !.flags = {"REQUIRE_CLOCK"}]
Clocked == [Full EXCEPT !.flags = {"REQUIRE_CLOCK"}, !.keys = <<KeyEntry(2, v2)>>]
HalfWired == [Full EXCEPT !.hal = Callbacks \ {"hwm_store"}]

MCImages == {Full, NoClock, NeedsClock, Clocked, HalfWired}

Good == [shape |-> "well_formed", key_id |-> 1, signer |-> v1, family |-> 1,
         device_id |-> here, serial |-> 3, not_before |-> 1, not_after |-> 2]

MCBlobs == {
  Good,
  [Good EXCEPT !.not_before = 0, !.not_after = 0],
  [Good EXCEPT !.key_id = 2, !.signer = v2],
  [Good EXCEPT !.signer = v2],
  [Good EXCEPT !.signer = rogue],
  [Good EXCEPT !.key_id = 9],
  [Good EXCEPT !.family = 2],
  [Good EXCEPT !.device_id = elsewhere],
  [Good EXCEPT !.serial = 7],
  [Good EXCEPT !.serial = 7, !.device_id = elsewhere],
  [Good EXCEPT !.shape = "null"],
  [Good EXCEPT !.shape = "undecodable"],
  [Good EXCEPT !.shape = "bad_magic"],
  [Good EXCEPT !.shape = "bad_version"]}

(* Only what two tasks can disturb: one image and three texts, one with a  *)
(* window of one instant, one perpetual, one forged.                       *)
MCFullOnly == {Full}
MCShort    == [Good EXCEPT !.not_after = 1]
MCFewBlobs == {MCShort, [Good EXCEPT !.not_before = 0, !.not_after = 0],
               [Good EXCEPT !.signer = rogue]}
MCOneText  == {MCShort}
=============================================================================
