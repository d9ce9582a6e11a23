--------------------------- MODULE LicenceService ---------------------------
(***************************************************************************)
(* What a caller of vl_verify() is promised, with no pipeline in it: every *)
(* call is answered; it is answered "granted" only for a text its holder   *)
(* is entitled to run, on this image and at an instant that is never       *)
(* earlier than that of a previous grant under ENFORCE_HWM.                *)
(* include/vectilicense/vectilicense.h:231: "VL_OK only when every         *)
(* applicable check passed".                                               *)
(***************************************************************************)
EXTENDS Naturals, Sequences

CONSTANTS Tasks, Images, Blobs, ThisDevice, MaxTime, None

VARIABLES
  image,   \* the running firmware image
  asked,   \* the text each task asked about
  answer,  \* "none", "pending", "granted" or "refused"
  floor    \* the latest instant of a grant under ENFORCE_HWM

svars == <<image, asked, answer, floor>>

(* The holder of b is entitled to image i at instant n: one of the image's *)
(* keys signed it under its own key_id, for this family and this device;   *)
(* it is not revoked; and the clock, if there is one, is in its window.    *)
Entitled(i, b, n) ==
  /\ b.shape = "well_formed"
  /\ b.family = i.family
  /\ \E k \in DOMAIN i.keys : /\ i.keys[k].key_id = b.key_id
                              /\ i.keys[k].key = b.signer
  /\ b.device_id = ThisDevice
  /\ b.serial \notin i.revoked
  /\ "now_epoch" \in i.hal =>
       /\ b.not_before = 0 \/ n >= b.not_before
       /\ b.not_after = 0 \/ n <= b.not_after
  /\ "REQUIRE_CLOCK" \in i.flags => "now_epoch" \in i.hal

Init ==
  /\ image \in Images
  /\ asked = [t \in Tasks |-> None]
  /\ answer = [t \in Tasks |-> "none"]
  /\ floor = 0

(* A question, which may be refused on the spot.                           *)
Ask(t, b) ==
  /\ answer[t] # "pending"
  /\ asked' = [asked EXCEPT ![t] = b]
  /\ \E a \in {"pending", "refused"} : answer' = [answer EXCEPT ![t] = a]
  /\ UNCHANGED <<image, floor>>

Grant(t) ==
  /\ answer[t] = "pending"
  /\ answer' = [answer EXCEPT ![t] = "granted"]
  /\ \E n \in 0..MaxTime :
       /\ Entitled(image, asked[t], n)
       /\ IF "ENFORCE_HWM" \in image.flags
            THEN n >= floor /\ floor' = n
            ELSE UNCHANGED floor
  /\ UNCHANGED <<image, asked>>

Refuse(t) ==
  /\ answer[t] = "pending"
  /\ answer' = [answer EXCEPT ![t] = "refused"]
  /\ UNCHANGED <<image, asked, floor>>

Restart ==
  /\ image' \in Images
  /\ asked' = [t \in Tasks |-> None]
  /\ answer' = [t \in Tasks |-> "none"]
  /\ UNCHANGED floor

Next ==
  \/ \E t \in Tasks : Grant(t) \/ Refuse(t) \/ \E b \in Blobs : Ask(t, b)
  \/ Restart

Spec == Init /\ [][Next]_svars
=============================================================================
