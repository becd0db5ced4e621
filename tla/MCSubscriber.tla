---------------------------- MODULE MCSubscriber ----------------------------
(* Small instances of Subscriber for TLC.                                  *)
EXTENDS Subscriber_proofs, TLC

CONSTANTS m1, f1, f2, mix, cam, mic

OneMixed == {m1}
NoMixed == {}
OneForward == {f1}
TwoForward == {f1, f2}

Symmetry == Permutations(TwoForward)

\* The server's mix and one camera.
MixAndCamera == {mix, cam}
MCKind == (mix :> "mixed") @@ (cam :> "forward")

\* The server's mix and a participant without video.
MixAndMic == {mix, mic}
MicKind == (mix :> "mixed") @@ (mic :> "audio")
=============================================================================
