---------------------------- MODULE MCPublisher -----------------------------
(* The small instance of Publisher for TLC, num = 1 with audio and video.  *)
(* The program asks for as many audio publications as video ones, unless   *)
(* it is told to leave one kind out.                                       *)
EXTENDS Publisher

CONSTANTS a1, v1

OneAudio == {a1}
OneVideo == {v1}
=============================================================================
