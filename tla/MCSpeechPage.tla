----------------------------- MODULE MCSpeechPage -----------------------------
(* Values of the constants of SpeechPage for TLC. *)
EXTENDS SpeechPage

\* The bound leaves room for audio once the configuration was read; a close frame
\* goes behind it.
ASSUME MaxQueue \in 1..2
=============================================================================
