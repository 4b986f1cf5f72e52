-------------------------- MODULE MCVoicePresence --------------------------
(* One user signs in twice, the other once and watches or talks. *)
EXTENDS VoicePresence, TLC

CONSTANTS ann, bob

MCUsers == {ann, bob}
MCMaxSignIns == (ann :> 2) @@ (bob :> 1)
=============================================================================
