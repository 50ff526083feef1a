------------------------------ MODULE MCMqttHub ------------------------------
(* Instances of MqttHub for TLC.                                           *)
EXTENDS MqttHub, TLC

CONSTANTS p1, p2, p3
MCPids == {p1, p2, p3}
Symmetry == Permutations(MCPids)
MCTopicsPlay == {"audio_play", "audio_capture"}
MCTopicsAll == {"led", "audio_play", "video_play", "video_capture", "picture",
                "char", "touch", "audio_capture"}
=============================================================================
