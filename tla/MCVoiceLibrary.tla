--------------------------- MODULE MCVoiceLibrary ---------------------------
EXTENDS VoiceLibrary, TLC

CONSTANTS a1, a2, Silence

\* A mode called "temp" shares its first segment with the sweeper's branch.
Mode(id, cloning, formats) ==
    [id |-> id, cloning |-> cloning, presets |-> Silence, formats |-> formats]

Engine(version, modes, formats) ==
    [version |-> version, modes |-> modes, cloning |-> Silence, presets |-> Silence,
     formats |-> formats]

Deployments ==
    << Engine(1, <<Mode("plain", Silence, {}), Mode("temp", TRUE, {"wav"})>>, {}),
       Engine(2, <<Mode("plain", Silence, {}), Mode("plain", TRUE, {})>>, {"mp3"}),
       Engine(2, <<Mode("clone", TRUE, {"mp3"})>>, {"wav"}) >>

Same == Permutations({a1, a2})
=============================================================================
