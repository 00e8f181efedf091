---------------------------- MODULE MCDeployment ----------------------------
(* An instance of Deployment for TLC. *)
EXTENDS Deployment

CONSTANTS s1, w1, q1, q2

OneOfEach == [q \in Request |-> IF q = q1 THEN "upload" ELSE "delete"]

Preset(label, pixels) == [label |-> label, pixels |-> pixels]

Config(presets, upload, delete) ==
    [presets |-> presets,
     delays |-> [op \in Operation |-> IF op = "upload" THEN upload ELSE delete]]

\* The default presets with a retry for uploads and a delay of zero for deletes;
\* a delay that does not fit; and a duplicate label.
SomeConfigs ==
    { Config(<<>>, <<1>>, <<0>>),
      Config(<<Preset(64, 64)>>, <<MaxTTL + 1>>, <<>>),
      Config(<<Preset(64, 64), Preset(64, 32)>>, <<1>>, <<>>) }

==============================================================================
