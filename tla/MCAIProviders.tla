---------------------------- MODULE MCAIProviders ----------------------------
(***************************************************************************)
(* Instances of AIProviders for TLC.                                       *)
(***************************************************************************)
EXTENDS AIProviders, TLC

CONSTANTS p1, p2, m1, c1, c2, s1, s2, k1, k2, k3, i1, i2, i3

(* k1 and k2 share a rendering: equal first and last characters.           *)
MCMask == (k1 :> "m12") @@ (k2 :> "m12") @@ (k3 :> "m3")

Values(s, l) == ("shown" :> s) @@ ("context_limit" :> l)
Preset(s, l) == [m \in Models |-> [declared |-> TRUE, spec |-> Values(s, l)]]
NoPreset == [m \in Models |-> [declared |-> FALSE, spec |-> Values(s1, s1)]]

Entry(k, e, key, ms) ==
    [declared |-> TRUE, kind |-> k, enabled |-> e, conf |-> c1, settings |-> c1,
     key |-> key, models |-> ms]
Undeclared == [Entry("keyed", FALSE, NoKey, NoPreset) EXCEPT !.declared = FALSE]

Row(e, c, keys) ==
    [up |-> TRUE, gen |-> 1, type |-> "other", enabled |-> e, conf |-> c,
     settings |-> c, keys |-> keys]
(* A provider deleted earlier: its presets may still be there.             *)
NoRow == [Row(FALSE, c1, {}) EXCEPT !.up = FALSE]

PresetRow(p, s, l) ==
    [st |-> "up", prov |-> p, gen |-> 1, model |-> m1, spec |-> Values(s, l)]
FreeRow == [PresetRow(p1, s1, s1) EXCEPT !.st = "free", !.gen = 0]

(* p1 keyed with a preset beside: p2 on Bedrock, p2 undeclared.  One of    *)
(* the files does not give the context limit of p1's preset.               *)
MCFiles ==
    {(p1 :> Entry("keyed", TRUE, k1, Preset(s1, s1)))
        @@ (p2 :> Entry("bedrock", TRUE, NoKey, Preset(s1, s1))),
     (p1 :> Entry("keyed", TRUE, k1, Preset(s1, NotGiven))) @@ (p2 :> Undeclared)}

MCLiveInits ==
    {(p1 :> r) @@ (p2 :> q) :
        r \in {NoRow, Row(FALSE, c2, {k3}), Row(TRUE, c1, {k2})},
        q \in {NoRow, Row(TRUE, c2, {k3})}}

(* i1 may be p1's preset, in step with the file or not.                    *)
MCPresetInits ==
    {(i1 :> r) @@ [i \in PresetIds \ {i1} |-> FreeRow] :
        r \in {FreeRow, PresetRow(p1, s2, s1), PresetRow(p1, s1, s2)}}

(* Every way an entry can authenticate, its key present or missing, and    *)
(* presets the create path cannot complete.                                *)
MCFilesAuth ==
    {(p1 :> e) @@ (p2 :> Undeclared) :
        e \in {Entry(k, b, key, ms) :
                  k \in Kinds, b \in BOOLEAN, key \in {k1, NoKey},
                  ms \in {Preset(s1, s1), Preset(s1, NotGiven)}}}
MCFilesListed == MCFiles \cup MCFilesAuth
=============================================================================
