---------------------------- MODULE MCDiscovery ----------------------------
\* Values of Discovery's constants for TLC: drives with and without DMA, TCG,
\* protocol resets, a TPM and old ATA versions; with one SSC, two and none, with
\* and without a locking feature, and with padding behind the last descriptor.
EXTENDS Discovery

Feat(code, len, value, admins, users) ==
    [code |-> code, at |-> Header, len |-> len, value |-> value, admins |-> admins, users |-> users,
     locked |-> FALSE]

Tper     == Feat("tper", 12, 0, 0, 0)
Lock     == Feat("lock", 12, 0, 0, 0)
Geo      == Feat("geo", 28, 8, 0, 0)
Ent      == Feat("enterprise", 16, 4096, 0, 0)
Opal1    == Feat("opal1", 16, 2046, 0, 0)
Opal2    == Feat("opal2", 16, 2044, 4, 9)
Pyrite   == Feat("pyrite", 16, 2048, 1, 2)
Vendor   == Feat("vendor", 4, 0, 0, 0)
Padding  == Feat("reserved", 0, 0, 0, 0)

FeatureLists ==
    { <<Tper, Lock, Geo, Opal2>>, <<Tper, Lock, Opal1, Opal2, Vendor>>, <<Tper, Lock, Opal1>>,
      <<Lock, Pyrite, Padding, Padding>>, <<Ent, Lock>>, <<Opal2, Tper>>, << >> }

\* The descriptors laid out one after another.
Start(features, i) ==
    FoldFunctionOnSet(LAMBDA f, n : n + 4 + f.len, Header, features, 1..(i - 1))

Disk(w80, w48, dma, protos, features) ==
    [word80 |-> w80, word48 |-> w48, dma |-> dma, protos |-> protos,
     total |-> Start(features, Len(features) + 1),
     features |-> [i \in DOMAIN features |-> [features[i] EXCEPT !.at = Start(features, i)]]]

MCDisks ==
    {Disk(256, 1, dma, <<0, 1, 2>>, f) : dma \in BOOLEAN, f \in FeatureLists}
      \cup {Disk(w80, w48, TRUE, p, <<Tper, Lock, Opal2>>) :
              w80 \in {0, 16, 512}, w48 \in {0, 1, 2}, p \in {<<0, 1>>, <<0>>}}
      \cup {Disk(256, 1, FALSE, <<0, 1>>, <<Tper, Lock, Opal2>>)}

MCGarbage ==
    { Disk(0, 0, FALSE, << >>, << >>),
      Disk(512, 1, FALSE, <<0, 1, 2>>, <<[Lock EXCEPT !.locked = TRUE], Opal1>>),
      Disk(0, 0, FALSE, <<1, 1, 1, 1, 1, 1, 1>>, << >>) }
=============================================================================
