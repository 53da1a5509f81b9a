--------------------------- MODULE MCConfigReload ---------------------------
(* Instances of ConfigReload for TLC. *)
EXTENDS ConfigReload

CONSTANTS r1, r2, g1, g2, o1, o2, x, y

\* Two hosts; the second form of the devices file moves host 1 to both groups.
Dev(gs, i) == [groups |-> gs, opts |-> [poll_interval |-> i]]
Raw(n, dot) == [oid |-> n, dot |-> dot]
Obj(syn) == [index |-> <<>>, attrs |-> [a |-> [oid |-> Raw(1, TRUE), syntax |-> syn]]]
Table(k) == [kind |-> k, values |-> 0]

MCContents ==
    [devices       |-> {1 :> Dev(<<g1>>, 0), 1 :> Dev(<<g2, g1>>, 5) @@ 2 :> Dev(<<g1>>, 0)},
     device_groups |-> {g1 :> <<o1>> @@ g2 :> <<o2, o1>>},
     object_groups |-> {o1 :> <<x>> @@ o2 :> <<y, x>>, o2 :> <<x>>},
     objects       |-> {x :> Obj("EnumBitmap"), x :> Obj("EnumInteger") @@ y :> Obj("Gauge32")},
     enums         |-> {Raw(1, FALSE) :> Table("ints") @@ Raw(2, TRUE) :> Table("label"),
                        Raw(1, TRUE) :> Table("mixed")}]
MCSlots == [s \in Sections |-> IF s = "devices" THEN 2 ELSE 1]
MCDisk ==
    [devices       |-> <<1 :> Dev(<<g1>>, 0), NoFile>>,
     device_groups |-> <<g1 :> <<o1>> @@ g2 :> <<o2, o1>> >>,
     object_groups |-> <<o1 :> <<x>> @@ o2 :> <<y, x>> >>,
     objects       |-> <<x :> Obj("EnumBitmap")>>,
     enums         |-> <<Raw(1, FALSE) :> Table("ints") @@ Raw(2, TRUE) :> Table("label")>>]

Interchangeable == Permutations(Reloaders)
=============================================================================
