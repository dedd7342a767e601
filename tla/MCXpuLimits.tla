---------------------------- MODULE MCXpuLimits ----------------------------
(* XpuLimits with ranges in which four times the smallest limit is just    *)
(* enough to reach the largest one, and ends that are not whole watts;       *)
(* three devices, one of them without a card domain.                       *)
EXTENDS XpuLimits

MCDrivers == <<<<<<"PACKAGE", "CARD", "CARD">>, <<"PACKAGE">>, <<"CARD">>>>, <<>>>>
MCDevIds == {0, 1, 2, 3}
MCMinLimit == [k \in Kinds |-> IF k = "sustained" THEN 3 ELSE 2]
MCMaxLimit == [k \in Kinds |-> IF k = "sustained" THEN 12 ELSE 7]
MCTested == [k \in Kinds |-> IF k = "sustained" THEN {1, 3, 6} ELSE {1, 2, 3}]

=============================================================================
