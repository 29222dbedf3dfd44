-------------------------------- MODULE MCCases --------------------------------
(* Three configurations: the shipped one, one with a coarse grain and so   *)
(* without TOR and NA4, no cache operations and its RAM elsewhere, and one *)
(* that has NA4 and not TOR.                                               *)
EXTENDS CaseProps

Shipped == [ram |-> 2 ^ 20, ramPage |-> 524288, grain |-> 0, tor |-> TRUE,
            na4 |-> TRUE, napot |-> TRUE,
            ext |-> {"S", "U", "Sv39", "Sv48", "Sv57", "Svadu", "Zicbop",
                     "Zicbom", "Zicboz", "Sscofpmf"}]
MCConfigs == <<Shipped,
    [Shipped EXCEPT !.ram = 2 ^ 21, !.grain = 1, !.tor = FALSE,
                    !.ext = @ \ {"Sv48", "Sv57", "Zicbop", "Zicboz"}],
    [Shipped EXCEPT !.tor = FALSE]>>

MCPriority == <<"MEI", "MSI", "MTI", "SEI", "SSI", "STI", "LCOFI">>
MCNoDeleg == {"MEI", "MSI", "MTI"}
MCWritable == {"SEI", "SSI", "STI", "LCOFI"}
MCBugs == Aimed
=============================================================================
