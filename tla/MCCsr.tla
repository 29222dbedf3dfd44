--------------------------------- MODULE MCCsr ---------------------------------
EXTENDS CsrProps

MCModelCsrs == <<
    <<\h001, "fflags">>, <<\h008, "vstart">>, <<\h015, "seed">>,
    <<\h105, "stvec">>, <<\h14d, "stimecmp">>, <<\h15d, "stimecmph">>,
    <<\h300, "mstatus">>, <<\h301, "misa">>, <<\h302, "medeleg">>,
    <<\h305, "mtvec">>, <<\h30a, "menvcfg">>, <<\h310, "mstatush">>,
    <<\h312, "medelegh">>, <<\h31a, "menvcfgh">>, <<\h321, "mcyclecfg">>,
    <<\h322, "minstretcfg">>, <<\h324, "mhpmevent4">>, <<\h3a1, "pmpcfg1">>,
    <<\h721, "mcyclecfgh">>,
    <<\h722, "minstretcfgh">>, <<\h747, "mseccfg">>, <<\h757, "mseccfgh">>,
    <<\hb00, "mcycle">>, <<\hb04, "mhpmcounter4">>, <<\hb80, "mcycleh">>,
    <<\hc00, "cycle">>, <<\hc04, "hpmcounter4">>, <<\hc20, "vl">>,
    <<\hc80, "cycleh">>, <<\hf11, "mvendorid">>>>
MCCounterBank == {"mhpmevent4", "mhpmcounter4", "hpmcounter4", "cycle", "cycleh"}
MCHighHalf == [menvcfgh |-> "menvcfg", medelegh |-> "medeleg", mstatush |-> "mstatus",
               mseccfgh |-> "mseccfg", mcyclecfgh |-> "mcyclecfg",
               minstretcfgh |-> "minstretcfg", henvcfgh |-> "henvcfg",
               stimecmph |-> "stimecmp", mcycleh |-> "mcycle", cycleh |-> "cycle"]
MCNeedsIsa == [fflags |-> "f_d", vstart |-> "v", vl |-> "v", stimecmph |-> "sstc"]
MCFilters == {{}, {"mcycle", "menvcfgh", "misa", "mvendorid", "satp"}}
MCHarts == {"conforming", "read_only_writable", "high_half_exists", "writes_dropped"}
MCUngeneratable == {"seed", "henvcfgh", "pmpcfg0"}
(* findings.md C1; C2 and extension-coverage-tracker.md:53; csrs.csv; A2.  *)
MCRestless == {"mcycle", "minstret", "mip", "time"}
MCLegalised == {"satp", "scountovf"}
MCRv32Only == {"pmpcfg1"}
MCSpikeResets == {"pmpaddr0"}
=============================================================================
