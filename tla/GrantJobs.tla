------------------------------- MODULE GrantJobs -------------------------------
(***************************************************************************)
(* Radios, grants and jobs for RuntimeConfig: every radio the generator can  *)
(* write, the full-band grant, and what differs from them in one   *)
(* field of the grant, one of the radio, or both.                           *)
(***************************************************************************)
EXTENDS RuntimeConfig

\* (Mutant: three antennas are said to carry three layers.)
EveryRank(tx, rx) == {rank \in 1..4 : rank <= tx /\ rank <= rx}

\* Rank 3 takes four ports, so three antennas stop at rank 2.
SupportedRanks(tx, rx) ==
  {rank \in 1..4 : rank <= rx /\ rank <= (IF tx # 3 THEN tx ELSE 2)}

FullDigital(tx, rx) ==
  [architecture |-> "full_digital", tx_antennas |-> tx, tx_rf_chains |-> tx,
   rx_antennas |-> rx, rx_rf_chains |-> rx, supported_ranks |-> SupportedRanks(tx, rx),
   pusch_port_policy |-> "nr_4port", antenna_mapping |-> "semi_unitary_dft",
   max_rx_antennas |-> 64, rx_buckets |-> {8, 16, 32, 64}, storage_layers |-> 16,
   rx_capacity_adapter |-> "zero_pad_signal_repeat_noise"]

\* The grant of common/pusch_grants/full_band.json.
FullBand ==
  [rank |-> 4, slot_number |-> 0, rnti |-> 12345, data_scrambling_id |-> 321,
   codeword_index |-> 0, qm |-> 8, num_symbols |-> 14, start_symbol |-> 0,
   fft_size |-> 2048, num_rb |-> 133, rb_start |-> 0, used_subcarriers |-> 1596,
   padded_subcarriers |-> 1664, data_re_alignment |-> 64, qam_row_alignment |-> 64,
   dmrs_symbols |-> {2, 11}, ports |-> << >>, dmrs_scrambling_id |-> 321, type |-> 1,
   length |-> 1, additional_position |-> 0, mapping_type |-> 0, num_cdm_groups |-> 2,
   n_scid |-> 0, mode |-> "auto", tpmi |-> Absent, prg_size_rb |-> 4,
   gain |-> "normal", awgn |-> "normal"]

Job(radio, grant, rank, capabilities, executable, runRank) ==
  [radio |-> radio, grant |-> grant, rank |-> rank, capabilities |-> capabilities,
   executable |-> executable, run_rank |-> runRank]

-----------------------------------------------------------------------------
\* One field of the grant: values at the edges of what some stage accepts, and
\* values that are accepted everywhere but mean something else.
OtherGrants ==
  {[FullBand EXCEPT !.rank = v] : v \in {0, 1, 5}}
    \union {[FullBand EXCEPT !.slot_number = v] : v \in {1023, 1024}}
    \union {[FullBand EXCEPT !.rnti = v] : v \in {0, 65535, 65536}}
    \union {[FullBand EXCEPT !.data_scrambling_id = v] : v \in {1023, 1024}}
    \union {[FullBand EXCEPT !.dmrs_scrambling_id = v] : v \in {65535, 65536}}
    \union {[FullBand EXCEPT !.codeword_index = v] : v \in {1, 2}}
    \union {[FullBand EXCEPT !.qm = v] : v \in {2, 6, 7}}
    \union {[FullBand EXCEPT !.num_symbols = v] : v \in {0, 1, 13}}
    \union {[FullBand EXCEPT !.num_symbols = 13, !.start_symbol = v] : v \in {1, 2}}
    \union {[FullBand EXCEPT !.fft_size = v] : v \in {1024, 4096, 8192}}
    \union {[FullBand EXCEPT !.num_rb = 132, !.used_subcarriers = v] : v \in {1584, 1596}}
    \union {[FullBand EXCEPT !.rb_start = v] : v \in {1, 142, 143}}
    \union {[FullBand EXCEPT !.padded_subcarriers = v] : v \in {1595, 1600, 2048, 2049}}
    \union {[FullBand EXCEPT !.data_re_alignment = v] : v \in {0, 1, 4096}}
    \union {[FullBand EXCEPT !.qam_row_alignment = v] : v \in {0, 1}}
    \union {[FullBand EXCEPT !.dmrs_symbols = v] :
              v \in {{}, {2}, {2, 10}, {0, 13}, {2, 7, 11}, {2, 14}, 0..13}}
    \union {[FullBand EXCEPT !.ports = v] :
              v \in {<<1000, 1001, 1002, 1003>>, <<1000, 1002>>, <<1003, 1002, 1001, 1000>>}}
    \union {[FullBand EXCEPT !.type = v] : v \in {0, 2, 3, 65536}}
    \union {[FullBand EXCEPT !.length = v] : v \in {0, 2, 3, 65536}}
    \union {[FullBand EXCEPT !.num_cdm_groups = v] : v \in {0, 1, 3, 4, 65536}}
    \union {[FullBand EXCEPT !.additional_position = v] : v \in {3, 4}}
    \union {[FullBand EXCEPT !.mapping_type = v] : v \in {1, 2}}
    \union {[FullBand EXCEPT !.n_scid = v] : v \in {1, 2}}
    \union {[FullBand EXCEPT !.mode = v] : v \in {"bypass", "codebook", "non_codebook", "eigen"}}
    \union {[FullBand EXCEPT !.mode = "codebook", !.tpmi = v] : v \in {0, 5, 65536}}
    \union {[FullBand EXCEPT !.prg_size_rb = v] : v \in {Absent, 0, 133, 276}}
    \union {[FullBand EXCEPT !.gain = v] : v \in {"zero", "tiny", "above"}}
    \union {[FullBand EXCEPT !.awgn = v] : v \in {"negative", "above"}}

\* One field of the radio of 16 by 64 antennas.
Largest == FullDigital(16, 64)
OtherRadios ==
  {[Largest EXCEPT !.architecture = v] : v \in {"hybrid", "analog", "lens"}}
    \union {[Largest EXCEPT !.architecture = "hybrid", !.tx_rf_chains = v] : v \in {0, 2, 4, 17}}
    \union {[Largest EXCEPT !.architecture = "hybrid", !.rx_rf_chains = v] : v \in {0, 3, 64, 65}}
    \union {[Largest EXCEPT !.tx_rf_chains = 8], [Largest EXCEPT !.rx_rf_chains = 8]}
    \union {[Largest EXCEPT !.tx_antennas = v] : v \in {0, 17}}
    \union {[Largest EXCEPT !.rx_antennas = v] : v \in {0, 65}}
    \union {[Largest EXCEPT !.supported_ranks = v] : v \in {{}, {4}, 1..3, 1..5}}
    \union {[Largest EXCEPT !.pusch_port_policy = "identity"]}
    \union {[Largest EXCEPT !.antenna_mapping = v] : v \in {"identity", "random"}}
    \union {[Largest EXCEPT !.max_rx_antennas = v] : v \in {32, 65}}
    \union {[Largest EXCEPT !.rx_buckets = v] : v \in {{}, {32}, {64}, {0, 64}, {64, 65}}}
    \union {[Largest EXCEPT !.storage_layers = 8]}
    \union {[Largest EXCEPT !.rx_capacity_adapter = "none"]}
    \union {[FullDigital(16, 32) EXCEPT !.max_rx_antennas = 32, !.rx_buckets = {32},
                                        !.rx_capacity_adapter = "none"]}

-----------------------------------------------------------------------------
Ranks == {Absent} \union 1..4

\* Every radio of the generator with every rank it supports.
GeneratedJobs ==
  UNION {{Job(FullDigital(tx, rx), FullBand, rank, "require", "contract", rank) :
            rank \in SupportedRanks(tx, rx)} : tx \in 1..16, rx \in 1..64}

\* What only has to be loaded: one deviation, with every rank and every use of
\* the registry, or one of the radio and one of the grant.
ContractJobs ==
  {Job(Largest, grant, rank, use, "contract", 0) :
      grant \in OtherGrants, rank \in Ranks, use \in {"none", "evaluate", "require"}}
    \union {Job(radio, FullBand, rank, use, "contract", 0) :
              radio \in OtherRadios, rank \in Ranks, use \in {"none", "evaluate", "require"}}
    \union {Job(radio, grant, Absent, "evaluate", "contract", 0) :
              radio \in OtherRadios, grant \in OtherGrants}

\* What is run.  The receiver expects rank 4, and a plan need not be eligible.
RxJobs ==
  {Job(Largest, grant, rank, use, "rx_chain", 4) :
      grant \in {g \in OtherGrants \union {FullBand} : g.slot_number = 0},
      rank \in {Absent, 3}, use \in {"evaluate", "require"}}
    \union {Job(radio, FullBand, Absent, "require", "rx_chain", 4) :
              radio \in OtherRadios \union {FullDigital(tx, rx) : tx \in {8, 16}, rx \in {16, 32}}}

TxJobs ==
  {Job(FullDigital(tx, rx), FullBand, rank, "require", "tx_chain", rank) :
      tx \in {1, 2, 4, 16}, rx \in {4, 64}, rank \in 1..4}

\* Every radio the generator can write, of 1..16 by 1..64 antennas, is taken by
\* both compilers, the registry and the loader with every rank it says it
\* supports.
GeneratedRadiosLoad == job \in GeneratedJobs => stage # "refused"
===============================================================================
