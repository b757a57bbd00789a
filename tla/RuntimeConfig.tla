----------------------------- MODULE RuntimeConfig -----------------------------
(***************************************************************************)
(* The way of a radio profile and a PUSCH grant to a running chain.          *)
(* common/mimo_config_compiler.py merges the two, mimo_profile_compiler.py   *)
(* plans the merged profile, measures the plan against the registry of       *)
(* installed operators and packs it into a file of 192 bytes; the chain      *)
(* loads the file (common/pusch_mimo_runtime_config.cpp), derives the        *)
(* operators' configuration from it, and every operator checks that once     *)
(* more for itself, some of them only when the slots are already computed.   *)
(* Each stage was written on its own and refuses what it does not like.      *)
(*                                                                         *)
(* Names, hashes and the order of JSON arrays are left out: an array that    *)
(* must be increasing is a set, a symbol mask is the set of its bits.  So    *)
(* are a chain without a profile (it takes the constants of the legacy       *)
(* configuration), the transmitter's --cell-id and --rnti, and the compiler  *)
(* of an already merged profile, which is compile_profile by itself.         *)
(***************************************************************************)
EXTENDS Integers, Sequences, FiniteSets

CONSTANT Jobs   (* what is asked for: radio, grant, rank (the override, or  *)
                (* Absent), capabilities (none, evaluate, require), the     *)
                (* executable (rx_chain, tx_chain, or contract, the test    *)
                (* that only loads) and the rank it expects, 0 for any      *)

Absent == -1    (* an optional field that is not given                      *)

VARIABLES
  job,
  stage,     (* what the job has come to                                    *)
  refusal,   (* the stage it was refused in, "none" if it was not           *)
  plan,      (* the resolved plan, << >> before there is one                *)
  config     (* the runtime configuration, << >> before it is packed        *)

configVars == <<job, stage, refusal, plan, config>>

Radio == job.radio
Grant == job.grant

UInt16 == 0..65535

-----------------------------------------------------------------------------
\* STANDARD_PORTS and STANDARD_DMRS_PORTS.
StandardPorts(rank) == IF rank = 3 THEN 4 ELSE rank
StandardDmrsPorts(rank) ==
  IF rank = 2 THEN <<1000, 1002>> ELSE [n \in 1..rank |-> 999 + n]

\* The rank, and what "auto" and the optional precoding fields stand for.
Rank == IF job.rank # Absent THEN job.rank ELSE Grant.rank
Mode == IF Grant.mode # "auto" THEN Grant.mode
        ELSE IF Rank = 3 THEN "codebook" ELSE "bypass"
Tpmi == IF Grant.tpmi # Absent THEN Grant.tpmi ELSE IF Rank = 3 THEN 6 ELSE 0
PrgSize == IF Grant.prg_size_rb # Absent THEN Grant.prg_size_rb ELSE Grant.num_rb

\* _validate_and_merge: what the merger refuses of the radio ...
RadioMerges ==
  /\ Radio.supported_ranks # {} /\ Radio.supported_ranks \subseteq 1..4
  /\ Radio.pusch_port_policy = "nr_4port"
  /\ Radio.antenna_mapping \in {"identity", "semi_unitary_dft"}
  /\ Radio.storage_layers = 16
  /\ Radio.rx_buckets # {} /\ Radio.rx_buckets \subseteq 1..64
  /\ Radio.max_rx_antennas \in 1..64 /\ Radio.max_rx_antennas >= Radio.rx_antennas

\* ... of the resources the grant allocates ...
AllocationMerges ==
  /\ Grant.rank \in 1..4 /\ Rank \in Radio.supported_ranks
  /\ Grant.num_symbols \in 1..14 /\ Grant.start_symbol \in 0..13
  /\ Grant.start_symbol + Grant.num_symbols <= 14
  /\ Grant.dmrs_symbols # {}
  /\ \A s \in Grant.dmrs_symbols :
       s \in 0..13 /\ s >= Grant.start_symbol /\ s < Grant.start_symbol + Grant.num_symbols
  /\ Grant.ports \in {<< >>, StandardDmrsPorts(Rank)}     (* << >> for "auto" *)
  /\ Grant.mode \in {"auto", "bypass", "codebook", "non_codebook"}
  /\ Tpmi \in UInt16 /\ PrgSize \in 1..275

\* ... and of its scheduler fields and its loopback channel.
SchedulerMerges ==
  /\ Grant.gain \in {"tiny", "normal"} /\ Grant.awgn = "normal"
  /\ Grant.slot_number \in 0..1023 /\ Grant.rnti \in UInt16 \ {0}
  /\ Grant.data_scrambling_id \in 0..1023 /\ Grant.dmrs_scrambling_id \in UInt16
  /\ Grant.codeword_index \in 0..1 /\ Grant.additional_position \in 0..3
  /\ Grant.mapping_type \in 0..1 /\ Grant.n_scid \in 0..1

-----------------------------------------------------------------------------
\* compile_profile: topology and spatial layers.  Every rank the radio supports
\* must have its ports, not only the active one.
SpatialCompiles ==
  /\ Radio.architecture \in {"full_digital", "hybrid", "analog"}
  /\ Radio.tx_antennas \in 1..16 /\ Radio.tx_rf_chains \in 1..Radio.tx_antennas
  /\ Radio.rx_antennas \in 1..64 /\ Radio.rx_rf_chains \in 1..Radio.rx_antennas
  /\ Radio.architecture = "full_digital" =>
       Radio.tx_rf_chains = Radio.tx_antennas /\ Radio.rx_rf_chains = Radio.rx_antennas
  /\ Rank <= Radio.tx_rf_chains /\ Rank <= Radio.rx_rf_chains
  /\ \A n \in Radio.supported_ranks : StandardPorts(n) <= Radio.tx_rf_chains
  /\ Mode = "bypass" => StandardPorts(Rank) = Rank

\* compile_profile: waveform, DMRS symbols counted from the first of the slot.
WaveformCompiles ==
  /\ Grant.qm \in {2, 4, 6, 8} /\ Grant.fft_size \in 128..4096
  /\ Grant.num_rb \in 1..275 /\ Grant.rb_start \in 0..274
  /\ Grant.rb_start + Grant.num_rb <= 275
  /\ Grant.used_subcarriers = Grant.num_rb * 12
  /\ Grant.used_subcarriers <= Grant.padded_subcarriers
  /\ Grant.padded_subcarriers <= Grant.fft_size
  /\ \A s \in Grant.dmrs_symbols : s < Grant.num_symbols
  /\ Grant.data_re_alignment \in 1..4096 /\ Grant.qam_row_alignment \in 1..4096

\* compile_profile: receiver capacity.
ReceiverCompiles ==
  /\ Radio.rx_antennas <= Radio.max_rx_antennas
  /\ Radio.rx_buckets \subseteq 1..Radio.max_rx_antennas
  /\ \E b \in Radio.rx_buckets : b >= Radio.rx_antennas

AlignUp(value, alignment) == ((value + alignment - 1) \div alignment) * alignment

SmallestBucket(value, buckets) ==
  CHOOSE b \in buckets : b >= value /\ \A c \in buckets : c >= value => b <= c

DataRe == (Grant.num_symbols - Cardinality(Grant.dmrs_symbols)) * Grant.used_subcarriers

\* compile_profile: the plan.  A bypassed precoder has no entry of its own.
Plan ==
  LET bucket == SmallestBucket(Radio.rx_antennas, Radio.rx_buckets)
      layers == SmallestBucket(Rank, {1, 2, 4})
  IN [data_re     |-> DataRe,
      data_stride |-> AlignUp(DataRe, Grant.data_re_alignment),
      row_stride  |-> AlignUp(Grant.used_subcarriers, Grant.qam_row_alignment),
      tpmi        |-> IF Mode = "bypass" THEN 0 ELSE Tpmi,
      prg_size_rb |-> IF Mode = "bypass" THEN Grant.num_rb ELSE PrgSize,
      rx_bucket   |-> bucket,
      layer_bucket |-> layers,
      adapter_required |-> \/ Radio.rx_capacity_adapter # "none"
                           \/ bucket # Radio.rx_antennas \/ layers # Rank,
      eligibility |-> "not_evaluated"]

-----------------------------------------------------------------------------
\* mimo_operator_capabilities.json: the builds of the receiver, best first.
Variants ==
  << [ranks |-> {4}, rx_bucket |-> 16, bri_block |-> 2],
     [ranks |-> 1..4, rx_bucket |-> 64, bri_block |-> 8] >>

StorageLayers == 16

\* evaluate_capabilities, variants: what the registry asks of a plan and the
\* evaluator of a build.
Matches(v) ==
  /\ Rank \in v.ranks /\ Radio.rx_antennas <= v.rx_bucket
  /\ Radio.max_rx_antennas = 64 /\ v.rx_bucket <= Radio.max_rx_antennas
  /\ Grant.num_symbols = 14
  /\ Grant.used_subcarriers = 1596 /\ Grant.padded_subcarriers = 1664
  /\ v.rx_bucket >= 8 * (IF v.bri_block < Rank THEN v.bri_block ELSE Rank)
  /\ 2 * v.bri_block >= Rank

Matching == {n \in DOMAIN Variants : Matches(Variants[n])}

\* (Mutant: operators are not asked.)
AllOperatorsPass == TRUE

\* evaluate_capabilities, operators: the union of what they ask.
OperatorsPass ==
  /\ Radio.architecture = "full_digital"
  /\ Radio.tx_antennas <= 16 /\ Radio.rx_antennas <= 64 /\ Radio.max_rx_antennas = 64
  /\ Radio.antenna_mapping = "semi_unitary_dft"
  /\ StandardPorts(Rank) \in {1, 2, 4} /\ Mode \in {"bypass", "codebook"}
  /\ Grant.qm = 8 /\ Grant.fft_size = 2048 /\ Grant.num_symbols = 14
  /\ Cardinality(Grant.dmrs_symbols) = 2
  /\ Grant.used_subcarriers = 1596 /\ Grant.padded_subcarriers = 1664
  /\ plan.data_stride = 19200

\* (Mutant: the flag of the smallest bucket is kept.)
WithVariantSameAdapter(v) ==
  [plan EXCEPT !.rx_bucket = v.rx_bucket, !.layer_bucket = StorageLayers]

\* The selected build decides the capacities, and whether they need padding.
WithVariant(v) ==
  [plan EXCEPT !.rx_bucket = v.rx_bucket, !.layer_bucket = StorageLayers,
               !.adapter_required = v.rx_bucket # Radio.rx_antennas \/ StorageLayers # Rank]

Evaluated ==
  IF Matching = {} THEN [plan EXCEPT !.eligibility = "ineligible"]
  ELSE LET first == CHOOSE n \in Matching : \A m \in Matching : n <= m
       IN [WithVariant(Variants[first]) EXCEPT
             !.eligibility = IF OperatorsPass THEN "eligible" ELSE "ineligible"]

-----------------------------------------------------------------------------
\* to_runtime_config.  A gain below the smallest float32 becomes zero.
RuntimeConfig ==
  [radio |-> Radio, grant |-> Grant, plan |-> plan,
   rank |-> Rank, num_tx_ports |-> StandardPorts(Rank), max_layers |-> 4, mode |-> Mode,
   dmrs_ports |-> StandardDmrsPorts(Rank),
   gain |-> IF Grant.gain = "tiny" THEN "zero" ELSE Grant.gain]

\* struct.pack takes nothing wider than its field; nobody has checked these.
Packs ==
  /\ Grant.type \in UInt16 /\ Grant.length \in UInt16 /\ Grant.num_cdm_groups \in UInt16

\* ValidateMimoRuntimeConfig: topology, layers and capacities ...
SpatialValid(c) ==
  LET r == c.radio p == c.plan
  IN /\ r.architecture \in {"full_digital", "hybrid", "analog"}
     /\ r.tx_antennas \in 1..16 /\ r.tx_rf_chains \in 1..r.tx_antennas
     /\ r.rx_antennas \in 1..64 /\ r.rx_rf_chains \in 1..r.rx_antennas
     /\ r.architecture = "full_digital" =>
          r.tx_rf_chains = r.tx_antennas /\ r.rx_rf_chains = r.rx_antennas
     /\ c.rank \in 1..4 /\ c.rank <= r.tx_rf_chains /\ c.rank <= r.rx_rf_chains
     /\ c.num_tx_ports \in c.rank..4 /\ c.num_tx_ports <= r.tx_rf_chains
     /\ r.max_rx_antennas \in r.rx_antennas..64 /\ c.max_layers \in c.rank..4
     /\ p.rx_bucket \in r.rx_antennas..r.max_rx_antennas
     /\ p.layer_bucket \in c.rank..StorageLayers
     /\ p.adapter_required \/ (r.rx_antennas = p.rx_bucket /\ c.rank = p.layer_bucket)
     /\ c.mode = "bypass" => c.num_tx_ports = c.rank

\* ... waveform and DMRS ...
WaveformValid(c) ==
  LET g == c.grant
  IN /\ g.qm \in {2, 4, 6, 8} /\ g.num_symbols \in 1..14 /\ g.fft_size \in 128..4096
     /\ g.num_rb \in 1..275 /\ g.rb_start + g.num_rb <= 275
     /\ g.used_subcarriers = g.num_rb * 12
     /\ g.used_subcarriers <= g.padded_subcarriers /\ g.padded_subcarriers <= g.fft_size
     /\ Cardinality(g.dmrs_symbols) \in 1..(g.num_symbols - 1)
     /\ Len(c.dmrs_ports) = c.rank
     /\ \A i, j \in DOMAIN c.dmrs_ports : i # j => c.dmrs_ports[i] # c.dmrs_ports[j]
     /\ g.type \in {1, 2} /\ g.length \in {1, 2} /\ g.num_cdm_groups \in 1..3 /\ g.n_scid <= 1

\* ... scheduler, channel and the sizes of tensors.
DynamicValid(c) ==
  LET g == c.grant p == c.plan
  IN /\ g.slot_number <= 1023 /\ g.data_scrambling_id <= 1023 /\ g.rnti # 0
     /\ g.start_symbol <= 13 /\ g.num_symbols # 0 /\ g.start_symbol + g.num_symbols <= 14
     /\ g.additional_position <= 3 /\ g.mapping_type <= 1 /\ g.codeword_index <= 1
     /\ c.gain = "normal" /\ g.awgn = "normal"
     /\ p.data_re = (g.num_symbols - Cardinality(g.dmrs_symbols)) * g.used_subcarriers
     /\ p.data_stride >= p.data_re /\ p.row_stride >= g.used_subcarriers

\* LoadMimoRuntimeConfigFromEnv.
Loads ==
  /\ SpatialValid(config) /\ WaveformValid(config) /\ DynamicValid(config)
  /\ job.run_rank # 0 => config.rank = job.run_rank

-----------------------------------------------------------------------------
\* LoadConfig of the receiver: it runs one shape.
RxShape ==
  /\ config.radio.tx_antennas = 16 /\ config.radio.rx_antennas = 64
  /\ config.plan.rx_bucket = 64 /\ config.plan.layer_bucket = 16 /\ config.rank = 4
  /\ config.grant.num_symbols = 14
  /\ config.grant.used_subcarriers = 1596 /\ config.grant.padded_subcarriers = 1664

\* ResolveConfig of the transmitter.
TxShape ==
  /\ config.grant.qm = 8 /\ config.grant.num_symbols = 14 /\ config.grant.fft_size = 2048
  /\ config.grant.used_subcarriers = 1596 /\ config.grant.padded_subcarriers = 1664
  /\ Cardinality(config.grant.dmrs_symbols) = 2

\* DerivePuschMimoConfig: what operators see, with the capacity of theirs for
\* the number of receive antennas.
Capacity == IF job.executable = "rx_chain" THEN 64 ELSE config.radio.max_rx_antennas
Derived ==
  [rank |-> config.rank, num_tx_ports |-> config.num_tx_ports, num_rx |-> Capacity,
   codebook |-> IF config.mode = "codebook" THEN 1 ELSE 0,
   dmrs_ports |-> config.dmrs_ports, grant |-> config.grant]
Derives == Capacity >= config.radio.rx_antennas /\ Capacity <= 64

\* The antenna configuration of the transmitter: ports take the place of layers
\* and antennas that of ports, which NR numbers 1, 2 and 4.
AntennaConfig ==
  [Derived EXCEPT !.rank = config.num_tx_ports, !.num_tx_ports = config.radio.tx_antennas,
                  !.codebook = 2]

\* What operators' ValidateConfig have in common.
BandKnown(c) ==
  LET g == c.grant
  IN /\ g.qm = 8 /\ g.num_symbols = 14 /\ g.fft_size = 2048 /\ g.num_rb = 133
     /\ g.rb_start = 0 /\ g.start_symbol = 0
     /\ g.used_subcarriers = 1596 /\ g.padded_subcarriers = 1664
PortsKnown(c) == c.num_tx_ports \in {1, 2, 4} /\ c.num_tx_ports >= c.rank /\ c.rank \in 1..4
DmrsKnown(c) ==
  LET g == c.grant
  IN /\ g.type = 1 /\ g.length = 1 /\ g.num_cdm_groups = 2 /\ g.n_scid <= 1 /\ g.codeword_index = 0
StandardMask(c) == c.grant.dmrs_symbols = {2, 11}
TwoSymbols(c) == Cardinality(c.grant.dmrs_symbols) = 2 /\ \A s \in c.grant.dmrs_symbols : s < 14
DmrsPortsKnown(c) ==
  \A i \in 1..c.rank :
    /\ c.dmrs_ports[i] \in 1000..1003
    /\ \A j \in 1..(i - 1) : c.dmrs_ports[i] # c.dmrs_ports[j]

\* The receiver's operators, asked before the first slot ...
ReDemap(c)   == BandKnown(c) /\ c.rank \in 1..4 /\ c.num_rx \in 1..64 /\ StandardMask(c)
\* (two ports at most on each comb, which four distinct ones always are)
DmrsLs(c) ==
  /\ c.rank \in 1..4 /\ c.num_tx_ports >= c.rank /\ c.num_rx = 64 /\ c.grant.num_symbols = 14
  /\ c.grant.used_subcarriers = 1596 /\ c.grant.padded_subcarriers = 1664
  /\ c.grant.type = 1 /\ TwoSymbols(c) /\ DmrsPortsKnown(c)
IoPack(c) ==
  BandKnown(c) /\ PortsKnown(c) /\ c.num_rx = 64 /\ c.rank = 4 /\ c.num_tx_ports = 4
QamDemod(c) ==
  BandKnown(c) /\ PortsKnown(c) /\ c.num_rx \in 1..64 /\ StandardMask(c) /\ DmrsKnown(c)
LayerDemap(c) ==
  BandKnown(c) /\ PortsKnown(c) /\ c.num_rx \in 1..64 /\ TwoSymbols(c) /\ DmrsKnown(c)

\* ... in every slot, and when all slots are computed.
DmrsGen(c) ==
  /\ BandKnown(c) /\ PortsKnown(c) /\ c.num_rx = 64
  /\ DmrsKnown(c) /\ TwoSymbols(c) /\ DmrsPortsKnown(c)
RateDematch(c) ==
  BandKnown(c) /\ PortsKnown(c) /\ c.num_rx = 64 /\ StandardMask(c) /\ DmrsKnown(c)
Descramble(c) == RateDematch(c) /\ c.grant.data_scrambling_id <= 1023

\* The transmitter's, asked before the first slot.
RateMatch(c) == RateDematch(c)
Scramble(c)  == Descramble(c)
QamMod(c)    == DmrsGen(c)
LayerMap(c)  == DmrsGen(c)
GridMap(c)   == DmrsGen(c)
ReMap(c) ==
  /\ BandKnown(c) /\ PortsKnown(c) /\ c.num_rx = 64 /\ DmrsKnown(c) /\ TwoSymbols(c)
  /\ c.codebook <= 1
  /\ c.codebook = 0 => c.num_tx_ports = c.rank

\* (Mutant: the demodulator is asked when it is first used.)
RxPreparesLazily == ReDemap(Derived) /\ DmrsLs(Derived) /\ IoPack(Derived)

\* Run: what the receiver builds before its loop.
RxPrepares ==
  /\ ReDemap(Derived) /\ DmrsLs(Derived) /\ IoPack(Derived)
  /\ QamDemod(Derived) /\ LayerDemap(Derived)

\* RunImpl: what the transmitter builds before its loop.
TxPrepares ==
  /\ RateMatch(Derived) /\ Scramble(Derived) /\ QamMod(Derived) /\ LayerMap(Derived)
  /\ GridMap(Derived) /\ ReMap(AntennaConfig)

-----------------------------------------------------------------------------
ConfigInit ==
  /\ job \in Jobs
  /\ stage = "authored" /\ refusal = "none"
  /\ plan = << >> /\ config = << >>

\* Go on from one stage to the next, or stop there.
Step(from, to, condition) ==
  /\ stage = from
  /\ \/ condition /\ stage' = to /\ UNCHANGED refusal
     \/ ~condition /\ stage' = "refused" /\ refusal' = from
  /\ UNCHANGED job

\* _validate_and_merge.
Merge ==
  /\ Step("authored", "merged", RadioMerges /\ AllocationMerges /\ SchedulerMerges)
  /\ UNCHANGED <<plan, config>>

\* compile_profile.
Compile ==
  /\ Step("merged", "compiled", SpatialCompiles /\ WaveformCompiles /\ ReceiverCompiles)
  /\ plan' = IF stage' = "refused" THEN plan ELSE Plan
  /\ UNCHANGED config

\* compile_config and main: the registry is optional, and so is to obey it.
Evaluate ==
  /\ Step("compiled", "evaluated",
          job.capabilities = "require" => Evaluated.eligibility = "eligible")
  /\ plan' = IF job.capabilities = "none" THEN plan ELSE Evaluated
  /\ UNCHANGED config

\* to_runtime_config.
Pack ==
  /\ Step("evaluated", "packed", Packs)
  /\ config' = IF stage' = "refused" THEN config ELSE RuntimeConfig
  /\ UNCHANGED plan

Load == Step("packed", "loaded", Loads) /\ UNCHANGED <<plan, config>>

\* LoadConfig, ResolveConfig.
Resolve ==
  /\ job.executable # "contract"
  /\ Step("loaded", "resolved",
          (IF job.executable = "rx_chain" THEN RxShape ELSE TxShape) /\ Derives)
  /\ UNCHANGED <<plan, config>>

Prepare ==
  /\ Step("resolved", "prepared",
          IF job.executable = "rx_chain" THEN RxPrepares ELSE TxPrepares)
  /\ UNCHANGED <<plan, config>>

\* The first slot comes to its DMRS, and later to the decoder.  Between them the
\* estimator asks in every slot whether the weight file was made for these layers
\* and their pilots (ce::ValidateOpArgs): there is no such file here, nor check.
EnterSlots ==
  /\ job.executable = "rx_chain"
  /\ Step("prepared", "slots", DmrsGen(Derived))
  /\ UNCHANGED <<plan, config>>

StartDecoder ==
  /\ Step("slots", "decoder", Descramble(Derived) /\ RateDematch(Derived))
  /\ UNCHANGED <<plan, config>>

ConfigNext ==
  \/ Merge \/ Compile \/ Evaluate \/ Pack \/ Load \/ Resolve
  \/ Prepare \/ EnterSlots \/ StartDecoder

ConfigSpec == ConfigInit /\ [][ConfigNext]_configVars

-----------------------------------------------------------------------------
\* What only the loader checks: the rank the caller expects, and fields the two
\* compilers copy without a look or, like the gain, change after it.
OnlyLoaderChecks ==
  \/ job.run_rank # 0 /\ Rank # job.run_rank
  \/ Grant.type \notin {1, 2} \/ Grant.length \notin {1, 2} \/ Grant.num_cdm_groups \notin 1..3
  \/ Cardinality(Grant.dmrs_symbols) = Grant.num_symbols
  \/ Grant.gain = "tiny"

\* A merged, compiled and perhaps evaluated profile is refused by the C++ loader
\* for one of these reasons or not at all, although the validators of the two
\* languages share no code and each repeats the other's limits.
LoaderTakesWhatCompiled == refusal = "packed" => OnlyLoaderChecks

Eligible == plan # << >> /\ plan.eligibility = "eligible"

\* What the registry does not ask although the receiver's operators do.
Unregistered ==
  \/ Grant.rb_start # 0 \/ Grant.dmrs_symbols # {2, 11}
  \/ Grant.type # 1 \/ Grant.length # 1 \/ Grant.num_cdm_groups # 2
  \/ Grant.codeword_index # 0

\* A plan the registry calls eligible and the receiver's one shape is refused by
\* none of its operators, but for these fields.
RegisteredIsExecutable ==
  /\ job.executable = "rx_chain" /\ refusal \in {"resolved", "prepared", "slots"}
  /\ Eligible
  => Unregistered

\* A plan the registry calls eligible, with a grant every operator knows, is
\* executed by the transmitter: what run.sh --require-eligible stands for.
EligibleRuns ==
  job.executable = "tx_chain" /\ Eligible /\ ~Unregistered => stage # "refused"

\* Whatever an operator would refuse is found before the first slot is computed:
\* the later checks of the DMRS generator and of the decoder never fail.
NothingRefusedLate == refusal \notin {"prepared", "slots"}
===============================================================================
