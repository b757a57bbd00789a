------------------------------ MODULE MCKernels ------------------------------
(* The kernels with small instances of their data. *)
EXTENDS KernelEvents, FecKernels, MimoKernels, SyncKernels, CubeKernels, MatrixKernels,
        SearchKernels, TLC

FecPrograms ==
  (<<"rate_match_siso", 1>>   :> RateMatchSiso(10, {2, 5, 9}, {2, 5})) @@
  (<<"rate_dematch_siso", 1>> :> RateDematchSiso(4, 2)) @@
  (<<"rate_dematch_siso", 2>> :> RateDematchSiso(1, 0)) @@
  (<<"scramble_siso", 1>>     :> ScrambleSiso(4)) @@
  (<<"scramble_siso", 2>>     :> ScrambleSiso(0)) @@
  (<<"descramble_siso", 1>>   :> DescrambleSiso(4)) @@
  (<<"scramble_mimo", 1>>     :> ScrambleMimo(2, 2)) @@
  (<<"descramble_mimo", 1>>   :> DescrambleMimo(TRUE, 2, 2)) @@
  (<<"descramble_mimo", 2>>   :> DescrambleMimo(FALSE, 2, 2)) @@
  (<<"rate_match_mimo", 1>>   :> RateMatchMimo(5, {1, 3})) @@
  (<<"rate_dematch_mimo", 1>> :> RateDematchMimo(2, 2, FALSE)) @@
  (<<"rate_dematch_mimo", 2>> :> RateDematchMimo(1, 2, TRUE)) @@
  (<<"ldpc_encode", 1>>       :> LdpcEncode(2)) @@
  (<<"ldpc_decode", 1>>       :> LdpcDecode(2, 4, 3))

MapPrograms ==
  (<<"merge_dmrs", 1>>        :> MergeDmrs) @@
  (<<"llr_assemble", 1>>      :> LlrAssemble(3)) @@
  (<<"re_map", 1>>            :> ReMap(4)) @@
  (<<"re_demap", 1>>          :> ReDemap(4)) @@
  (<<"re_demap_batch", 1>>    :> ReDemapBatch(3)) @@
  (<<"re_demap_batch", 2>>    :> ReDemapBatch(0)) @@
  (<<"mimo_data_extract", 1>> :> MimoDataExtract(TRUE, 2, 2)) @@
  (<<"mimo_data_extract", 2>> :> MimoDataExtract(FALSE, 2, 2)) @@
  (<<"layer_map", 1>>         :> LayerMap(TRUE, 1, 3)) @@
  (<<"layer_map", 2>>         :> LayerMap(TRUE, 2, 3)) @@
  (<<"layer_demap", 1>>       :> LayerDemap(TRUE, 2, 2, 2)) @@
  (<<"qam256_mod", 1>>        :> Qam256Mod(3, TRUE)) @@
  (<<"qam256_mod", 2>>        :> Qam256Mod(3, FALSE)) @@
  (<<"qam256_mod_mimo", 1>>   :> Qam256ModMimo(TRUE, TRUE, 3)) @@
  (<<"qam256_mod_mimo", 2>>   :> Qam256ModMimo(TRUE, FALSE, 0)) @@
  (<<"qam256_demod", 1>>      :> Qam256Demod) @@
  (<<"qam256_demod_batch", 1>> :> Qam256DemodBatch(2))

MimoPrograms ==
  (<<"mimo_dmrs_gen", 1>>     :> MimoDmrsGen(TRUE, TRUE, TRUE, TRUE, TRUE, 1)) @@
  (<<"mimo_dmrs_gen", 2>>     :> MimoDmrsGen(TRUE, FALSE, TRUE, FALSE, TRUE, 0)) @@
  (<<"mimo_dmrs_gen", 3>>     :> MimoDmrsGen(TRUE, TRUE, TRUE, TRUE, FALSE, 3)) @@
  (<<"mimo_dmrs_gen", 4>>     :> MimoDmrsGen(TRUE, TRUE, FALSE, TRUE, TRUE, 1)) @@
  (<<"codebook_precode", 1>>  :> CodebookPrecode(TRUE, 2, 2)) @@
  (<<"codebook_precode", 2>>  :> CodebookPrecode(FALSE, 2, 2)) @@
  (<<"resource_grid_map", 1>> :> ResourceGridMap(TRUE, 3)) @@
  (<<"mimo_dmrs_ls", 1>>      :> MimoDmrsLs(TRUE, TRUE, 2, 3)) @@
  (<<"mimo_dmrs_ls", 2>>      :> MimoDmrsLs(TRUE, FALSE, 2, 1)) @@
  (<<"pack_ce", 1>>           :> PackCe(TRUE, 2)) @@
  (<<"pack_natural", 1>>      :> PackNatural(2)) @@
  (<<"pad_layers", 1>>        :> PadLayers(3)) @@
  (<<"equalize_zf", 1>>       :> EqualizeZf) @@
  (<<"detect_io_pack", 1>>    :> DetectIoPack(TRUE, TRUE, 2, 2, 2)) @@
  (<<"detect_io_pack", 2>>    :> DetectIoPack(TRUE, FALSE, 2, 2, 4))

SyncPrograms ==
  (<<"win_slice", 1>>         :> WinSlice(3)) @@
  (<<"dmrs_gen_siso", 1>>     :> DmrsGen) @@
  (<<"cfo_compensate", 1>>    :> CfoCompensate(4)) @@
  (<<"interpolate", 1>>       :> Interpolate(3)) @@
  (<<"decimate", 1>>          :> Decimate(3)) @@
  (<<"cfo_dmrs", 1>>          :> CfoDmrs) @@
  (<<"cfo_estimate", 1>>      :> CfoEstimate(2, 1)) @@
  (<<"cfo_estimate", 2>>      :> CfoEstimate(3, 0))

OfdmPrograms ==
  (<<"ofdm_demod", 1>>        :> OfdmDemodSiso(2, 1)) @@
  (<<"ofdm_demod_batch", 1>>  :> OfdmDemodBatch(2, 2, 1)) @@
  (<<"ofdm_mod", 1>>          :> OfdmModSiso(2, 1)) @@
  (<<"ofdm_mod_batch", 1>>    :> OfdmModBatch(2, 2, 1))

MatrixPrograms ==
  (<<"channel_est_ls", 1>>    :> ChannelEstLs(3, TRUE)) @@
  (<<"channel_est_ls", 2>>    :> ChannelEstLs(2, FALSE)) @@
  (<<"channel_est_lmmse", 1>> :> ChannelEstLmmse("AndTime", 2, 1, 1, 1)) @@
  (<<"channel_est_lmmse", 2>> :> ChannelEstLmmse("AndTimePlain", 1, 2, 1, 2)) @@
  (<<"channel_est_lmmse", 3>> :> ChannelEstLmmse("CubeTimePost", 1, 2, 2, 1)) @@
  (<<"channel_est_lmmse", 4>> :> ChannelEstLmmse("CubeTimeFused", 1, 1, 2, 1)) @@
  (<<"mimo_detect_bri", 1>>   :> MimoDetectBri(TRUE, 1, 4, 2, 2, 1)) @@
  (<<"mimo_detect_bri", 2>>   :> MimoDetectBri(FALSE, 2, 2, 2, 1, 1)) @@
  (<<"precode_zf", 1>>        :> PrecodeZf(FALSE, 1, 3, 3, 2, 2)) @@
  (<<"precode_zf", 2>>        :> PrecodeZf(TRUE, 2, 2, 2, 2, 1))

SearchPrograms ==
  (<<"pss_correlator", 1>>    :> PssCorrelator(1, 2, 1, 1)) @@
  (<<"pss_acquisition", 1>>   :> PssAcquisition(2, 1, 2, {0})) @@
  (<<"pss_cfo_estimator", 1>> :> PssCfoEstimator(FALSE)) @@
  (<<"pss_cfo_estimator", 2>> :> PssCfoEstimator(TRUE)) @@
  (<<"sss_correlator", 1>>    :> SssCorrelator(1, 1, 1)) @@
  (<<"sss_correlator", 2>>    :> SssCorrelator(2, 0, 0)) @@
  (<<"ssb_fft", 1>>           :> SsbFft(1, 1)) @@
  (<<"pbch_dmrs_correlator", 1>> :> PbchDmrsCorrelator) @@
  (<<"timing_tracker", 1>>    :> TimingTracker(2, 1))

AllPrograms ==
  FecPrograms @@ MapPrograms @@ MimoPrograms @@ SyncPrograms @@
  OfdmPrograms @@ MatrixPrograms @@ SearchPrograms

MCPrograms == LET texts == AllPrograms IN texts

Breaks(property, name, variants, buffers) ==
  {property} \X ({name} \X variants) \X buffers

(* Every exception is a hazard of its own, explained in README. *)
MCExceptions ==
  Breaks("ScalarReadsArrive", "scramble_siso", {1, 2}, {"nslot"})
  \union Breaks("ScalarReadsArrive", "descramble_siso", {1}, {"nslot"})
  \union Breaks("OperandsArrive", "ldpc_decode", {1}, Parts("prev_gm", 4))
  \union Breaks("TilesNotOverwritten", "ldpc_decode", {1}, Parts("prev", 2))
  \union Breaks("TilesNotOverwritten", "mimo_dmrs_gen", {3}, {"out"})
  \union Breaks("TilesNotOverwritten", "mimo_dmrs_ls", {1, 2}, {"yre", "yim"})
  \union Breaks("TilesNotOverwritten", "detect_io_pack", {2}, {"rx_in"})
  \union Breaks("TilesNotOverwritten", "cfo_dmrs", {1}, {"xlane", "ylane"})
  \union Breaks("OperandsArrive", "ofdm_mod_batch", {1}, Parts("x1ReL1", 2) \union Parts("x1ImL1", 2))
  \union Breaks("TilesNotOverwritten", "mimo_detect_bri", {1, 2}, {"rhsIdx"})
  \union Breaks("TilesNotOverwritten", "precode_zf", {1, 2}, {"Mpack"})
  \union Breaks("OperandsArrive", "pss_correlator", {1},
                {"staging", "yReL1Pad", "yImL1Pad", "outBuf"})
  \union Breaks("TilesNotOverwritten", "pss_correlator", {1},
                {"staging", "yi16", "twi16", "pi16", "outBuf"})
  \union Breaks("ScalarReadsArrive", "pss_correlator", {1}, {"pssRe", "pssIm"})

(* mimo_dmrs_ls on a core that does not write the description of the pilots. *)
DmrsLsProgram == [k \in {<<"mimo_dmrs_ls", 2>>} |-> MimoPrograms[k]]

\* What is before the instructions from lo to hi of a text, given what is before
\* the earlier ones; by halves, the first of which TLC evaluates to compare it.
RECURSIVE Extended(_, _, _, _)
Extended(p, lo, hi, known) ==
  IF lo = hi
  THEN LET causes == Causes(p, lo)
       IN  Append(known, {m \in 1..(lo - 1) : \E j \in causes : m = j \/ m \in known[j]})
  ELSE LET mid == (lo + hi) \div 2
           half == Extended(p, lo, mid, known)
       IN  IF half # << >> THEN Extended(p, mid + 1, hi, half) ELSE << >>

\* What the events and barriers of a text put before its instructions.
Before(p) == IF p = << >> THEN << >> ELSE Extended(p, 1, Len(p), << >>)

\* Asked of each kernel before it starts, of its text alone: events and PIPE_ALL
\* order every conflict, and every event is waited for as often as it is set.
\* These are the hypotheses of the theorems of KernelPipesProofs.
TextIsDisciplined ==
  (\A u \in DOMAIN at : at[u] = Following(u, 0)) =>
    OrderedByEvents(kernel, Before(Program)) /\ Balanced(kernel)
=============================================================================
