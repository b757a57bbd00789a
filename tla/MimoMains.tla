------------------------------- MODULE MimoMains -------------------------------
(***************************************************************************)
(* The programs of the operators of the MIMO chains.  Most run one case for  *)
(* every rank, time the kernel with events WARMUP and TIMED times, whatever  *)
(* the environment sets these counts to, and save the result.                *)
(***************************************************************************)
EXTENDS SisoMains

\* The counts of the environment: the default's shape, and 0.
Counts == {0, Warmups} \X {0, TimedRuns}

\* (Mutant: a case also frees the workspace of main.)
RankedFreesShared(k, shared, prepared) ==
  {LET out  == k[1].out
       own  == k[1].in \ shared
       Case == Upload(own) \o Fill(out) \o Timed(k, n[1], n[2]) \o Download(out)
                 \o Free(own \cup out \cup shared)
   IN prepared \o Times(Cases, Case) : n \in Counts}

\* RunCase for every rank: load, fill the result, run, save; the buffers of a
\* case are its own and are freed with it, those of main outlive it.
Ranked(k, shared, prepared) ==
  {LET out  == k[1].out
       own  == k[1].in \ shared
       Case == Upload(own) \o Fill(out) \o Timed(k, n[1], n[2]) \o Download(out) \o Free(own \cup out)
   IN prepared \o Times(Cases, Case) \o Free(shared) : n \in Counts}

QamDemodBatch ==
  Ranked(Kernel("qam_demod_256_mimo_batch", {"x", "noise", "til", "ws"}, {"llr"}), {"ws"}, Fill({"ws"}))
QamModMimo ==
  Ranked(Kernel("qam_mod_256_mimo", {"bits", "til", "ws"}, {"syms"}), {"ws"}, Fill({"ws"}))
LayerDemapMimo == Ranked(Kernel("layer_demap", {"in", "til"}, {"out"}), {}, << >>)
LayerMapMimo   == Ranked(Kernel("layer_map", {"in", "til"}, {"out"}), {}, << >>)
RateDematchMimo ==
  Ranked(Kernel("rate_dematch_mimo", {"in", "descriptors", "til", "ws"}, {"out"}), {"ws"}, Upload({"ws"}))
RateMatchMimo ==
  Ranked(Kernel("rate_match_mimo", {"in", "descriptors", "til", "ws"}, {"out"}), {"ws"}, Fill({"ws"}))
ScrambleMimo ==
  Ranked(Kernel("scramble_mimo", {"in", "gold", "til", "ws"}, {"out"}), {"ws"}, Fill({"ws"}))
DescrambleMimo ==
  Ranked(Kernel("descramble_mimo", {"in", "sign", "til", "ws"}, {"out"}), {"ws"}, Fill({"ws"}))
DataExtract ==
  Ranked(Kernel("mimo_data_extract", {"xhat", "noise", "til"}, {"out"}), {}, << >>)
ReMapBatch ==
  Ranked(Kernel("re_map_batch", {"in", "idx", "til", "ws"}, {"out"}), {"til", "ws"}, Fill({"til", "ws"}))

-----------------------------------------------------------------------------
(* Programs of one case *)

OfdmDemodBatch == Measured(Kernel("ofdm_demod_batch", {"in"} \cup Tables, {"out"}))
OfdmModBatch   == Measured(Kernel("ofdm_mod_batch", {"in"} \cup Tables, {"out", "iq"}))
PrecodeZf      == Measured(Kernel("precode_zf", {"w", "s", "mask", "til"}, {"out"}))
DetectBri      == Measured(Kernel("mimo_detect_bri", {"h", "y", "noise", "til"}, {"xhat", "no_eff"}))
ReDemapBatch   == Measured(Kernel("re_demap_batch", {"in", "idx", "til"}, {"out"}))

IoPack ==
  LET k == Kernel("mimo_detect_io_pack", {"y", "h", "noise", "til"}, {"hrm", "yvpad", "no"})
  IN {Freed(Upload(k[1].in) \o Fill(k[1].out) \o Timed(k, n[1], n[2]) \o Download(k[1].out)) :
        n \in Counts}

\* Estimates of the operator, then, for a configuration the LMMSE estimator
\* can take, its input packed from them.
DmrsLs ==
  LET k    == Kernel("mimo_dmrs_ls", {"rx", "ref", "metadata"}, {"h", "pilots", "noise"})
      Ls(n) == Upload({"rx", "ref", "metadata"}) \o Fill({"h", "pilots", "noise"})
                 \o Timed(k, n[1], n[2]) \o Download({"h", "pilots", "noise"})
      Pack == Fill({"ce"}) \o Once(Kernel("mimo_dmrs_ls_pack_ce", {"h", "idx"}, {"ce"}), {"ce"})
  IN {Freed(Upload({"idx"}) \o Times(Cases, Ls(n) \o (IF compatible THEN Pack ELSE << >>))) :
        n \in Counts, compatible \in BOOLEAN}

\* prepare: Phase A of the kernel adds to its sums atomically.
LmmsePrepare == Fill({"sums", "workspace"})

\* (Mutant: Phase A goes on adding to the sums of the last launch.)
LmmseClearedOnce ==
  LET k == Kernel("channel_est_lmmse", {"hls", "factors", "weights", "til", "sums", "workspace"},
                  {"sums", "workspace", "out"})
  IN {Freed(Upload({"natural", "idx", "factors", "weights", "til"}) \o Fill({"hls", "out", "padded"})
              \o Kernel("pack_natural", {"natural", "idx"}, {"hls"}) \o Wait
              \o LmmsePrepare \o Times(n[1] + n[2], k \o Wait)
              \o Fill({"padded"})
              \o Once(Kernel("pad_layers", {"out"}, {"padded"}), {"padded"})) : n \in Counts}

Lmmse ==
  LET k == Kernel("channel_est_lmmse", {"hls", "factors", "weights", "til", "sums", "workspace"},
                  {"sums", "workspace", "out"})
  IN {Freed(Upload({"natural", "idx", "factors", "weights", "til"}) \o Fill({"hls", "out", "padded"})
              \o Kernel("pack_natural", {"natural", "idx"}, {"hls"}) \o Wait
              \o Times(n[1] + n[2], LmmsePrepare \o k \o Wait)
              \o Fill({"padded"})
              \o Once(Kernel("pad_layers", {"out"}, {"padded"}), {"padded"})) : n \in Counts}

\* A case that cannot be read is skipped; the benchmark repeats the last one
\* that was uploaded, or runs on memory nobody wrote when there was none.
ResourceGridMap(found) ==
  LET k == Kernel("mimo_resource_grid_map", {"layer", "dmrs", "offsets", "til"}, {"grid"})
  IN Freed(Times(found, Upload(k[1].in) \o Fill({"grid"}) \o Once(k, {"grid"}))
             \o Times(Warmups, k) \o Wait \o Times(TimedRuns, Times(PerSync, k) \o Wait))

\* Enqueue of the generator's runtime: it queues the copies of the seeds it
\* staged, its kernel and the copies of its grid to the caller's.
RuntimeEnqueue(logical) ==
  Upload({"staging"}) \o QueuedCopy({"staging"}, {"rt_cinit", "rt_til"})
    \o Kernel("mimo_dmrs_gen", {"rt_cinit", "rt_til", "rt_gmat", "rt_g1"}, {"physical"})
    \o QueuedCopy({"physical"}, {logical})

\* Every case goes through the runtime, then through the bare kernel.
DmrsGenMimo ==
  LET k == Kernel("mimo_dmrs_gen", {"cinit", "til", "gmat", "g1"}, {"out", "dbg"})
      Case == RuntimeEnqueue("logical") \o Wait \o Download({"logical"}) \o Free({"logical"})
                \o Upload({"cinit", "til"}) \o Fill({"out", "dbg"}) \o Once(k, {"out", "dbg"})
      Bench == Upload({"cinit", "til"}) \o Times(Warmups, k \o Wait)
                 \o Times(TimedRuns, Times(PerSync, k) \o Wait)
  IN {Freed(Upload({"til", "gmat", "g1"}) \o Upload({"rt_gmat", "rt_g1"})
              \o Times(found, Case) \o Times(found, Bench)) : found \in 0..Cases}

\* The plans of the mixed configurations, each in a resource of the runtime.
Plans == <<"plan1", "plan2", "plan3", "plan4", "plan5">>
PrecodeKernel(plan) == Kernel("pusch_codebook_precode", {"layer", plan}, {"port"})

\* Launch of the runtime uploads a plan it does not hold; the mixed sequence
\* runs twice and then has every plan.
CodebookPrecode ==
  Freed(Upload({"layer"})
          \o Times(Cases, Upload({"plan"}) \o Fill({"port"}) \o Once(PrecodeKernel("plan"), {"port"}))
          \o FlattenSeq([i \in 1..Len(Plans) |-> Upload({Plans[i]}) \o PrecodeKernel(Plans[i])])
          \o FlattenSeq([i \in 1..Len(Plans) |-> PrecodeKernel(Plans[i])]) \o Wait
          \o Awaited(PrecodeKernel(Plans[1])))

-----------------------------------------------------------------------------
MimoPrograms ==
  {OfdmDemodBatch, OfdmModBatch, PrecodeZf, DetectBri, ReDemapBatch, CodebookPrecode}
    \cup QamDemodBatch \cup QamModMimo \cup LayerDemapMimo \cup LayerMapMimo \cup RateDematchMimo
    \cup RateMatchMimo \cup ScrambleMimo \cup DescrambleMimo \cup DataExtract \cup ReMapBatch
    \cup IoPack \cup DmrsLs \cup Lmmse \cup DmrsGenMimo
    \cup {ResourceGridMap(found) : found \in 0..Cases}
===============================================================================
