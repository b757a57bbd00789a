----------------------------- MODULE LoopbackStages -----------------------------
(***************************************************************************)
(* The staged MIMO loopback (chain/pusch_mimo_loopback): each stage is a     *)
(* program of its own that reads its predecessors' files, runs one operator, *)
(* for a slot or slot by slot, and writes the files of the next stage.  A    *)
(* check that fails on the way ends a stage on the spot.                     *)
(***************************************************************************)
EXTENDS MimoMains

\* A stage whose slots share its buffers; a failed check leaves after a slot.
SlotBySlot(prepare, slot) ==
  {prepare \o Times(done, slot) : done \in 0..(Cases - 1)}
    \cup {Freed(prepare \o Times(Cases, slot))}

\* A stage of one launch.
OneLaunch(k) == Freed(Upload(k[1].in) \o Once(k, k[1].out))

DmrsStage ==
  SlotBySlot(Upload({"rt_gmat", "rt_g1"}),
             Fill({"logical"}) \o RuntimeEnqueue("logical") \o Wait \o Download({"logical"}))

GridMapStage ==
  LET k == Kernel("mimo_resource_grid_map", {"layer", "dmrs", "offsets", "til"}, {"grid"})
  IN SlotBySlot(<< >>, Upload(k[1].in) \o Fill({"grid"}) \o Once(k, {"grid"}))

\* The runtime uploads the plan of the one configuration in the first slot.
PrecodeBypassStage ==
  LET Slot(plan) == Upload({"layer"}) \o Fill({"port"}) \o plan
                      \o Once(PrecodeKernel("plan1"), {"port"})
  IN SlotBySlot(Slot(Upload({"plan1"})), Slot(<< >>))

\* (Mutant: a slot's results are filled with the pattern after its launch.)
DmrsLsStageFillsLate ==
  LET k == Kernel("mimo_dmrs_ls", {"rx", "ref", "metadata"}, {"h", "pilots", "noise"})
  IN SlotBySlot(<< >>, Upload(k[1].in) \o k \o Wait \o Fill(k[1].out) \o Download(k[1].out))

DmrsLsStage ==
  LET k == Kernel("mimo_dmrs_ls", {"rx", "ref", "metadata"}, {"h", "pilots", "noise"})
  IN SlotBySlot(<< >>, Upload(k[1].in) \o Fill(k[1].out) \o Once(k, k[1].out))

IoPackStage ==
  OneLaunch(Kernel("mimo_detect_io_pack", {"y", "h", "noise", "til"}, {"hrm", "yvpad", "no"}))
DetectorStage ==
  OneLaunch(Kernel("mimo_detect_bri", {"h", "y", "noise", "dummy", "til"}, {"xhat", "no_eff"}))
QamDemodStage   == OneLaunch(Kernel("qam_demod_256_mimo_batch", {"x", "noise", "til"}, {"llr"}))
LayerDemapStage == OneLaunch(Kernel("layer_demap", {"in", "til"}, {"out"}))
ScrambleStage   == OneLaunch(Kernel("scramble_mimo", {"in", "gold", "til"}, {"out"}))
DescrambleStage == OneLaunch(Kernel("descramble_mimo", {"in", "sign", "til"}, {"out"}))
RateDematchStage == OneLaunch(Kernel("rate_dematch_mimo", {"in", "descriptors", "til"}, {"out"}))

LdpcDecodeStage ==
  Freed(Upload({"llr", "graph"}) \o Fill({"prev", "bits", "posterior"}) \o Once(Decoder, {"bits"}))

StagePrograms ==
  {IoPackStage, DetectorStage, QamDemodStage, LayerDemapStage, ScrambleStage, DescrambleStage,
   RateDematchStage, LdpcDecodeStage}
    \cup DmrsStage \cup GridMapStage \cup PrecodeBypassStage \cup DmrsLsStage
===============================================================================
