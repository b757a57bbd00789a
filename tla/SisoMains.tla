------------------------------- MODULE SisoMains -------------------------------
(***************************************************************************)
(* The programs of the operators of the SISO chains: each main.cpp uploads   *)
(* an operator's inputs, runs its kernel, reads the result back and times    *)
(* the kernel.  A program with an environment (which case files exist, what  *)
(* a comparison found) is a set of command sequences.                        *)
(***************************************************************************)
EXTENDS HostPrograms

CONSTANT Cases   \* test cases of a program that loops over them

ASSUME CasesAssumption == Cases \in Nat \ {0}

Tables == {"w32", "w64", "tw", "til"}

-----------------------------------------------------------------------------
(* Operators run over one input *)

Decimate    == Freed(Upload({"in", "taps", "til"})
                       \o Awaited(Kernel("decimate", {"in", "taps", "til"}, {"out"}))
                       \o Download({"out"}))
Interpolate == Freed(Upload({"in", "taps", "til"})
                       \o Awaited(Kernel("interpolate", {"in", "taps", "til"}, {"out"}))
                       \o Download({"out"}))

ReDemap       == Measured(Kernel("re_demap", {"in", "idx"}, {"out"}))
ReMap         == Measured(Kernel("re_map", {"in", "idx"}, {"out"}))
CfoCompensate == Measured(Kernel("cfo_compensate", {"in", "idx", "a2b2", "til"}, {"out"}))

PbchDmrsCorrelator ==
  Measured(Kernel("pbch_dmrs_correlator", {"r", "d", "dneg", "til"}, {"out"}))

SsbFft ==
  MeasuredCleared(
    Kernel("ssb_fft", {"in", "w16", "tw", "idx", "derot", "til", "scratch"}, {"scratch", "out"}),
    {"scratch"})

OfdmDemod ==
  MeasuredCleared(Kernel("ofdm_demod", {"in", "scratch"} \cup Tables, {"scratch", "out"}),
                  {"scratch"})

OfdmMod ==
  MeasuredCleared(Kernel("ofdm_mod", {"in", "scratch"} \cup Tables, {"scratch", "out", "iq"}),
                  {"scratch"})

SssCorrelator ==
  MeasuredCleared(
    Kernel("sss_correlator", {"rx", "sss", "tw", "til", "scratch"}, {"scratch", "out"}),
    {"scratch"})

\* The scratch memory is cleared once and every launch fills it before it
\* reads it; the stages left there are read back after the result.
PssCorrelator ==
  Freed(Upload({"in", "ref", "tw", "til"}) \o Fill({"out", "scratch"})
          \o Awaited(Kernel("pss_correlator", {"in", "ref", "tw", "til"}, {"scratch", "out"}))
          \o Download({"out"}) \o Download({"scratch"}))

-----------------------------------------------------------------------------
(* Operators verified case by case, then measured *)

EqualizeZf ==
  LET k    == Kernel("equalize_zf", {"y", "h", "til"}, {"xhat", "noise"})
      Load == Upload({"y", "h"}) \o Fill({"xhat", "noise"})
  IN Freed(Upload({"til"})
             \o Times(Cases, Load \o Once(k, {"xhat", "noise"}))
             \o Load \o Awaited(k))

ChannelEstLs ==
  LET k == Kernel("channel_est_ls", {"y", "x", "weave", "til"}, {"h", "noise"})
  IN Freed(Upload({"weave", "til"})
             \o Times(Cases, Fill({"h", "noise"}) \o Upload({"y", "x"})
                               \o Once(k, {"h", "noise"}))
             \o Awaited(k))

\* A case without its files is skipped; the benchmark needs the files of one.
CfoDmrs ==
  LET k == Kernel("cfo_dmrs", {"y", "x", "til"}, {"out"})
      Case == Upload({"y", "x"}) \o Fill({"out"}) \o Once(k, {"out"})
  IN {Freed(Upload({"til"}) \o Times(found, Case)
              \o Upload({"y", "x"}) \o Awaited(k)) : found \in 0..Cases}

DmrsGen ==
  LET k == Kernel("dmrs_gen", {"cinit", "gmat", "g1", "til"}, {"out", "dbg"})
      Case == Upload({"cinit"}) \o Fill({"out", "dbg"}) \o Once(k, {"out", "dbg"})
  IN {Freed(Upload({"gmat", "g1", "til"}) \o Times(found, Case)
              \o Upload({"cinit"}) \o Awaited(k)) : found \in 0..Cases}

\* The tables lie in the scratch memory, which the kernel only reads.
PssCfoEstimator ==
  LET k == Kernel("pss_cfo_estimator", {"y", "x", "tables", "til"}, {"out"})
      Case == Upload({"y", "x"}) \o Fill({"out"}) \o Once(k, {"out"})
  IN {Freed(Upload({"tables"}) \o Upload({"til"}) \o Times(found, Case)
              \o Upload({"y", "x"}) \o Awaited(k)
              \o Times(TimedRuns, Times(PerSync, k) \o Wait)) : found \in 0..Cases}

CfoEstimate ==
  LET k == Kernel("cfo_estimate", {"in", "til", "scratch"}, {"scratch", "out"})
      Case == Upload({"in"}) \o Fill({"scratch", "out"}) \o Once(k, {"out"})
  IN Freed(Upload({"til"}) \o Times(Cases, Case)
             \o Upload({"in"}) \o Awaited(Fill({"scratch"}) \o k))

PssAcquisition ==
  LET k == Kernel("pss_acquisition", {"in", "pss", "til", "scratch"}, {"scratch", "out"})
      Case == Upload({"in"}) \o Fill({"scratch", "out"}) \o Once(k, {"out"})
  IN Freed(Upload({"pss", "til"}) \o Times(Cases, Case)
             \o Upload({"in"}) \o Awaited(Fill({"scratch"}) \o k))

\* Only the first case is warmed up and timed.
TimingTracker ==
  LET k == Kernel("timing_tracker", {"h", "weights", "til", "scratch"}, {"scratch", "cir", "dt"})
      Run == Fill({"scratch"}) \o k \o Wait
      Case(runs) == Upload({"h"}) \o runs \o Download({"cir", "dt"})
  IN Freed(Upload({"weights", "til"}) \o Case(Awaited(Fill({"scratch"}) \o k))
             \o Times(Cases - 1, Case(Run)))

\* The read pointer is input and result.
WinSlice ==
  Freed(Times(Cases, Upload({"cap", "dt", "rd"})
                       \o Once(Kernel("win_slice", {"cap", "dt", "rd"}, {"out", "rd"}),
                               {"out", "rd"})))

\* A missing case file ends the program on the spot.
QamMod ==
  LET k == Kernel("qam_mod", {"bits", "til"}, {"syms"})
      Case == Fill({"syms"}) \o Upload({"bits"}) \o Once(k, {"syms"})
  IN {Upload({"til"}) \o Times(found, Case) : found \in 0..(Cases - 1)}
       \cup {Freed(Upload({"til"}) \o Times(Cases, Case) \o Throughput(k))}

QamDemod ==
  LET k == Kernel("qam_demod", {"x", "noise", "til", "ws"}, {"llr"})
      Case == Upload({"x", "noise"}) \o Fill({"llr"}) \o Once(k, {"llr"})
  IN Freed(Fill({"ws"}) \o Upload({"til"}) \o Times(Cases, Case) \o Throughput(k))

-----------------------------------------------------------------------------
(* Coding: one verified launch, then throughput *)

\* After a mismatch the kernel is not timed.
RateMatching(k) ==
  LET verified == Upload(k[1].in) \o Fill(k[1].out) \o Once(k, k[1].out)
  IN {Freed(verified), Freed(verified \o Throughput(k))}

RateMatch   == RateMatching(Kernel("rate_match", {"in"}, {"out"}))
RateDematch == RateMatching(Kernel("rate_dematch", {"in"}, {"out"}))

LlrAssemble ==
  LET k == Kernel("llr_assemble", {"in", "til"}, {"out"})
  IN Freed(Upload({"in", "til"}) \o Fill({"out"}) \o Once(k, {"out"}) \o Throughput(k))

\* The result is read after the timed launches, which repeat the first.
Descramble ==
  LET k == Kernel("descramble", {"in", "sign", "nslot"}, {"out"})
  IN Freed(Fill({"out"}) \o Upload({"in", "sign", "nslot"}) \o k \o Wait
             \o Times(PerSync, k) \o Wait \o Download({"out"}))

Scramble ==
  LET k == Kernel("scramble", {"in", "gold", "nslot", "ws", "til"}, {"out"})
  IN Freed(Fill({"out", "ws", "til"}) \o Upload({"in", "gold", "nslot"}) \o k \o Wait
             \o Times(PerSync, k) \o Wait \o Download({"out"}))

\* A mismatch ends the program on the spot.
LdpcEncode ==
  LET k == Kernel("ldpc_encode", {"info", "tables"}, {"out", "dbg"})
      verified == Fill({"tables", "out", "dbg"}) \o Upload({"tables", "info"}) \o Once(k, {"out"})
  IN {verified, Freed(verified \o Throughput(k))}

\* Its first iteration takes the old messages as zero (ldpc_decode_kernel.cpp:564),
\* the later ones read what the same launch stored: prev is no input.
Decoder ==
  Kernel("ldpc_decode", {"llr", "graph"}, {"prev", "bits", "posterior"})

\* Its benchmark clears the messages before every launch but waits once a batch:
\* all but the first clearing act while a launch that uses them is under way.
LdpcDecode ==
  Freed(Fill({"prev", "graph", "bits", "posterior"}) \o Upload({"llr", "graph"})
          \o Once(Decoder, {"bits", "posterior"})
          \o Throughput(Fill({"prev"}) \o Decoder))

\* merge_dmrs_insert adds the pilots to the grid in place.
MergeDmrs ==
  Freed(Upload({"gu", "dmrs"}) \o Once(Kernel("merge_dmrs", {"gu", "dmrs"}, {"gu"}), {"gu"}))

-----------------------------------------------------------------------------
SisoPrograms ==
  {Decimate, Interpolate, ReDemap, ReMap, CfoCompensate, PbchDmrsCorrelator, SsbFft, OfdmDemod,
   OfdmMod, SssCorrelator, PssCorrelator, EqualizeZf, ChannelEstLs, CfoEstimate, PssAcquisition,
   TimingTracker, WinSlice, QamDemod, LlrAssemble, Descramble, Scramble, MergeDmrs,
   LdpcDecode}
    \cup CfoDmrs \cup DmrsGen \cup PssCfoEstimator \cup QamMod \cup RateMatch \cup RateDematch
    \cup LdpcEncode
===============================================================================
