----------------------------- MODULE FecKernels -----------------------------
(***************************************************************************)
(* The coding kernels of the two PUSCH chains, instruction by instruction.  *)
(* Parameters are the choices their data makes: how many code blocks,       *)
(* streams or tiles a core has, and which of them fill a slot.  Copies of   *)
(* neighbouring arrays, and vector instructions in a row, are one           *)
(* instruction.  What a kernel computes is not modelled.                    *)
(***************************************************************************)
EXTENDS Naturals, Sequences, KernelOps

\* (Mutant: the ring is drained at the end of the kernel only.)
EndOfRingForgotten(cb, blocks) == cb + 1 = blocks

\* PAIR_RING_DEPTH is 4.
EndOfRing(cb, blocks) == cb % 4 = 3 \/ cb + 1 = blocks

\* Code blocks go through a ring into the slot being assembled; full are
\* those that complete it, spill those whose rest opens the next one.
RateMatchSiso(blocks, full, spill) ==
  Loop(blocks, LAMBDA cb :
    LET pair8 == Part("pair8", cb % 4)
        pair  == Part("pair", cb % 4)
    IN  Load({pair8}) \o Sync(MTE2_V, 0)
        \o Compute({pair8}, {pair}) \o Compute({pair}, {"slot"})
        \o When(cb \in full,
             Sync(V_MTE3, 0) \o Store({"slot"}) \o Sync(MTE3_V, 0)
             \o When(cb \in spill, Compute({pair}, {"slot"})))
        \o When(EndOfRing(cb, blocks), PipeAll))

\* (Mutant: the event is set before the copy it announces.)
PrefetchAnnounced(i) == SetFlag(MTE2_V, i % 2) \o Load({Part("src", i % 2)})

Prefetch(i) == Load({Part("src", i % 2)}) \o SetFlag(MTE2_V, i % 2)

\* The next code block is prefetched into the other half of the ring; those
\* from padded on are one symbol longer and have their padding cleared.
RateDematchSiso(blocks, padded) ==
  Prefetch(0)
  \o Loop(blocks, LAMBDA i :
       WaitFlag(MTE2_V, i % 2)
       \o When(i + 1 < blocks, Prefetch(i + 1))
       \o When(i >= padded, Compute({}, {"e"}))
       \o Compute({Part("src", i % 2)}, {"e"}) \o Compute({"e"}, {"e"})
       \o PipeAll \o Store({"e"}) \o PipeAll)

\* Two bit planes per core and slot, through one set of buffers; the number
\* of slots is read from the device.
ScrambleSiso(planes) ==
  Load({"nslot"}) \o Sync(MTE2_V, 0) \o Read({"nslot"})
  \o Loop(planes, LAMBDA i :
       Load({"bit", "gold"}) \o Sync(MTE2_V, 0)
       \o Compute({"bit", "gold"}, {"bit", "gold"}) \o Compute({"bit"}, {"out"})
       \o Sync(V_MTE3, 1) \o Store({"out"}) \o Sync(MTE3_MTE2, 0))

DescrambleSiso(planes) ==
  Load({"nslot"}) \o Sync(MTE2_V, 0) \o Read({"nslot"})
  \o Loop(planes, LAMBDA i :
       Load({"llr", "sgn"}) \o Sync(MTE2_V, 0)
       \o Compute({"llr"}, {"out"}) \o Compute({"sgn", "out"}, {"out"})
       \o Sync(V_MTE3, 1) \o Store({"out"}) \o Sync(MTE3_MTE2, 0))

\* In place; a plane ends with its padding, from the same buffer.
ScrambleMimo(planes, tiles) ==
  Loop(planes, LAMBDA p :
    Loop(tiles, LAMBDA t :
      Load({"bits", "gold"}) \o Sync(MTE2_V, 0)
      \o Compute({"bits", "gold"}, {"bits", "gold"})
      \o Sync(V_MTE3, 1) \o Store({"bits"}) \o Sync(MTE3_MTE2, 0))
    \o Sync(MTE3_V, 1) \o Compute({}, {"bits"})
    \o Sync(V_MTE3, 1) \o Store({"bits"}) \o Sync(MTE3_MTE2, 0))

\* The kernel returns at once when its metadata is not what it was built for.
DescrambleMimo(valid, planes, tiles) ==
  Load({"meta"}) \o PipeAll \o Read({"meta"})
  \o When(valid,
       Loop(planes, LAMBDA p :
         Loop(tiles, LAMBDA t :
           Load({"llr", "sign"}) \o PipeAll
           \o Compute({"llr", "sign"}, {"llr"}) \o PipeAll
           \o Store({"llr"}) \o PipeAll)
         \o Compute({}, {"llr"}) \o PipeAll \o Store({"llr"}) \o PipeAll))

\* Pieces of code blocks are appended to the plane being assembled; full are
\* those that complete it.
RateMatchMimo(pieces, full) ==
  Loop(pieces, LAMBDA i :
    Load({"input8"}) \o Sync(MTE2_V, 0)
    \o Compute({"input8"}, {"input16"}) \o Compute({"input16"}, {"slot"})
    \o Sync(V_MTE2, 0)
    \o When(i \in full,
         Compute({}, {"slot"})
         \o Sync(V_MTE3, 1) \o Store({"slot"}) \o Sync(MTE3_V, 1)))

\* Repetitions accumulate in lam; an invalid descriptor ends the kernel.
RateDematchMimo(blocks, pieces, invalid) ==
  Load({"meta", "descriptor"}) \o PipeAll \o Read({"meta"})
  \o Loop(blocks, LAMBDA cb :
       Read({"descriptor"}) \o Compute({}, {"lam"}) \o PipeAll
       \o Loop(pieces, LAMBDA i :
            Load({"source"}) \o PipeAll
            \o Compute({"source"}, {"source"})
            \o Compute({"lam", "source"}, {"lam"}) \o PipeAll)
       \o Compute({"lam"}, {"lam"}) \o PipeAll \o Store({"lam"}) \o PipeAll)
  \o When(invalid, Read({"descriptor"}))

\* The shift tables are compacted by the scalar unit, which then steers the
\* vector instructions by them.
LdpcEncode(blocks) ==
  Compute({}, {"ones"}) \o Load({"shift"}) \o PipeAll
  \o Read({"shift"}) \o Write({"shift"}) \o PipeAll
  \o Loop(blocks, LAMBDA cb :
       Load({"info8"}) \o PipeAll
       \o Compute({"info8"}, {"half"}) \o Compute({"half"}, {"info"})
       \o Read({"shift"}) \o Compute({"info", "ones"}, {"ax"})
       \o Read({"shift"}) \o Compute({"ax", "ones"}, {"pa"})
       \o Read({"shift"}) \o Compute({"info", "pa", "ones"}, {"pb"})
       \o Compute({"info8"}, {"out8"}) \o Compute({"pa"}, {"half", "out8"})
       \o Compute({"pb"}, {"half", "out8"}) \o PipeAll
       \o Store({"out8"}) \o PipeAll)

-----------------------------------------------------------------------------
\* ldpc_decode: groups of check rows take turns in two message slots, whose
\* contents are stored for the next iteration while the next group computes.
Message(group) == Part("prev_gm", group)

\* The store of the slot's previous group is still to be waited for: that
\* group was not of the last iteration, which stores nothing.
StorePending(turn, groups, iterations) ==
  turn >= 2 /\ ((turn - 2) \div groups) + 1 < iterations

RowGroup(turn, groups, iterations) ==
  LET group == turn % groups
      iter  == turn \div groups
      slot  == group % 2
      prev  == Part("prev", slot)
  IN  When(StorePending(turn, groups, iterations), WaitFlag(MTE3_V, 4 + slot))
      \o (IF iter = 0
          THEN Compute({}, {"msg"})
          ELSE LoadFrom({Message(group)}, {prev}) \o Sync(MTE2_V, 1)
               \o Compute({prev}, {"msg"}))
      \o Compute({"lam"}, {"gath"}) \o Sync(MTE3_V, 7)
      \o Compute({"gath", "msg"}, {"gath", "sgn", "msg"})
      \o When(iter + 1 < iterations,
           Compute({"sgn", "msg"}, {prev}) \o Sync(V_MTE3, 6)
           \o StoreTo({prev}, {Message(group)}) \o SetFlag(MTE3_V, 4 + slot))
      \o Compute({"gath"}, {"lam"})
      \o When(group = groups - 1, Sync(MTE3_V, 7))

\* An even number of groups, as the 36 of the code are.
LdpcDecode(batches, groups, iterations) ==
  Load({"deg", "packed"}) \o Compute({}, {"ones"}) \o Sync(MTE2_S, 3)
  \o Read({"deg", "packed"})
  \o Loop(batches, LAMBDA b :
       Load({"lam"}) \o Sync(MTE2_V, 0) \o Compute({"lam"}, {"lam"})
       \o Loop(groups * iterations, LAMBDA t : RowGroup(t, groups, iterations))
       \o Compute({"lam"}, {"gath", "lam"})
       \o Sync(V_MTE3, 5) \o Store({"lam"}) \o Sync(MTE3_V, 5)
       \o Compute({"lam"}, {"lam", Part("prev", 0)})
       \o Compute({"lam", Part("prev", 0)}, {"lam", "gath"})
       \o Sync(V_MTE3, 7) \o Store({"gath"}) \o Sync(MTE3_MTE2, 0))
=============================================================================
