---------------------------- MODULE MCDeviceStream ----------------------------
(* DeviceStream over every disciplined program of a bounded length on two    *)
(* buffers, the theorems of DeviceStreamProofs on an exhaustive instance, and *)
(* over the programs of the operators and of the staged loopback.            *)
EXTENDS OperatorRuns

CONSTANT MaxLength   \* bound on the length of a short program

ShortBuffers == {"a", "b"}

Alphabet ==
  {Command("launch", "any", {x}, {y}) : x \in ShortBuffers, y \in ShortBuffers}
    \union {Command("copy", "any", {}, {x}) : x \in ShortBuffers}
    \union {Command("copy", "any", {x}, {}) : x \in ShortBuffers}
    \union {Command("sync", "any", {}, {})}

MCBuffers == ShortBuffers \cup UNION {BuffersOf(p) : p \in RealPrograms}

MCPrograms ==
  [p \in {q \in [1..MaxLength -> Alphabet] : Disciplined(q)} \cup RealPrograms |-> p]
===============================================================================
