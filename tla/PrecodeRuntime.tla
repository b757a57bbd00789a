---------------------------- MODULE PrecodeRuntime ----------------------------
(***************************************************************************)
(* The runtime facade of pusch_codebook_precode: an LRU cache of precoder   *)
(* plans in device memory.  A miss uploads the new plan with four blocking  *)
(* copies into an unconfigured or the least recently used resource; the     *)
(* kernel launch that follows is only queued on the caller's stream, so     *)
(* queued kernels still read the resources their launches selected.         *)
(*                                                                         *)
(* Nothing in the runtime waits for the stream.  What keeps an upload away  *)
(* from a resource a queued kernel will read is the caller: window is the   *)
(* set of configurations it launched since it last synchronised, and it     *)
(* holds at most Capacity of them (the fused TX chain uses two per slot,    *)
(* the operator's own main five).                                          *)
(***************************************************************************)
EXTENDS Naturals, Sequences, FiniteSets

CONSTANTS
  Configs,          (* values of the cache key                             *)
  NoConfig,         (* no plan: an unconfigured resource, an unread part   *)
  Capacity,         (* RUNTIME_CONFIG_CACHE_CAPACITY                       *)
  MaxClock,         (* bound on use_clock, one tick per Launch             *)
  MaxQueued,        (* bound on the kernels queued on the stream           *)
  RetryAfterError   (* the caller goes on using a context that returned an *)
                    (* error; no caller in the repository does             *)

ASSUME CapacityAssumption == Capacity \in Nat \ {0}
ASSUME NoConfigAssumption == NoConfig \notin Configs
ASSUME BoundAssumption    == MaxClock \in Nat /\ MaxQueued \in Nat
ASSUME RetryAssumption    == RetryAfterError \in BOOLEAN

Resources == 1..Capacity

\* (Mutant: the tiling of a new plan is never uploaded.)
UploadOrderForgets == <<"weight_re", "weight_im", "prg_of_rb">>

\* The order of the four uploads in Configure.
UploadOrder == <<"weight_re", "weight_im", "prg_of_rb", "tiling">>
Parts == {"weight_re", "weight_im", "prg_of_rb", "tiling"}
Loaded(c) == [p \in Parts |-> c]

VARIABLES
  initialized,  (* context->initialized                                    *)
  phase,        (* host: idle, uploading a plan, or stopped by an error    *)
  cfg, target,  (* the miss being served and the resource it goes to       *)
  uploaded,     (* how many of the four copies are done                    *)
  useClock,     (* context->use_clock                                      *)
  entries,      (* context->cache_entries                                  *)
  key,          (* per resource: cached_* if configured, else NoConfig     *)
  lastUsed,     (* per resource: last_used                                 *)
  content,      (* per resource and part: whose plan the device array holds*)
  stream,       (* queued kernels, oldest first: configuration, resource   *)
  loaded,       (* parts of its plan the oldest kernel has read so far     *)
  applied,      (* the plan the last finished kernel used                  *)
  window        (* configurations launched since the last synchronisation  *)

context == <<initialized, useClock, entries, key, lastUsed>>
host    == <<phase, cfg, target, uploaded>>
device  == <<stream, loaded, applied>>
vars    == <<context, host, device, content, window>>

-----------------------------------------------------------------------------
Cached == {r \in Resources : key[r] # NoConfig}

\* (Mutant: the comparison finds any two configurations equal.)
HitOnAny(c, r) == key[r] # NoConfig /\ \A q \in 1..(r - 1) : key[q] = NoConfig

\* SameCachedConfig over the array, in index order.
HitOn(c, r) == key[r] = c /\ \A q \in 1..(r - 1) : key[q] # c

\* (Mutant: a full cache always evicts its first resource.)
VictimIsFirst(r) ==
  IF Cached # Resources
  THEN key[r] = NoConfig /\ \A q \in 1..(r - 1) : key[q] # NoConfig
  ELSE r = 1

\* The victim: the first unconfigured resource, else the smallest last_used.
VictimIs(r) ==
  IF Cached # Resources
  THEN key[r] = NoConfig /\ \A q \in 1..(r - 1) : key[q] # NoConfig
  ELSE \A q \in Resources : lastUsed[r] < lastUsed[q] \/ (lastUsed[r] = lastUsed[q] /\ r <= q)

\* The caller's discipline, and the bounds of the model.
MayLaunch(c) ==
  /\ initialized /\ phase = "idle"
  /\ c \in window \/ Cardinality(window) < Capacity
  /\ useClock < MaxClock /\ Len(stream) < MaxQueued

AfterError == IF RetryAfterError THEN "idle" ELSE "failed"

Enqueue(c, r) == stream' = Append(stream, [cfg |-> c, res |-> r])

-----------------------------------------------------------------------------
Init ==
  /\ initialized = FALSE
  /\ phase = "idle" /\ cfg = NoConfig /\ target = 1 /\ uploaded = 0
  /\ useClock = 0 /\ entries = 0
  /\ key = [r \in Resources |-> NoConfig]
  /\ lastUsed = [r \in Resources |-> 0]
  /\ content = [r \in Resources |-> Loaded(NoConfig)]
  /\ stream = << >> /\ loaded = Loaded(NoConfig)
  /\ applied \in {Loaded(c) : c \in Configs}
  /\ window = {}

\* All allocations succeed; a failed one leaves the cleared context behind.
RuntimeInit ==
  /\ ~initialized /\ phase = "idle"
  /\ initialized' = TRUE
  /\ content' = [r \in Resources |-> Loaded(NoConfig)]
  /\ UNCHANGED <<useClock, entries, key, lastUsed, host, device, window>>

\* RuntimeDestroy frees the arrays and clears the context.  Every caller has
\* synchronised its stream before.
RuntimeDestroy ==
  /\ initialized /\ phase = "idle" /\ stream = << >>
  /\ initialized' = FALSE
  /\ useClock' = 0 /\ entries' = 0
  /\ key' = [r \in Resources |-> NoConfig]
  /\ lastUsed' = [r \in Resources |-> 0]
  /\ window' = {}
  /\ UNCHANGED <<host, device, content>>

\* Launch with a cached plan: touch the resource and queue the kernel, unless
\* the launch itself is refused.
LaunchHit(c, r) ==
  /\ MayLaunch(c) /\ HitOn(c, r)
  /\ useClock' = useClock + 1
  /\ lastUsed' = [lastUsed EXCEPT ![r] = useClock + 1]
  /\ window' = window \union {c}
  /\ \/ Enqueue(c, r) /\ UNCHANGED phase
     \/ phase' = AfterError /\ UNCHANGED stream
  /\ UNCHANGED <<initialized, entries, key, cfg, target, uploaded, loaded, applied, content>>

\* Launch with an unknown configuration: choose the resource to fill.
LaunchMiss(c, r) ==
  /\ MayLaunch(c) /\ \A q \in Resources : key[q] # c
  /\ VictimIs(r)
  /\ useClock' = useClock + 1
  /\ phase' = "uploading" /\ cfg' = c /\ target' = r /\ uploaded' = 0
  /\ window' = window \union {c}
  /\ UNCHANGED <<initialized, entries, key, lastUsed, device, content>>

\* One blocking copy; it returns when the device array is written.
UploadPart ==
  /\ phase = "uploading" /\ uploaded < Len(UploadOrder)
  /\ content' = [content EXCEPT ![target][UploadOrder[uploaded + 1]] = cfg]
  /\ uploaded' = uploaded + 1
  /\ UNCHANGED <<context, phase, cfg, target, device, window>>

\* A copy fails: Configure returns with the resource's old key still in place.
UploadFails ==
  /\ phase = "uploading" /\ uploaded < Len(UploadOrder)
  /\ phase' = AfterError
  /\ UNCHANGED <<context, cfg, target, uploaded, device, content, window>>

\* (Mutant: an eviction counts as a new entry.)
LaunchConfiguredCounts ==
  /\ phase = "uploading" /\ uploaded = Len(UploadOrder)
  /\ entries' = entries + 1
  /\ key' = [key EXCEPT ![target] = cfg]
  /\ lastUsed' = [lastUsed EXCEPT ![target] = useClock]
  /\ \/ Enqueue(cfg, target) /\ phase' = "idle"
     \/ phase' = AfterError /\ UNCHANGED stream
  /\ UNCHANGED <<initialized, useClock, cfg, target, uploaded, loaded, applied, content, window>>

\* The plan is complete: publish its key, then queue the kernel or fail to.
LaunchConfigured ==
  /\ phase = "uploading" /\ uploaded = Len(UploadOrder)
  /\ entries' = IF key[target] = NoConfig THEN entries + 1 ELSE entries
  /\ key' = [key EXCEPT ![target] = cfg]
  /\ lastUsed' = [lastUsed EXCEPT ![target] = useClock]
  /\ \/ Enqueue(cfg, target) /\ phase' = "idle"
     \/ phase' = AfterError /\ UNCHANGED stream
  /\ UNCHANGED <<initialized, useClock, cfg, target, uploaded, loaded, applied, content, window>>

\* The caller's aclrtSynchronizeStream returns: the stream has drained.
Synchronize ==
  /\ phase = "idle" /\ stream = << >> /\ window # {}
  /\ window' = {}
  /\ UNCHANGED <<context, host, device, content>>

\* The oldest kernel's blocks read one of the arrays of its resource.
KernelLoads(p) ==
  /\ stream # << >> /\ loaded[p] = NoConfig
  /\ loaded' = [loaded EXCEPT ![p] = content[Head(stream).res][p]]
  /\ UNCHANGED <<context, host, stream, applied, content, window>>

\* (Mutant: the kernel ends before it has loaded its whole plan.)
KernelEndsEarly ==
  /\ stream # << >>
  /\ applied' = loaded
  /\ loaded' = Loaded(NoConfig)
  /\ stream' = Tail(stream)
  /\ UNCHANGED <<context, host, content, window>>

KernelEnds ==
  /\ stream # << >> /\ \A p \in Parts : loaded[p] # NoConfig
  /\ applied' = loaded
  /\ loaded' = Loaded(NoConfig)
  /\ stream' = Tail(stream)
  /\ UNCHANGED <<context, host, content, window>>

Next ==
  \/ RuntimeInit \/ RuntimeDestroy
  \/ \E c \in Configs, r \in Resources : LaunchHit(c, r) \/ LaunchMiss(c, r)
  \/ UploadPart \/ UploadFails \/ LaunchConfigured
  \/ Synchronize
  \/ \E p \in Parts : KernelLoads(p)
  \/ KernelEnds

Spec == Init /\ [][Next]_vars

-----------------------------------------------------------------------------
TypeOK ==
  /\ initialized \in BOOLEAN
  /\ phase \in {"idle", "uploading", "failed"}
  /\ cfg \in Configs \union {NoConfig}
  /\ target \in Resources
  /\ uploaded \in 0..Len(UploadOrder)
  /\ useClock \in Nat
  /\ entries \in Nat
  /\ key \in [Resources -> Configs \union {NoConfig}]
  /\ lastUsed \in [Resources -> Nat]
  /\ content \in [Resources -> [Parts -> Configs \union {NoConfig}]]
  /\ stream \in Seq([cfg : Configs, res : Resources])
  /\ loaded \in [Parts -> Configs \union {NoConfig}]
  /\ applied \in [Parts -> Configs]
  /\ window \in SUBSET Configs

\* A kernel never loads a part of another configuration's plan: although an
\* upload overwrites device arrays while earlier kernels are still queued, LRU
\* never selects a resource that one of them will read.
KernelUsesItsPlan ==
  stream # << >> => \A p \in Parts : loaded[p] \in {NoConfig, Head(stream).cfg}

\* operator.yaml (config_cache) keys a resource by its configuration: whenever
\* no upload is under way, all four arrays of a configured resource hold the
\* plan of its key, so a hit may be launched without looking at them.
CachedPlanIsWhole ==
  phase = "idle" => \A r \in Cached : content[r] = Loaded(key[r])

\* No two resources hold the same configuration, so the hit a launch takes is
\* the one whose age the LRU order tracks, and cache_entries counts them.
OneResourcePerConfig ==
  /\ \A r, q \in Cached : key[r] = key[q] => r = q
  /\ entries = Cardinality(Cached)

\* The queued kernels execute in order with the plans of their launches.
Launches == INSTANCE LaunchFifo WITH pending <- [k \in DOMAIN stream |-> stream[k].cfg]
ImplementsLaunchFifo == Launches!Spec
===============================================================================
