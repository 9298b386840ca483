------------------------------- MODULE Patch -------------------------------
(***************************************************************************)
(* internal/engine/patch.go: Run.ApplyPatch, the live modification of a    *)
(* run, with the parts of the selector, the collector and the breaker map  *)
(* it changes under the workers' feet.                                     *)
(*                                                                         *)
(* A ScenarioPatch is the sequence of its branches, in ApplyPatch's order. *)
(* patchMu keeps patches apart, not workers: every branch is a step, and a *)
(* TargetsAdd takes one for each structure it extends.  The ID of a target *)
(* of the scenario is its address, as validateTarget makes it; that of an  *)
(* added target is "block/number", here the pair of the two.  A            *)
(* TargetSpec's address is one that fits, or the check it fails.  All      *)
(* blocks use one protocol.                                                *)
(***************************************************************************)
EXTENDS Integers, Sequences, FiniteSets, Functions

CONSTANTS Blocks,       \* block IDs of the scenario
          First,        \* the first of them
          Operators,    \* goroutines calling ApplyPatch
          Workers,      \* worker goroutines
          BlockOf,      \* BlockOf[w]: the block of worker w
          Hosts,        \* addresses validateTarget accepts
          Targets,      \* Targets[b]: the addresses of block b in the scenario
          Under,        \* Under[b]: b, and the blocks whose IDs begin with "b/"
          CapFields,    \* fields of CapPatch
          InitialCaps, InitialWeights,
          Patches,      \* the patches the operators apply
          MaxPatches,   \* bound on their number
          Free,         \* nobody holds patchMu
          NoTarget      \* the worker is not looking a breaker up

ASSUME PatchAssumption ==
    /\ First \in Blocks /\ IsFiniteSet(Blocks)
    /\ BlockOf \in [Workers -> Blocks]
    /\ Targets \in [Blocks -> Seq(Hosts)]
    /\ Under \in [Blocks -> SUBSET Blocks] /\ \A b \in Blocks : b \in Under[b]
    /\ \A h \in Hosts : h \notin Blocks \X Nat   \* no address has a slash
    /\ InitialCaps \in [CapFields -> Nat]
    /\ InitialWeights \in [Blocks -> Nat \ {0}]
    /\ MaxPatches \in Nat
    /\ Free \notin Operators

(* The fields of a ScenarioPatch; caps and limits may be any integer.      *)
IsBranch(i) ==
    \/ i.kind = "caps" /\ i.set \in [DOMAIN i.set -> Int]
    \/ i.kind \in {"concurrency", "weights", "rotation", "add", "disable"}

ASSUME BranchAssumption ==
    \A p \in Patches : /\ p \in Seq({p[i] : i \in DOMAIN p})
                       /\ \A i \in DOMAIN p : IsBranch(p[i])

VARIABLES patchMu,   \* holder of Run.patchMu, or Free
          todo,      \* branches the holder has still to do
          result,    \* outcome of each operator's last call
          caps,      \* Run.caps
          capOverride, \* Run.capOverride
          limit,     \* limit of Run.sem, the first block's semaphore
          weights,   \* Run.weights
          interval,  \* rotation interval of Run.selector
          selector,  \* targets each block's selector rotates over
          shards,    \* collector.targetIDs
          breakers,  \* keys of Run.breakers
          forced,    \* targets whose breaker was forced open
          writing,   \* a write to the breaker map is in progress
          reading,   \* target whose breaker each worker is looking up
          log,       \* audit events
          patches,   \* ApplyPatch calls so far
          before,    \* history: the settings when patchMu was taken
          lowest     \* history: the lowest value of each cap so far

settings == <<caps, limit, weights, interval, selector, shards, breakers, forced>>
targetVars == <<selector, shards, breakers, forced>>
vars == <<patchMu, todo, result, caps, capOverride, limit, weights, interval, selector, shards, breakers,
          forced, writing, reading, log, patches, before, lowest>>

AddedIDs == Blocks \X Nat
TargetIDs == Hosts \cup AddedIDs

(* validateTarget: ID and address of a target are the same string; blocks  *)
(* may share it.                                                           *)
InitialTargets(b) == Range(Targets[b])

(* targetIDsOf: each ID once, whatever the number of blocks that name it.  *)
targetIDsOf == UNION {InitialTargets(b) : b \in Blocks}

TypeOK == /\ patchMu \in Operators \cup {Free}
          /\ patchMu = Free => todo = <<>>
          /\ result \in [Operators -> {"none", "pending", "ok", "rejected", "unaudited"}]
          /\ caps \in [CapFields -> Nat]
          /\ capOverride \in BOOLEAN
          /\ limit \in Nat \ {0}
          /\ weights \in [Blocks -> Nat \ {0}]
          /\ interval \in Nat
          /\ selector \in [Blocks -> SUBSET TargetIDs]
          /\ shards \subseteq TargetIDs
          /\ breakers \subseteq TargetIDs
          /\ forced \subseteq breakers
          /\ writing \in BOOLEAN
          /\ reading \in [Workers -> TargetIDs \cup {NoTarget}]
          /\ log \in Seq({"CapOverrideEnabled", "ScenarioPatched"})
          /\ patches \in 0..MaxPatches
          /\ lowest \in [CapFields -> Nat]

Init == /\ patchMu = Free
        /\ todo = <<>>
        /\ result = [o \in Operators |-> "none"]
        /\ caps = InitialCaps
        /\ capOverride \in BOOLEAN
        /\ limit = 1
        /\ weights = InitialWeights
        /\ interval = 0
        /\ selector = [b \in Blocks |-> InitialTargets(b)]
        /\ shards = targetIDsOf
        /\ breakers = targetIDsOf
        /\ forced = {}
        /\ writing = FALSE
        /\ reading = [w \in Workers |-> NoTarget]
        /\ log = <<>>
        /\ patches = 0
        /\ before = settings
        /\ lowest = InitialCaps

-----------------------------------------------------------------------------
(* ApplyPatch takes patchMu.  The audit event comes last.                  *)
ApplyPatch(o, p) ==
    /\ patchMu = Free
    /\ patches < MaxPatches
    /\ patches' = patches + 1
    /\ patchMu' = o
    /\ todo' = Append(p, [kind |-> "finish"])
    /\ result' = [result EXCEPT ![o] = "pending"]
    /\ before' = settings
    /\ UNCHANGED <<settings, capOverride, writing, reading, log, lowest>>

At(kind) == todo # <<>> /\ Head(todo).kind = kind
Item == Head(todo)

(* A branch is done / ApplyPatch returns.                                  *)
Continue == todo' = Tail(todo) /\ UNCHANGED <<patchMu, result>>

Return(r) == /\ todo' = <<>>
             /\ patchMu' = Free
             /\ result' = [result EXCEPT ![patchMu] = r]

rest == <<capOverride, writing, reading, patches, before>>

Reject == /\ Return("rejected")
          /\ UNCHANGED <<settings, log, lowest, rest>>

(* audit.Append returned an error.                                         *)
Unaudited == /\ Return("unaudited")
             /\ UNCHANGED <<settings, log, lowest, rest>>

-----------------------------------------------------------------------------
WithPatch(set) == [f \in CapFields |-> IF f \in DOMAIN set THEN set[f] ELSE caps[f]]

(* Mutant: a patch that also lowers a cap is taken for a lowering.         *)
capsRaisedAll(next) == \A f \in CapFields : next[f] > caps[f]

capsRaised(next) == \E f \in CapFields : next[f] > caps[f]

SetCaps(next) ==
    /\ caps' = next
    /\ lowest' = [f \in CapFields |-> IF next[f] < lowest[f] THEN next[f] ELSE lowest[f]]
    /\ Continue
    /\ UNCHANGED <<limit, weights, interval, targetVars, rest>>

(* Caps go down freely, up under the override flag and on the record only. *)
patchCaps ==
    LET next == WithPatch(Item.set)
    IN /\ At("caps")
       /\ \/ ~capsRaised(next) /\ SetCaps(next) /\ UNCHANGED log
          \/ capsRaised(next) /\ ~capOverride /\ Reject
          \/ /\ capsRaised(next) /\ capOverride
             /\ \/ SetCaps(next) /\ log' = Append(log, "CapOverrideEnabled")
                \/ Unaudited

patchConcurrency ==
    /\ At("concurrency")
    /\ \/ Item.n <= 0 /\ Reject
       \/ /\ Item.n > 0
          /\ limit' = Item.n
          /\ Continue
          /\ UNCHANGED <<caps, weights, interval, targetVars, log, lowest, rest>>

gcd[a \in Nat, b \in Nat] == IF b = 0 THEN a ELSE gcd[b, a % b]

GcdOf(f) == FoldFunction(LAMBDA x, y : gcd[x, y], 0, f)

(* Blocks the patch does not name keep the weight they have.               *)
Merged(set) == [b \in Blocks |-> IF b \in DOMAIN set THEN set[b] ELSE weights[b]]

normalizeWeights(set) == LET m == Merged(set) IN [b \in Blocks |-> m[b] \div GcdOf(m)]

patchWeights ==
    /\ At("weights")
    /\ \/ /\ \E b \in DOMAIN Item.set : b \notin Blocks \/ Item.set[b] = 0
          /\ Reject
       \/ /\ \A b \in DOMAIN Item.set : b \in Blocks /\ Item.set[b] # 0
          /\ weights' = normalizeWeights(Item.set)
          /\ Continue
          /\ UNCHANGED <<caps, limit, interval, targetVars, log, lowest, rest>>

patchRotation ==
    /\ At("rotation")
    /\ \/ Item.sec < 0 /\ Reject
       \/ /\ Item.sec >= 0
          /\ interval' = Item.sec
          /\ Continue
          /\ UNCHANGED <<caps, limit, weights, targetVars, log, lowest, rest>>

-----------------------------------------------------------------------------
(* The shards whose IDs begin with "b/", less the targets of the scenario, *)
(* which the comment takes to be among them.                               *)
addedTargets(b) ==
    LET n == Cardinality({t \in shards \cap AddedIDs : t[1] \in Under[b]})
    IN IF n < Len(Targets[b]) THEN 0 ELSE n - Len(Targets[b])

(* Mutant: an added target is named by its address, as validateTarget does.*)
NextTargetIDAddr(spec) == spec.addr

NextTargetID(spec) == <<spec.block, Len(Targets[spec.block]) + addedTargets(spec.block)>>

blockByID(id) == id \in Blocks

(* An address does not parse, has another protocol's scheme, lies outside  *)
(* allowed_domains, or fits.                                               *)
structuralCheck(addr) == addr \notin {"unparsable", "otherScheme"}
hostPermitted(addr) == addr # "outside"

acceptable(spec) ==
    blockByID(spec.block) /\ structuralCheck(spec.addr) /\ hostPermitted(spec.addr)

(* One TargetSpec: checked, then added to Run.selector, whatever its block *)
(* (the selector of the first one); the collector and the breaker map are  *)
(* still to come.                                                          *)
patchTargetsAdd ==
    /\ At("add")
    /\ \/ ~acceptable(Item) /\ Reject
       \/ /\ acceptable(Item)
          /\ LET tid == NextTargetID(Item)
             IN /\ selector' = [selector EXCEPT ![First] = @ \cup {tid}]
                /\ todo' = <<[kind |-> "shard", tid |-> tid], [kind |-> "breaker", tid |-> tid]>>
                             \o Tail(todo)
          /\ UNCHANGED <<patchMu, result, caps, limit, weights, interval, shards, breakers,
                         forced, log, lowest, rest>>

(* Mutant: no shard is made for an added target.                           *)
addShardForgotten ==
    /\ At("shard")
    /\ Continue
    /\ UNCHANGED <<settings, log, lowest, rest>>

(* A target that has a shard keeps it.                                     *)
addShard ==
    /\ At("shard")
    /\ shards' = shards \cup {Item.tid}
    /\ Continue
    /\ UNCHANGED <<caps, limit, weights, interval, selector, breakers, forced, log, lowest, rest>>

(* The write to the breaker map takes time and no lock workers know of.    *)
addBreakerBegins ==
    /\ At("breaker")
    /\ ~writing
    /\ writing' = TRUE
    /\ UNCHANGED <<patchMu, todo, result, settings, reading, log, capOverride, patches, before,
                   lowest>>

(* A new breaker is closed, one that was there is replaced.                *)
addBreakerEnds ==
    /\ At("breaker")
    /\ writing
    /\ writing' = FALSE
    /\ breakers' = breakers \cup {Item.tid}
    /\ forced' = forced \ {Item.tid}
    /\ Continue
    /\ UNCHANGED <<caps, limit, weights, interval, selector, shards, reading, log, capOverride,
                   patches, before, lowest>>

patchTargetsDisable ==
    /\ At("disable")
    /\ \/ Item.tid \notin breakers /\ Reject
       \/ /\ Item.tid \in breakers
          /\ forced' = forced \cup {Item.tid}
          /\ Continue
          /\ UNCHANGED <<caps, limit, weights, interval, selector, shards, breakers, log, lowest,
                         rest>>

(* The mandatory event; a sink that fails leaves the patch applied.        *)
finishPatch ==
    /\ At("finish")
    /\ \/ /\ Return("ok")
          /\ log' = Append(log, "ScenarioPatched")
          /\ UNCHANGED <<settings, lowest, rest>>
       \/ Unaudited

-----------------------------------------------------------------------------
(* A worker looks up the breaker of the target its block's selector gave   *)
(* it, an unsynchronised read of the map.                                  *)
LookupBegins(w) ==
    /\ reading[w] = NoTarget
    /\ \E t \in selector[BlockOf[w]] : reading' = [reading EXCEPT ![w] = t]
    /\ UNCHANGED <<patchMu, todo, result, settings, writing, log, capOverride, patches, before,
                   lowest>>

LookupEnds(w) ==
    /\ reading[w] # NoTarget
    /\ reading' = [reading EXCEPT ![w] = NoTarget]
    /\ UNCHANGED <<patchMu, todo, result, settings, writing, log, capOverride, patches, before,
                   lowest>>

Branch == \/ patchCaps \/ patchConcurrency \/ patchWeights \/ patchRotation
          \/ patchTargetsAdd \/ addShard \/ addBreakerBegins \/ addBreakerEnds
          \/ patchTargetsDisable \/ finishPatch

Next == \/ \E o \in Operators, p \in Patches : ApplyPatch(o, p)
        \/ Branch
        \/ \E w \in Workers : LookupBegins(w) \/ LookupEnds(w)

Spec == Init /\ [][Next]_vars

-----------------------------------------------------------------------------
(* Between patches every target a worker can be given has a breaker and a  *)
(* shard, after patches that were rejected half-way too.                   *)
TargetsComplete ==
    patchMu = Free => \A b \in Blocks : selector[b] \subseteq shards \cap breakers

(* A target of the scenario that TargetsDisable forced open is not closed  *)
(* by any later patch: no TargetsAdd takes its ID and replaces its breaker *)
(* or joins its statistics.  (Another added target's, it may: see          *)
(* AddAppendsShard.)                                                       *)
FrozenStayDisabled ==
    [][/\ forced \cap targetIDsOf \subseteq forced'
       /\ At("shard") \/ At("breaker") => Item.tid \notin targetIDsOf]_vars

(* The caps are a ratchet: until an override is on the audit trail, none   *)
(* has ever been above a value it had before.  (As numbers: a cap patched  *)
(* to 0, which elsewhere stands for no cap, is a lowering to ApplyPatch.)  *)
CapsRatchet ==
    (\A i \in 1..Len(log) : log[i] # "CapOverrideEnabled") => caps = lowest

(* Normalising keeps the mix: the weights are in the proportion of the     *)
(* patch's and the remaining ones, in lowest terms.                        *)
MixKept ==
    [][weights' # weights =>
          LET m == Merged(Item.set)
          IN /\ \A b, c \in Blocks : weights'[b] * m[c] = weights'[c] * m[b]
             /\ \A d \in 2..weights'[First] : \E b \in Blocks : weights'[b] % d # 0]_vars

-----------------------------------------------------------------------------
(* Claims of the comments that the code does not keep.                     *)

(* patch.go:45-46 "On any rejection nothing is mutated".                   *)
RejectionMutatesNothing ==
    [][\A o \in Operators : result[o] = "pending" /\ result'[o] = "rejected" =>
          settings' = before]_vars

(* patch_targets_add_test.go:11-13 "on success, appends a stats shard so    *)
(* the new target is reportable": every added target gets a shard, so an   *)
(* ID, of its own.                                                         *)
AddAppendsShard == [][At("shard") /\ todo' # todo => shards' # shards]_vars

(* patch.go:25 "TargetSpec is a single target to append to a block's       *)
(* frozen allowlist": it joins the rotation of that block.                 *)
AddedToItsBlock ==
    \A b \in Blocks : \A t \in selector[b] \cap AddedIDs : t[1] = b

(* worker.go:16-17 "It is assembled once per vuser by the supervisor       *)
(* (Module E5) and is read-only for the worker's life": no worker reads    *)
(* the breaker map during a write.                                         *)
DepsReadOnly == writing => \A w \in Workers : reading[w] = NoTarget
=============================================================================
