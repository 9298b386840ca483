----------------------------- MODULE PatchProofs -----------------------------
(***************************************************************************)
(* What live patches keep, for any blocks, any number of operators and     *)
(* workers, and any patches, applied in part or rejected on the way.       *)
(***************************************************************************)
EXTENDS Patch, FiniteSetTheorems, TLAPS

(* A sequence, of whatever its elements are.                               *)
IsSeq(f) == f \in Seq({f[i] : i \in DOMAIN f})

(* Two branches of a TargetsAdd follow each other at the head; the others  *)
(* are the patch's own, and the audit event.                               *)
Shaped(s) ==
    /\ IsSeq(s)
    /\ \A i \in DOMAIN s :
          \/ IsBranch(s[i]) \/ s[i].kind = "finish"
          \/ i = 1 /\ s[i].kind = "shard" /\ 2 \in DOMAIN s /\ s[2].kind = "breaker"
                   /\ s[2].tid = s[1].tid
          \/ s[i].kind = "breaker" /\ (i = 1 \/ (i = 2 /\ s[1].kind = "shard"))

(* What is still to be done for the target being added.                    *)
Unsharded == IF At("shard") THEN {Item.tid} ELSE {}
Unbroken == IF At("breaker") THEN {Item.tid} ELSE {}

(* Who holds patchMu, and what is left to do.                              *)
Busy == Shaped(todo) /\ (patchMu = Free => todo = <<>>)

(* The three structures agree, but for the target being added, whose ID is *)
(* of the kind no target of the scenario has.                              *)
Agree ==
    /\ IsFiniteSet(shards)
    /\ At("shard") \/ At("breaker") => Item.tid \in AddedIDs
    /\ shards = breakers \cup Unbroken
    /\ forced \subseteq breakers
    /\ selector = [b \in Blocks |-> selector[b]]
    /\ \A b \in Blocks : selector[b] \subseteq shards \cup Unsharded

(* The events of a patch, and the caps they are compared with.             *)
Events == {"CapOverrideEnabled", "ScenarioPatched"}
Ratchet ==
    /\ caps \in [CapFields -> Int]
    /\ lowest \in [CapFields -> Int]
    /\ log \in Seq(Events)
    /\ CapsRatchet

(* The inductive invariant.                                                *)
PatchInv == Busy /\ Agree /\ Ratchet

-----------------------------------------------------------------------------
(* The facts about sequences the proofs use.                               *)
LEMMA SeqFacts ==
    ASSUME NEW f, IsSeq(f)
    PROVE  /\ Len(f) \in Nat /\ DOMAIN f = 1..Len(f)
           /\ f = [i \in 1..Len(f) |-> f[i]]
           /\ f = <<>> <=> Len(f) = 0
           /\ f # <<>> => Head(f) = f[1]
  BY DEF IsSeq

(* A function on 1..n is a sequence of length n.                           *)
LEMMA SeqOfFun ==
    ASSUME NEW n \in Nat, NEW f, f = [i \in 1..n |-> f[i]]
    PROVE  IsSeq(f) /\ Len(f) = n
  <1>1. f \in [1..n -> {f[i] : i \in 1..n}] /\ DOMAIN f = 1..n
      OBVIOUS
  <1> QED
      BY <1>1 DEF IsSeq

(* A sequence of a given type is a sequence.                               *)
LEMMA SeqOfType ==
    ASSUME NEW S, NEW g \in Seq(S)
    PROVE  IsSeq(g)
  <1>1. Len(g) \in Nat /\ g = [i \in 1..Len(g) |-> g[i]]
      OBVIOUS
  <1> QED
      BY <1>1, SeqOfFun

(* A sequence is one of any larger set.                                    *)
LEMMA SeqWiden ==
    ASSUME NEW f, IsSeq(f), NEW X
    PROVE  f \in Seq({f[i] : i \in DOMAIN f} \cup X)
  <1> DEFINE S == {f[i] : i \in DOMAIN f} \cup X
  <1>1. Len(f) \in Nat /\ f \in [1..Len(f) -> S]
      BY SeqFacts
  <1> QED
      BY <1>1

(* Append adds one element and keeps the others.                           *)
LEMMA SeqAppend ==
    ASSUME NEW f, IsSeq(f), NEW x
    PROVE  /\ IsSeq(Append(f, x)) /\ Len(Append(f, x)) = Len(f) + 1
           /\ Append(f, x)[Len(f) + 1] = x
           /\ \A i \in 1..Len(f) : Append(f, x)[i] = f[i]
  <1> DEFINE S == {f[i] : i \in DOMAIN f} \cup {x}
  <1>1. f \in Seq(S) /\ x \in S
      BY SeqWiden
  <1> HIDE DEF S
  <1>2. /\ Append(f, x) \in Seq(S) /\ Len(Append(f, x)) = Len(f) + 1
        /\ Append(f, x)[Len(f) + 1] = x
        /\ \A i \in 1..Len(f) : Append(f, x)[i] = f[i]
      BY <1>1
  <1>3. IsSeq(Append(f, x))
      BY <1>2, SeqOfType
  <1> QED
      BY <1>2, <1>3

(* Tail drops the first element.                                           *)
LEMMA SeqTail ==
    ASSUME NEW f, IsSeq(f), f # <<>>
    PROVE  /\ IsSeq(Tail(f)) /\ Len(Tail(f)) = Len(f) - 1 /\ Len(f) - 1 \in Nat
           /\ \A i \in 1..(Len(f) - 1) : Tail(f)[i] = f[i + 1]
  <1>1. Len(f) - 1 \in Nat
      BY SeqFacts
  <1>2. /\ Tail(f) \in Seq({f[i] : i \in DOMAIN f}) /\ Len(Tail(f)) = Len(f) - 1
        /\ \A i \in 1..(Len(f) - 1) : Tail(f)[i] = f[i + 1]
      BY DEF IsSeq
  <1>3. IsSeq(Tail(f))
      BY <1>2, SeqOfType
  <1> QED
      BY <1>1, <1>2, <1>3

(* Two elements put before a sequence.                                     *)
LEMMA SeqPush ==
    ASSUME NEW f, IsSeq(f), NEW x, NEW y, NEW g, g = <<x, y>> \o f
    PROVE  /\ IsSeq(g) /\ Len(g) = Len(f) + 2
           /\ g[1] = x /\ g[2] = y
           /\ \A i \in 1..Len(f) : g[i + 2] = f[i]
  <1> DEFINE S == {f[i] : i \in DOMAIN f} \cup {x, y}
  <1>1. f \in Seq(S) /\ x \in S /\ y \in S
      BY SeqWiden
  <1> HIDE DEF S
  <1>2. <<x, y>> \in Seq(S) /\ Len(<<x, y>>) = 2
      BY <1>1
  <1>3. Len(f) \in Nat
      BY SeqFacts
  <1>4. g \in Seq(S) /\ Len(g) = Len(f) + 2
      BY <1>1, <1>2, <1>3
  <1>5. g[1] = x /\ g[2] = y /\ \A i \in 1..Len(f) : g[i + 2] = f[i]
      BY <1>1, <1>2, <1>3
  <1>6. IsSeq(g)
      BY <1>4, SeqOfType
  <1> QED
      BY <1>4, <1>5, <1>6

-----------------------------------------------------------------------------
(* The values of a function on a finite set are finitely many.             *)
LEMMA FiniteRange ==
    ASSUME NEW S, IsFiniteSet(S), NEW f, f = [x \in S |-> f[x]]
    PROVE  IsFiniteSet({f[x] : x \in S})
  <1> DEFINE T == {f[x] : x \in S}
  <1>1. f \in [S -> T] /\ \A t \in T : \E x \in S : f[x] = t
      OBVIOUS
  <1> HIDE DEF T
  <1>2. f \in Surjection(S, T)
      BY <1>1, Zenon DEF Surjection
  <1> QED
      BY <1>2, FS_Surjection DEF T

(* The targets of the scenario are finitely many, and none has the ID of   *)
(* an added one.                                                           *)
LEMMA FrozenFacts ==
    /\ IsFiniteSet(targetIDsOf)
    /\ \A t \in targetIDsOf : t \notin AddedIDs
  <1>1. \A b \in Blocks : Targets[b] \in Seq(Hosts)
      BY PatchAssumption
  <1>2. \A b \in Blocks : InitialTargets(b) \subseteq Hosts /\ IsFiniteSet(InitialTargets(b))
    <2> TAKE b \in Blocks
    <2> DEFINE g == Targets[b]
               S == {g[i] : i \in 1..Len(g)}
    <2>1. g \in Seq(Hosts)
      BY <1>1
    <2>2. Len(g) \in Nat /\ DOMAIN g = 1..Len(g) /\ \A i \in 1..Len(g) : g[i] \in Hosts
      BY <2>1
    <2>0. g = [i \in 1..Len(g) |-> g[i]]
      BY <2>1
    <2> HIDE DEF g
    <2>3. IsFiniteSet(1..Len(g))
      BY <2>2, FS_Interval
    <2>4. IsFiniteSet(S)
      BY <2>0, <2>3, FiniteRange
    <2>5. Range(g) = S
      BY <2>2 DEF Range
    <2>6. S \subseteq Hosts
      BY <2>2
    <2> QED
      BY <2>4, <2>5, <2>6 DEF InitialTargets, g
  <1>3. IsFiniteSet({InitialTargets(b) : b \in Blocks})
    <2> DEFINE f == [b \in Blocks |-> InitialTargets(b)]
    <2>1. f = [b \in Blocks |-> f[b]] /\ {f[b] : b \in Blocks} = {InitialTargets(b) : b \in Blocks}
      OBVIOUS
    <2>2. IsFiniteSet({f[b] : b \in Blocks})
      <3> HIDE DEF f
      <3> QED
          BY <2>1, FiniteRange, PatchAssumption
    <2> QED
      BY <2>1, <2>2
  <1>4. IsFiniteSet(UNION {InitialTargets(b) : b \in Blocks})
      BY <1>2, <1>3, FS_UNION
  <1>5. \A t \in targetIDsOf : t \in Hosts
      BY <1>2 DEF targetIDsOf
  <1> QED
      BY <1>4, <1>5, PatchAssumption DEF targetIDsOf, AddedIDs

(* The number ApplyPatch gives an added target is one.                     *)
LEMMA NextIsAdded ==
    ASSUME IsFiniteSet(shards), NEW spec, spec.block \in Blocks
    PROVE  NextTargetID(spec) \in AddedIDs
  <1> DEFINE b == spec.block
             own == {t \in shards \cap AddedIDs : t[1] \in Under[b]}
  <1>1. Len(Targets[b]) \in Nat
    <2>1. Targets[b] \in Seq(Hosts)
      BY PatchAssumption
    <2> QED
      BY <2>1
  <1>2. Cardinality(own) \in Nat
    <2>1. IsFiniteSet(own)
      BY FS_Subset
    <2> QED
      BY <2>1, FS_CardinalityType
  <1>3. addedTargets(b) = IF Cardinality(own) < Len(Targets[b]) THEN 0
                          ELSE Cardinality(own) - Len(Targets[b])
      BY DEF addedTargets
  <1> HIDE DEF own
  <1>4. addedTargets(b) \in Nat
      BY <1>1, <1>2, <1>3
  <1>5. Len(Targets[b]) + addedTargets(b) \in Nat
      BY <1>1, <1>4
  <1> QED
      BY <1>5 DEF NextTargetID, AddedIDs

-----------------------------------------------------------------------------
(* No branch of a patch is one of the steps of a TargetsAdd.               *)
LEMMA BranchKinds ==
    ASSUME NEW i, IsBranch(i)
    PROVE  i.kind \notin {"shard", "breaker", "finish"}
  BY DEF IsBranch

(* A patch and the audit event after it.                                   *)
LEMMA ShapedPatch ==
    ASSUME NEW p \in Patches, NEW s, s = Append(p, [kind |-> "finish"])
    PROVE  Shaped(s) /\ s # <<>> /\ Head(s).kind \notin {"shard", "breaker"}
  <1> DEFINE e == [kind |-> "finish"]
  <1>1. IsSeq(p) /\ \A i \in DOMAIN p : IsBranch(p[i])
      BY BranchAssumption DEF IsSeq
  <1>2. Len(p) \in Nat /\ DOMAIN p = 1..Len(p)
      BY <1>1, SeqFacts
  <1>3. e.kind = "finish"
      OBVIOUS
  <1> HIDE DEF e
  <1>4. /\ IsSeq(s) /\ Len(s) = Len(p) + 1 /\ s[Len(p) + 1] = e
        /\ \A i \in 1..Len(p) : s[i] = p[i]
      BY <1>1, SeqAppend DEF e
  <1>5. DOMAIN s = 1..(Len(p) + 1) /\ (s = <<>> <=> Len(s) = 0) /\ (s # <<>> => Head(s) = s[1])
      BY <1>4, SeqFacts
  <1>6. \A i \in DOMAIN s : i \in 1..Len(p) \/ i = Len(p) + 1
      BY <1>2, <1>5
  <1>7. \A i \in DOMAIN s : IsBranch(s[i]) \/ s[i].kind = "finish"
      BY <1>1, <1>2, <1>3, <1>4, <1>6
  <1>8. 1 \in DOMAIN s /\ s # <<>>
      BY <1>2, <1>4, <1>5
  <1>9. Head(s).kind \notin {"shard", "breaker"}
      BY <1>5, <1>7, <1>8, BranchKinds
  <1> QED
      BY <1>4, <1>7, <1>8, <1>9 DEF Shaped

(* After a branch comes another one; after a shard its breaker.            *)
LEMMA ShapedTail ==
    ASSUME NEW s, Shaped(s), s # <<>>, NEW r, r = Tail(s)
    PROVE  /\ Shaped(r)
           /\ Head(s).kind # "shard" => r = <<>> \/ Head(r).kind \notin {"shard", "breaker"}
           /\ Head(s).kind = "shard" =>
                 r # <<>> /\ Head(r).kind = "breaker" /\ Head(r).tid = Head(s).tid
  <1>1. IsSeq(s)
      BY DEF Shaped
  <1>2. /\ Len(s) \in Nat /\ DOMAIN s = 1..Len(s) /\ Head(s) = s[1] /\ Len(s) # 0
      BY <1>1, SeqFacts
  <1>3. /\ IsSeq(r) /\ Len(r) = Len(s) - 1
        /\ \A i \in 1..(Len(s) - 1) : r[i] = s[i + 1]
      BY <1>1, SeqTail
  <1>4. /\ DOMAIN r = 1..(Len(s) - 1) /\ (r = <<>> <=> Len(r) = 0)
        /\ (r # <<>> => Head(r) = r[1])
      BY <1>3, SeqFacts
  <1>5. \A i \in DOMAIN r : i + 1 \in DOMAIN s /\ i + 1 # 1 /\ r[i] = s[i + 1]
                            /\ (i + 1 = 2 => i = 1)
      BY <1>2, <1>3, <1>4
  <1>6. \A i \in DOMAIN r :
            \/ IsBranch(r[i]) \/ r[i].kind = "finish"
            \/ r[i].kind = "breaker" /\ i = 1 /\ s[1].kind = "shard"
      BY <1>5, Zenon DEF Shaped
  <1>7. Shaped(r)
      BY <1>3, <1>6, Zenon DEF Shaped
  <1>8. r # <<>> => 1 \in DOMAIN r /\ Head(r) = r[1]
      BY <1>2, <1>3, <1>4
  <1>9. Head(s).kind # "shard" => r = <<>> \/ Head(r).kind \notin {"shard", "breaker"}
    <2> SUFFICES ASSUME Head(s).kind # "shard", r # <<>>
                 PROVE  Head(r).kind \notin {"shard", "breaker"}
      OBVIOUS
    <2>1. IsBranch(r[1]) \/ r[1].kind = "finish"
      BY <1>2, <1>6, <1>8
    <2> QED
      BY <1>8, <2>1, BranchKinds
  <1>10. Head(s).kind = "shard" =>
             r # <<>> /\ Head(r).kind = "breaker" /\ Head(r).tid = Head(s).tid
    <2> SUFFICES ASSUME s[1].kind = "shard"
                 PROVE  r # <<>> /\ Head(r).kind = "breaker" /\ Head(r).tid = s[1].tid
      BY <1>2
    <2>0. 1 \in DOMAIN s
      BY <1>2
    <2>1. 2 \in DOMAIN s /\ s[2].kind = "breaker" /\ s[2].tid = s[1].tid
      BY <2>0, BranchKinds DEF Shaped
    <2>2. r # <<>> /\ r[1] = s[2]
      BY <1>2, <1>3, <1>4, <2>1
    <2> QED
      BY <1>8, <2>1, <2>2
  <1> QED
      BY <1>7, <1>9, <1>10

(* A TargetsAdd puts its two further steps at the head.                    *)
LEMMA ShapedAdd ==
    ASSUME NEW r, Shaped(r), r = <<>> \/ Head(r).kind \notin {"shard", "breaker"},
           NEW tid, NEW x, NEW y, NEW g, g = <<x, y>> \o r,
           x.kind = "shard", x.tid = tid, y.kind = "breaker", y.tid = tid
    PROVE  Shaped(g) /\ g # <<>> /\ Head(g).kind = "shard" /\ Head(g).tid = tid
  <1>1. IsSeq(r) /\ Len(r) \in Nat /\ DOMAIN r = 1..Len(r) /\ (r = <<>> <=> Len(r) = 0)
        /\ (r # <<>> => Head(r) = r[1])
      BY SeqFacts DEF Shaped
  <1>2. /\ IsSeq(g) /\ Len(g) = Len(r) + 2 /\ g[1] = x /\ g[2] = y
        /\ \A i \in 1..Len(r) : g[i + 2] = r[i]
    <2>1. IsSeq(r)
      BY <1>1
    <2>2. IsSeq(g)
      BY <2>1, SeqPush
    <2>5. Len(g) = Len(r) + 2
      BY <2>1, SeqPush
    <2>3. g[1] = x /\ g[2] = y
      BY <2>1, SeqPush
    <2>4. \A i \in 1..Len(r) : g[i + 2] = r[i]
      BY <2>1, SeqPush
    <2> QED
      BY <2>2, <2>3, <2>4, <2>5
  <1>3. DOMAIN g = 1..(Len(r) + 2) /\ (g = <<>> <=> Len(g) = 0) /\ (g # <<>> => Head(g) = g[1])
      BY <1>2, SeqFacts
  <1>4. 1 \in DOMAIN g /\ 2 \in DOMAIN g /\ g # <<>>
      BY <1>1, <1>2, <1>3
  <1>5. \A i \in DOMAIN g : i = 1 \/ i = 2 \/ (i - 2 \in DOMAIN r /\ g[i] = r[i - 2])
    <2> SUFFICES ASSUME NEW i \in DOMAIN g, i # 1, i # 2
                 PROVE  i - 2 \in DOMAIN r /\ g[i] = r[i - 2]
      OBVIOUS
    <2>1. i - 2 \in 1..Len(r) /\ (i - 2) + 2 = i
      BY <1>1, <1>3
    <2> QED
      BY <1>1, <1>2, <2>1
  <1>6. \A j \in DOMAIN r : IsBranch(r[j]) \/ r[j].kind = "finish"
    <2> SUFFICES ASSUME NEW j \in DOMAIN r, ~IsBranch(r[j]), r[j].kind # "finish"
                 PROVE  FALSE
      OBVIOUS
    <2>1. r # <<>> /\ 1 \in DOMAIN r
      BY <1>1
    <2>2. r[1].kind \notin {"shard", "breaker"}
      BY <1>1, <2>1
    <2> QED
      BY <2>2 DEF Shaped
  <1>7. \A i \in DOMAIN g :
          \/ IsBranch(g[i]) \/ g[i].kind = "finish"
          \/ i = 1 /\ g[i].kind = "shard" /\ 2 \in DOMAIN g /\ g[2].kind = "breaker"
                   /\ g[2].tid = g[1].tid
          \/ g[i].kind = "breaker" /\ (i = 1 \/ (i = 2 /\ g[1].kind = "shard"))
    <2>1. g[1].kind = "shard" /\ g[1].tid = tid /\ g[2].kind = "breaker" /\ g[2].tid = tid
      BY <1>2
    <2> TAKE i \in DOMAIN g
    <2>2. CASE i = 1 \/ i = 2
      BY <1>4, <2>1, <2>2
    <2>3. CASE i # 1 /\ i # 2
      BY <1>5, <1>6, <2>3
    <2> QED
      BY <2>2, <2>3
  <1> QED
      BY <1>2, <1>3, <1>4, <1>7 DEF Shaped

-----------------------------------------------------------------------------
(* No target is being added.                                               *)
Plain == ~At("shard") /\ ~At("breaker")

(* A branch that touches no target leaves the structures in agreement.     *)
LEMMA AgreeQuiet ==
    ASSUME Agree, UNCHANGED targetVars, (Plain /\ Plain') \/ todo' = todo
    PROVE  Agree'
  <1>1. shards' = shards /\ breakers' = breakers /\ forced' = forced /\ selector' = selector
      BY DEF targetVars
  <1>2. CASE Plain /\ Plain'
    <2>1. Unsharded' = Unsharded /\ Unbroken' = Unbroken
      BY <1>2, Zenon DEF Plain, Unsharded, Unbroken
    <2> QED
      BY <1>1, <1>2, <2>1 DEF Agree, Plain
  <1>3. CASE todo' = todo
    <2>1. Item' = Item /\ (At("shard"))' = At("shard") /\ (At("breaker"))' = At("breaker")
      BY <1>3 DEF Item, At
    <2>2. Unsharded' = Unsharded /\ Unbroken' = Unbroken
      BY <2>1 DEF Unsharded, Unbroken
    <2> QED
      BY <1>1, <2>1, <2>2 DEF Agree
  <1> QED
      BY <1>2, <1>3

(* ApplyPatch returns: nothing is left to do.                              *)
LEMMA ReturnFacts ==
    ASSUME NEW r, Return(r)
    PROVE  Busy' /\ Plain'
  <1>1. todo' = <<>>
      BY DEF Return
  <1>2. IsSeq(<<>>) /\ DOMAIN <<>> = {}
      BY DEF IsSeq
  <1>3. Shaped(todo')
      BY <1>1, <1>2 DEF Shaped
  <1> QED
      BY <1>1, <1>3 DEF Busy, Plain, At

(* A branch of the patch itself, not of a TargetsAdd, is done.             *)
LEMMA ContinueFacts ==
    ASSUME Busy, Continue, todo # <<>>, Plain
    PROVE  Busy' /\ Plain'
  <1>1. Head(todo).kind # "shard"
      BY DEF Plain, At
  <1>2. Shaped(todo') /\ (todo' = <<>> \/ Head(todo').kind \notin {"shard", "breaker"})
      BY <1>1, ShapedTail DEF Busy, Continue
  <1> QED
      BY <1>2 DEF Busy, Continue, Plain, At

(* A branch that only changes a setting, or is rejected.                   *)
LEMMA SettingStep ==
    ASSUME Busy, Agree, todo # <<>>, Plain, UNCHANGED targetVars,
           Continue \/ \E r : Return(r)
    PROVE  Busy' /\ Agree'
  <1>1. Busy' /\ Plain'
      BY ReturnFacts, ContinueFacts
  <1> QED
      BY <1>1, AgreeQuiet

(* The head of the list tells which branch is next.                        *)
LEMMA PlainAt ==
    ASSUME NEW k \in {"caps", "concurrency", "weights", "rotation", "add", "disable", "finish"},
           At(k)
    PROVE  todo # <<>> /\ Plain
  BY DEF At, Plain

(* A rejected or unaudited patch touches nothing more.                     *)
LEMMA RejectFacts ==
    ASSUME Reject \/ Unaudited
    PROVE  /\ \E r : Return(r)
           /\ UNCHANGED targetVars
           /\ UNCHANGED <<caps, lowest, log, forced>>
  <1>1. PICK r : Return(r) /\ UNCHANGED <<settings, log, lowest, rest>>
      BY DEF Reject, Unaudited
  <1> QED
      BY <1>1 DEF settings, targetVars

(* The branches that change no target.                                     *)
LEMMA SettingBranches ==
    ASSUME Busy, Agree,
           patchCaps \/ patchConcurrency \/ patchWeights \/ patchRotation \/ finishPatch
    PROVE  Busy' /\ Agree' /\ UNCHANGED targetVars
  <1>1. /\ todo # <<>> /\ Plain
        /\ (Reject \/ Unaudited) \/ (Continue /\ UNCHANGED targetVars)
           \/ (Return("ok") /\ UNCHANGED settings)
    <2>1. CASE patchCaps
      BY <2>1, PlainAt DEF patchCaps, SetCaps
    <2>2. CASE patchConcurrency
      BY <2>2, PlainAt DEF patchConcurrency
    <2>3. CASE patchWeights
      BY <2>3, PlainAt DEF patchWeights
    <2>4. CASE patchRotation
      BY <2>4, PlainAt DEF patchRotation
    <2>5. CASE finishPatch
      BY <2>5, PlainAt DEF finishPatch
    <2> QED
      BY <2>1, <2>2, <2>3, <2>4, <2>5
  <1>2. UNCHANGED settings => UNCHANGED targetVars
      BY DEF settings, targetVars
  <1>3. UNCHANGED targetVars /\ (Continue \/ \E r : Return(r))
      BY <1>1, <1>2, RejectFacts
  <1> QED
      BY <1>1, <1>3, SettingStep

(* TargetsAdd, first of its three steps: the target joins a rotation under *)
(* an ID of its own kind.                                                  *)
LEMMA AddStep ==
    ASSUME Busy, Agree, patchTargetsAdd
    PROVE  Busy' /\ Agree' /\ UNCHANGED <<shards, breakers, forced>>
  <1>1. todo # <<>> /\ Plain /\ Head(todo).kind = "add"
      BY PlainAt DEF patchTargetsAdd, At
  <1>2. CASE Reject
    <2>1. UNCHANGED targetVars /\ (\E r : Return(r)) /\ todo' = <<>>
      BY <1>2, RejectFacts DEF Reject, Return
    <2>2. Busy' /\ Agree'
      BY <1>1, <2>1, SettingStep
    <2> QED
      BY <2>1, <2>2 DEF targetVars
  <1>3. CASE acceptable(Item) /\ ~Reject
    <2> DEFINE tid == NextTargetID(Item)
    <2>1. /\ Item.block \in Blocks
          /\ selector' = [selector EXCEPT ![First] = @ \cup {tid}]
          /\ todo' = <<[kind |-> "shard", tid |-> tid], [kind |-> "breaker", tid |-> tid]>>
                       \o Tail(todo)
          /\ UNCHANGED <<patchMu, shards, breakers, forced>>
      BY <1>3 DEF patchTargetsAdd, acceptable, blockByID
    <2>2. tid \in AddedIDs
      BY <2>1, NextIsAdded DEF Agree
    <2> HIDE DEF tid
    <2>3. Shaped(Tail(todo))
          /\ (Tail(todo) = <<>> \/ Head(Tail(todo)).kind \notin {"shard", "breaker"})
      BY <1>1, ShapedTail DEF Busy
    <2>4. Shaped(todo') /\ todo' # <<>> /\ Head(todo').kind = "shard" /\ Head(todo').tid = tid
      <3>1. PICK x, y : x = [kind |-> "shard", tid |-> tid] /\ y = [kind |-> "breaker", tid |-> tid]
          OBVIOUS
      <3>2. x.kind = "shard" /\ x.tid = tid /\ y.kind = "breaker" /\ y.tid = tid
          BY <3>1
      <3>3. todo' = <<x, y>> \o Tail(todo)
          BY <2>1, <3>1
      <3>4. PICK r : r = Tail(todo)
          OBVIOUS
      <3>5. Shaped(r) /\ (r = <<>> \/ Head(r).kind \notin {"shard", "breaker"})
          BY <2>3, <3>4
      <3>6. PICK g : g = todo'
          OBVIOUS
      <3>7. g = <<x, y>> \o r
          BY <3>3, <3>4, <3>6
      <3>8. Shaped(g)
          BY <3>2, <3>5, <3>7, ShapedAdd, ZenonT(60)
      <3>9. g # <<>>
          BY <3>2, <3>5, <3>7, ShapedAdd
      <3>10. Head(g).kind = "shard"
          BY <3>2, <3>5, <3>7, ShapedAdd
      <3>11. Head(g).tid = tid
          BY <3>2, <3>5, <3>7, ShapedAdd
      <3> QED
          BY <3>6, <3>8, <3>9, <3>10, <3>11
    <2>5. Busy'
      BY <1>1, <2>1, <2>4 DEF Busy
    <2>6. (At("shard"))' /\ ~(At("breaker"))' /\ Item'.tid = tid
      BY <2>4 DEF At, Item
    <2>7. Unsharded' = {tid} /\ Unbroken' = {} /\ Unbroken = {} /\ Unsharded = {}
      BY <1>1, <2>6 DEF Unsharded, Unbroken, Plain
    <2>8. /\ selector' = [b \in Blocks |-> selector'[b]]
          /\ \A b \in Blocks : selector'[b] \subseteq shards' \cup Unsharded'
      <3>1. \A b \in Blocks : selector[b] \subseteq shards
          BY <2>7 DEF Agree
      <3>2. \A b \in Blocks : selector'[b] \subseteq selector[b] \cup {tid}
          BY <2>1 DEF Agree
      <3>3. selector' = [b \in Blocks |-> selector'[b]]
          BY <2>1 DEF Agree
      <3> QED
          BY <2>1, <2>7, <3>1, <3>2, <3>3
    <2>9. Agree'
      BY <2>1, <2>2, <2>6, <2>7, <2>8 DEF Agree
    <2> QED
      BY <2>1, <2>5, <2>9
  <1> QED
      BY <1>2, <1>3 DEF patchTargetsAdd

(* The second: the shard.                                                  *)
LEMMA ShardStep ==
    ASSUME Busy, Agree, addShard
    PROVE  Busy' /\ Agree' /\ UNCHANGED <<breakers, forced>>
  <1> DEFINE tid == Item.tid
  <1>1. todo # <<>> /\ Head(todo).kind = "shard" /\ At("shard") /\ ~At("breaker")
      BY DEF addShard, At
  <1>2. /\ shards' = shards \cup {tid} /\ UNCHANGED <<patchMu, selector, breakers, forced>>
        /\ todo' = Tail(todo)
      BY DEF addShard, Continue
  <1>3. /\ Shaped(todo') /\ todo' # <<>> /\ Head(todo').kind = "breaker"
        /\ Head(todo').tid = tid
    <2>1. tid = Head(todo).tid
      BY DEF Item
    <2>2. Shaped(todo)
      BY DEF Busy
    <2>3. PICK r : r = Tail(todo)
      OBVIOUS
    <2>4. Shaped(r)
      BY <1>1, <2>2, <2>3, ShapedTail
    <2>5. r # <<>> /\ Head(r).kind = "breaker" /\ Head(r).tid = Head(todo).tid
      BY <1>1, <2>2, <2>3, ShapedTail
    <2> QED
      BY <1>2, <2>1, <2>3, <2>4, <2>5
  <1>4. Busy'
      BY <1>1, <1>2, <1>3 DEF Busy
  <1>5. ~(At("shard"))' /\ (At("breaker"))' /\ Item'.tid = tid
      BY <1>3 DEF At, Item
  <1> HIDE DEF tid
  <1>6. Unsharded' = {} /\ Unbroken' = {tid} /\ Unsharded = {tid} /\ Unbroken = {}
      BY <1>1, <1>5 DEF Unsharded, Unbroken, tid
  <1>7. tid \in AddedIDs /\ IsFiniteSet(shards')
      BY <1>1, <1>2, FS_AddElement DEF Agree, tid
  <1> QED
      BY <1>2, <1>4, <1>5, <1>6, <1>7 DEF Agree

(* The third: the breaker, closed, in place of any other under that ID.    *)
LEMMA BreakerStep ==
    ASSUME Busy, Agree, addBreakerEnds
    PROVE  Busy' /\ Agree' /\ forced \cap targetIDsOf \subseteq forced'
  <1> DEFINE tid == Item.tid
  <1>1. todo # <<>> /\ Head(todo).kind = "breaker" /\ At("breaker") /\ ~At("shard")
      BY DEF addBreakerEnds, At
  <1>2. /\ breakers' = breakers \cup {tid} /\ forced' = forced \ {tid}
        /\ UNCHANGED <<patchMu, selector, shards>> /\ todo' = Tail(todo)
      BY DEF addBreakerEnds, Continue
  <1>3. Shaped(todo') /\ (todo' = <<>> \/ Head(todo').kind \notin {"shard", "breaker"})
      BY <1>1, <1>2, ShapedTail DEF Busy
  <1>4. Busy'
      BY <1>1, <1>2, <1>3 DEF Busy
  <1>5. ~(At("shard"))' /\ ~(At("breaker"))'
      BY <1>3 DEF At
  <1> HIDE DEF tid
  <1>6. Unsharded' = {} /\ Unbroken' = {} /\ Unsharded = {} /\ Unbroken = {tid}
      BY <1>1, <1>5 DEF Unsharded, Unbroken, tid
  <1>7. tid \in AddedIDs /\ forced \subseteq breakers
      BY <1>1 DEF Agree, tid
  <1>8. forced \cap targetIDsOf \subseteq forced'
      BY <1>2, <1>7, FrozenFacts
  <1> QED
      BY <1>2, <1>4, <1>5, <1>6, <1>7, <1>8 DEF Agree

(* TargetsDisable forces open only breakers that exist.                    *)
LEMMA DisableStep ==
    ASSUME Busy, Agree, patchTargetsDisable
    PROVE  Busy' /\ Agree' /\ forced \subseteq forced'
  <1>1. todo # <<>> /\ Plain
      BY PlainAt DEF patchTargetsDisable
  <1>2. CASE Reject
    <2>1. UNCHANGED targetVars /\ \E r : Return(r)
      BY <1>2, RejectFacts
    <2>2. Busy' /\ Agree'
      BY <1>1, <2>1, SettingStep
    <2> QED
      BY <2>1, <2>2 DEF targetVars
  <1>3. CASE Item.tid \in breakers /\ ~Reject
    <2>1. /\ forced' = forced \cup {Item.tid} /\ Continue
          /\ UNCHANGED <<selector, shards, breakers>>
      BY <1>3 DEF patchTargetsDisable
    <2>2. Busy' /\ Plain'
      BY <1>1, <2>1, ContinueFacts
    <2>3. Unsharded' = {} /\ Unbroken' = {} /\ Unsharded = {} /\ Unbroken = {}
      BY <1>1, <2>2 DEF Unsharded, Unbroken, Plain
    <2>4. forced' \subseteq breakers
      BY <1>3, <2>1 DEF Agree
    <2> QED
      BY <1>1, <2>1, <2>2, <2>3, <2>4 DEF Agree, Plain
  <1> QED
      BY <1>2, <1>3 DEF patchTargetsDisable

-----------------------------------------------------------------------------
(* Every step keeps the structures in agreement; a target of the scenario  *)
(* that was forced open stays so.                                          *)
LEMMA TargetStep ==
    ASSUME Busy, Agree, [Next]_vars
    PROVE  /\ Busy' /\ Agree'
           /\ forced \cap targetIDsOf \subseteq forced'
  <1> DEFINE Goal == Busy' /\ Agree' /\ forced \cap targetIDsOf \subseteq forced'
  <1>1. ASSUME UNCHANGED <<patchMu, todo, targetVars>>
        PROVE  Goal
    <2>1. patchMu' = patchMu /\ todo' = todo /\ UNCHANGED targetVars /\ forced' = forced
      BY <1>1 DEF targetVars
    <2>2. Busy' /\ Agree'
      BY <2>1, AgreeQuiet DEF Busy
    <2> QED
      BY <2>1, <2>2
  <1>2. CASE \E o \in Operators, p \in Patches : ApplyPatch(o, p)
    <2>1. PICK o \in Operators, p \in Patches : ApplyPatch(o, p)
      BY <1>2
    <2>2. /\ patchMu = Free /\ patchMu' = o /\ UNCHANGED settings
          /\ todo' = Append(p, [kind |-> "finish"])
      BY <2>1 DEF ApplyPatch
    <2>3. Shaped(todo') /\ todo' # <<>> /\ Head(todo').kind \notin {"shard", "breaker"}
      BY <2>2, ShapedPatch
    <2>4. Busy' /\ Plain'
      BY <2>2, <2>3, PatchAssumption DEF Busy, Plain, At
    <2>5. todo = <<>> /\ Plain
      BY <2>2 DEF Busy, Plain, At
    <2>6. UNCHANGED targetVars /\ forced' = forced
      BY <2>2 DEF settings, targetVars
    <2>7. Agree'
      BY <2>4, <2>5, <2>6, AgreeQuiet
    <2> QED
      BY <2>4, <2>6, <2>7
  <1>3. CASE patchCaps \/ patchConcurrency \/ patchWeights \/ patchRotation \/ finishPatch
    <2>1. Busy' /\ Agree' /\ forced' = forced
      BY <1>3, SettingBranches DEF targetVars
    <2> QED
      BY <2>1
  <1>4. CASE patchTargetsAdd
      BY <1>4, AddStep
  <1>5. CASE addShard
      BY <1>5, ShardStep
  <1>6. CASE addBreakerEnds
      BY <1>6, BreakerStep
  <1>7. CASE patchTargetsDisable
      BY <1>7, DisableStep
  <1>8. CASE addBreakerBegins \/ (\E w \in Workers : LookupBegins(w) \/ LookupEnds(w))
    <2>1. UNCHANGED <<patchMu, todo, settings>>
      BY <1>8 DEF addBreakerBegins, LookupBegins, LookupEnds
    <2> QED
      BY <1>1, <2>1 DEF settings, targetVars
  <1>9. CASE UNCHANGED vars
      BY <1>1, <1>9 DEF vars, targetVars
  <1> QED
      BY <1>2, <1>3, <1>4, <1>5, <1>6, <1>7, <1>8, <1>9 DEF Next, Branch

(* Without a raise on the record, the caps are the lowest they have been.  *)
LEMMA RatchetStep ==
    ASSUME Busy, Ratchet, [Next]_vars
    PROVE  Ratchet'
  <1> DEFINE Quiet(l) == \A i \in 1..Len(l) : l[i] # "CapOverrideEnabled"
  <1>1. caps \in [CapFields -> Int] /\ lowest \in [CapFields -> Int] /\ log \in Seq(Events)
        /\ (Quiet(log) => caps = lowest)
      BY DEF Ratchet, CapsRatchet
  <1>2. ASSUME UNCHANGED <<caps, lowest>>, log' = log \/ \E e \in Events : log' = Append(log, e)
        PROVE  Ratchet'
    <2>1. log' \in Seq(Events) /\ (Quiet(log') => Quiet(log))
      <3>1. CASE log' = log
          BY <1>1, <3>1
      <3>2. CASE \E e \in Events : log' = Append(log, e)
        <4>1. PICK e \in Events : log' = Append(log, e)
            BY <3>2
        <4>2. /\ log' \in Seq(Events) /\ Len(log') = Len(log) + 1 /\ Len(log) \in Nat
              /\ \A i \in 1..Len(log) : log'[i] = log[i]
            BY <1>1, <4>1
        <4> QED
            BY <4>2
      <3> QED
          BY <1>2, <3>1, <3>2
    <2> QED
      BY <1>1, <1>2, <2>1 DEF Ratchet, CapsRatchet
  <1>3. CASE patchCaps
    <2>1. CASE Reject \/ Unaudited
      BY <1>2, <2>1, RejectFacts
    <2>2. CASE ~(Reject \/ Unaudited)
      <3> DEFINE next == WithPatch(Item.set)
      <3>1. /\ At("caps") /\ SetCaps(next)
            /\ \/ ~capsRaised(next) /\ log' = log
               \/ log' = Append(log, "CapOverrideEnabled")
          BY <1>3, <2>2 DEF patchCaps
      <3>2. todo # <<>> /\ Head(todo).kind = "caps" /\ Head(todo) = todo[1] /\ 1 \in DOMAIN todo
          BY <3>1, SeqFacts DEF At, Busy, Shaped
      <3>3. IsBranch(Item)
          BY <3>2 DEF Busy, Shaped, Item
      <3>4. Item.set \in [DOMAIN Item.set -> Int]
          BY <3>2, <3>3 DEF IsBranch, Item
      <3>5. next \in [CapFields -> Int]
          BY <1>1, <3>4 DEF WithPatch
      <3> HIDE DEF next
      <3>6. /\ caps' = next
            /\ lowest' = [f \in CapFields |-> IF next[f] < lowest[f] THEN next[f] ELSE lowest[f]]
          BY <3>1 DEF SetCaps
      <3>7. caps' \in [CapFields -> Int] /\ lowest' \in [CapFields -> Int]
          BY <1>1, <3>5, <3>6
      <3>8. CASE ~capsRaised(next) /\ log' = log
        <4>1. \A f \in CapFields : next[f] <= caps[f]
            BY <1>1, <3>5, <3>8 DEF capsRaised
        <4>2. ASSUME Quiet(log) PROVE lowest' = next
          <5>1. \A f \in CapFields : lowest'[f] = next[f]
            BY <1>1, <3>5, <3>6, <4>1, <4>2
          <5> QED
            BY <3>5, <3>7, <5>1
        <4> QED
            BY <1>1, <3>6, <3>7, <3>8, <4>2 DEF Ratchet, CapsRatchet
      <3>9. CASE log' = Append(log, "CapOverrideEnabled")
        <4>1. log' \in Seq(Events) /\ ~Quiet(log')
          <5>1. /\ log' \in Seq(Events) /\ Len(log') = Len(log) + 1 /\ Len(log) \in Nat
                /\ log'[Len(log) + 1] = "CapOverrideEnabled"
            BY <1>1, <3>9 DEF Events
          <5> QED
            BY <5>1
        <4> QED
            BY <3>7, <4>1 DEF Ratchet, CapsRatchet
      <3> QED
          BY <3>1, <3>8, <3>9
    <2> QED
      BY <2>1, <2>2
  <1>4. CASE Next /\ ~patchCaps
    <2>1. /\ UNCHANGED <<caps, lowest>>
          /\ log' = log \/ log' = Append(log, "ScenarioPatched")
      <3>1. Reject \/ Unaudited => UNCHANGED <<caps, lowest, log>>
          BY RejectFacts
      <3>2. UNCHANGED settings => caps' = caps
          BY DEF settings
      <3>3. CASE \E o \in Operators, p \in Patches : ApplyPatch(o, p)
          BY <3>2, <3>3 DEF ApplyPatch
      <3>4. CASE patchConcurrency
          BY <3>1, <3>4 DEF patchConcurrency
      <3>5. CASE patchWeights
          BY <3>1, <3>5 DEF patchWeights
      <3>6. CASE patchRotation
          BY <3>1, <3>6 DEF patchRotation
      <3>7. CASE patchTargetsAdd
          BY <3>1, <3>7 DEF patchTargetsAdd
      <3>8. CASE addShard \/ addBreakerBegins \/ addBreakerEnds
          BY <3>2, <3>8 DEF addShard, addBreakerBegins, addBreakerEnds
      <3>9. CASE patchTargetsDisable
          BY <3>1, <3>9 DEF patchTargetsDisable
      <3>10. CASE finishPatch
          BY <3>1, <3>2, <3>10 DEF finishPatch
      <3>11. CASE \E w \in Workers : LookupBegins(w) \/ LookupEnds(w)
          BY <3>2, <3>11 DEF LookupBegins, LookupEnds
      <3> QED
          BY <1>4, <3>3, <3>4, <3>5, <3>6, <3>7, <3>8, <3>9, <3>10, <3>11 DEF Next, Branch
    <2> QED
      BY <1>2, <2>1 DEF Events
  <1>5. CASE UNCHANGED vars
      BY <1>2, <1>5 DEF vars
  <1> QED
      BY <1>3, <1>4, <1>5

-----------------------------------------------------------------------------
(* The inductive invariant of the live patch.                              *)
THEOREM PatchInvariant == Spec => []PatchInv
  <1>1. Init => PatchInv
    <2> SUFFICES ASSUME Init PROVE PatchInv
      OBVIOUS
    <2>1. todo = <<>> /\ patchMu = Free
      BY DEF Init
    <2>2. Busy
      <3>1. IsSeq(<<>>) /\ DOMAIN <<>> = {}
          BY DEF IsSeq
      <3> QED
          BY <2>1, <3>1 DEF Busy, Shaped
    <2>3. Unsharded = {} /\ Unbroken = {} /\ ~At("shard") /\ ~At("breaker")
      BY <2>1 DEF Unsharded, Unbroken, At
    <2>4. /\ shards = targetIDsOf /\ breakers = targetIDsOf
          /\ forced = {} /\ selector = [b \in Blocks |-> InitialTargets(b)]
      BY DEF Init
    <2>5. IsFiniteSet(shards)
      BY <2>4, FrozenFacts
    <2>6. Agree
      BY <2>3, <2>4, <2>5 DEF Agree, targetIDsOf
    <2>7. Ratchet
      BY PatchAssumption DEF Init, Ratchet, CapsRatchet
    <2> QED
      BY <2>2, <2>6, <2>7 DEF PatchInv
  <1>2. PatchInv /\ [Next]_vars => PatchInv'
      BY TargetStep, RatchetStep DEF PatchInv
  <1> QED
      BY <1>1, <1>2, PTL DEF Spec

(* Between patches every target a worker can be given has a breaker and a  *)
(* shard: for any patches, rejected half-way or not.                       *)
THEOREM TargetSafety == Spec => []TargetsComplete
  <1>1. PatchInv => TargetsComplete
    <2> SUFFICES ASSUME Busy, Agree, patchMu = Free
                 PROVE  \A b \in Blocks : selector[b] \subseteq shards \cap breakers
      BY DEF PatchInv, TargetsComplete
    <2>1. Unsharded = {} /\ Unbroken = {}
      BY DEF Busy, Unsharded, Unbroken, At
    <2> QED
      BY <2>1 DEF Agree
  <1> QED
      BY <1>1, PatchInvariant, PTL

(* No cap is above a value it had before, until an override is on the      *)
(* audit trail.                                                            *)
THEOREM CapsSafety == Spec => []CapsRatchet
  <1>1. PatchInv => CapsRatchet
      BY DEF PatchInv, Ratchet
  <1> QED
      BY <1>1, PatchInvariant, PTL

(* No patch closes a breaker that TargetsDisable forced open on a target   *)
(* of the scenario, and no added target takes the ID of one.               *)
THEOREM FrozenSafety == Spec => FrozenStayDisabled
  <1>1. PatchInv /\ [Next]_vars =>
            [/\ forced \cap targetIDsOf \subseteq forced'
             /\ At("shard") \/ At("breaker") => Item.tid \notin targetIDsOf]_vars
      BY TargetStep, FrozenFacts DEF PatchInv, Agree
  <1> QED
      BY <1>1, PatchInvariant, PTL DEF Spec, FrozenStayDisabled
=============================================================================
