--------------------------- MODULE AuditSinkProofs ---------------------------
(***************************************************************************)
(* What the audit file promises for any events, any number of lines and    *)
(* any number of crashes, with SHA-256 taken as injective: a hash is the   *)
(* content it was computed from.                                           *)
(***************************************************************************)
EXTENDS AuditSink, WellFoundedInduction, TLAPS

(* A sequence, of whatever its own elements are: records hold the record   *)
(* before them, so no set has them all.                                    *)
IsSeq(f) == f \in Seq({f[i] : i \in DOMAIN f})

(* A record has the four fields of the JSON line and no others.            *)
IsRec(r) == r = [seq |-> r.seq, ev |-> r.ev, prev |-> r.prev, hash |-> r.hash]

(* Whatever stands in the file, its hash was made by recordHash of an      *)
(* event some Append or some alteration was given, never of a mangled one. *)
Written(r) ==
    r # Junk =>
        /\ IsRec(r)
        /\ r.hash = RecordHash(r.hash.seq, r.hash.ev, r.hash.prev)
        /\ r.hash.ev # Mangled

(* A line: a record or what is no record, with or without its newline.     *)
IsLine(l) == l = Line(l.rec, l.nl) /\ l.nl \in BOOLEAN /\ Written(l.rec)

(* A log: what the file and the disk hold.                                 *)
IsLog(f) == IsSeq(f) /\ \A i \in DOMAIN f : IsLine(f[i])

(* The records of a chain: each holds the hash before it, and its own.     *)
Linked(m) ==
    \A i \in DOMAIN m :
        /\ IsRec(m[i])
        /\ m[i].prev = IF i = 1 THEN Genesis ELSE m[i - 1].hash
        /\ m[i].hash = RecordHash(m[i].seq, m[i].ev, m[i].prev)

(* The sink's two fields describe its chain.                               *)
Chained ==
    /\ IsSeq(mine) /\ Linked(mine)
    /\ nextSeq = Len(mine)
    /\ tailHash = IF mine = <<>> THEN Genesis ELSE mine[Len(mine)].hash
    /\ pending # Junk => pending = MakeRecord(nextSeq, pending.ev, tailHash) /\ state = "up"

(* What the variables hold; records nest, so there is no set of them all.  *)
TypeOK ==
    /\ IsLog(file) /\ IsLog(disk) /\ IsSeq(acked)
    /\ state \in {"down", "up", "closed", "refused"}
    /\ \A i \in DOMAIN acked : acked[i].seq \in Nat

(* A line that is not JSON stays one, and replay refuses the file.         *)
Spoiled(f) == \E j \in DOMAIN f : f[j].rec = Junk

(* The file goes on where the disk ends, but for a spoiled last line.      *)
Synced ==
    /\ Len(disk) <= Len(file)
    /\ \A j \in DOMAIN disk : disk[j].rec = Junk => file[j].rec = Junk

(* Unless the file was changed from outside, it is long enough for every   *)
(* acknowledged Seq, or spoiled for good.                                  *)
LongEnough ==
    "outOfBand" \notin damage =>
        /\ \A i \in DOMAIN acked : acked[i].seq < Len(disk) \/ Spoiled(disk)
        /\ state = "up" =>
              /\ \A i \in DOMAIN acked : acked[i].seq < nextSeq
              /\ nextSeq + (IF pending = Junk THEN 0 ELSE 1) <= Len(file) \/ Spoiled(file)

(* While nothing worse than a crash in Append happened: the disk is a      *)
(* prefix of the file, and only a fragment lacks its newline, in a file no *)
(* sink will open.                                                         *)
Intact == damage \subseteq {"unreadable", "crashInAppend"}

(* An intact file is the disk and the record being appended.               *)
Whole ==
    Intact =>
        /\ \A j \in DOMAIN disk : file[j] = disk[j]
        /\ \A j \in DOMAIN file : file[j].nl \/ (file[j].rec = Junk /\ state \in {"down", "refused"})
        /\ state = "up" =>
              /\ Len(file) = nextSeq + (IF pending = Junk THEN 0 ELSE 1)
              /\ pending # Junk => file[Len(file)] = Line(pending, TRUE)

(* The inductive invariant.                                                *)
AuditInv == /\ TypeOK /\ Chained /\ Synced /\ LongEnough /\ Whole
            /\ AckedSurvive /\ SeqNeverReused /\ VerifyHonest

-----------------------------------------------------------------------------
(* A non-empty set of naturals has a least element.                        *)
LEMMA LeastNat ==
    ASSUME NEW T \in SUBSET Nat, T # {}
    PROVE  \E x \in T : \A y \in T : x <= y
  <1>1. PICK x \in T : \A y \in T : ~(<<y, x>> \in OpToRel(<, Nat))
      BY WFMin, NatLessThanWellFounded
  <1>2. \A y \in T : ~(y < x)
      BY <1>1 DEF OpToRel
  <1> QED
      BY <1>2

(* A bounded one has a greatest: induction from the end of a chain down.   *)
LEMMA GreatestNat ==
    ASSUME NEW n \in Nat, NEW T \in SUBSET (0..n), T # {}
    PROVE  \E x \in T : \A y \in T : y <= x
  <1> DEFINE U == {k \in Nat : n - k \in T}
  <1>1. \A y \in T : n - (n - y) = y /\ n - y \in Nat /\ n - y \in U
      OBVIOUS
  <1>2. U # {}
      BY <1>1
  <1>3. PICK k \in U : \A j \in U : k <= j
      BY <1>2, LeastNat
  <1>4. \A y \in T : y <= n - k
      BY <1>1, <1>3
  <1> QED
      BY <1>4

(* The facts about sequences the proofs use.                               *)
LEMMA SeqFacts ==
    ASSUME NEW f, IsSeq(f)
    PROVE  /\ Len(f) \in Nat /\ DOMAIN f = 1..Len(f)
           /\ f = [i \in 1..Len(f) |-> f[i]]
           /\ f = <<>> <=> Len(f) = 0
  BY DEF IsSeq

(* A function on 1..n is a sequence of length n.                           *)
LEMMA SeqOfFun ==
    ASSUME NEW n \in Nat, NEW f, f = [i \in 1..n |-> f[i]]
    PROVE  IsSeq(f) /\ Len(f) = n
  <1>1. f \in [1..n -> {f[i] : i \in 1..n}] /\ DOMAIN f = 1..n
      OBVIOUS
  <1> QED
      BY <1>1 DEF IsSeq

(* A sequence of a given type is a sequence.                               *)
LEMMA SeqOfType ==
    ASSUME NEW S, NEW g \in Seq(S)
    PROVE  IsSeq(g)
  <1>1. Len(g) \in Nat /\ g = [i \in 1..Len(g) |-> g[i]]
      OBVIOUS
  <1> QED
      BY <1>1, SeqOfFun

(* Append adds one element and keeps the others.                           *)
LEMMA SeqAppend ==
    ASSUME NEW f, IsSeq(f), NEW x
    PROVE  /\ IsSeq(Append(f, x)) /\ Len(Append(f, x)) = Len(f) + 1
           /\ Append(f, x)[Len(f) + 1] = x
           /\ \A i \in 1..Len(f) : Append(f, x)[i] = f[i]
  <1> DEFINE S == {f[i] : i \in DOMAIN f} \cup {x}
  <1>1. f \in Seq(S)
    <2>1. Len(f) \in Nat /\ f \in [1..Len(f) -> S]
      BY SeqFacts
    <2> QED
      BY <2>1
  <1> HIDE DEF S
  <1>2. /\ Append(f, x) \in Seq(S) /\ Len(Append(f, x)) = Len(f) + 1
        /\ Append(f, x)[Len(f) + 1] = x
        /\ \A i \in 1..Len(f) : Append(f, x)[i] = f[i]
    <2>1. x \in S
      BY DEF S
    <2> QED
      BY <1>1, <2>1
  <1>3. IsSeq(Append(f, x))
      BY <1>2, SeqOfType
  <1> QED
      BY <1>2, <1>3

(* A prefix has the elements it is a prefix of.                            *)
LEMMA SeqPrefix ==
    ASSUME NEW f, IsSeq(f), NEW k \in 0..Len(f)
    PROVE  /\ IsSeq(SubSeq(f, 1, k)) /\ Len(SubSeq(f, 1, k)) = k
           /\ \A i \in 1..k : SubSeq(f, 1, k)[i] = f[i]
  <1>1. SubSeq(f, 1, k) = [i \in 1..k |-> f[i]]
      BY SeqFacts DEF IsSeq
  <1> DEFINE g == SubSeq(f, 1, k)
  <1>2. g = [i \in 1..k |-> g[i]] /\ \A i \in 1..k : g[i] = f[i]
      BY <1>1
  <1>3. k \in Nat
      BY SeqFacts
  <1> HIDE DEF g
  <1>4. IsSeq(g) /\ Len(g) = k
      BY <1>2, <1>3, SeqOfFun
  <1> QED
      BY <1>2, <1>4 DEF g

-----------------------------------------------------------------------------
(* The fields of a line are what it was made from.                         *)
LEMMA LineFacts ==
    ASSUME NEW r, NEW b \in BOOLEAN
    PROVE  /\ Line(r, b).rec = r /\ Line(r, b).nl = b
           /\ Written(r) => IsLine(Line(r, b))
           /\ Written(Junk)
  <1>1. Line(r, b).rec = r /\ Line(r, b).nl = b
      BY Zenon DEF Line
  <1> QED
      BY <1>1, Zenon DEF IsLine, Written

(* What a write does to a file: it adds a line, or it spoils a last line   *)
(* without a newline.  Complete lines and spoiled ones stay as they are.   *)
LEMMA PutFacts ==
    ASSUME NEW f, IsLog(f), NEW r, Written(r), NEW b \in BOOLEAN,
           NEW g, g = Put(f, Line(r, b))
    PROVE  /\ IsLog(g) /\ Len(f) <= Len(g)
           /\ \A j \in DOMAIN f : f[j].rec = Junk => g[j].rec = Junk
           /\ \A j \in DOMAIN f : f[j].nl => g[j] = f[j]
           /\ \/ Len(g) = Len(f) + 1 /\ g[Len(f) + 1] = Line(r, b)
                 /\ \A j \in DOMAIN f : g[j] = f[j]
              \/ Len(f) > 0 /\ ~f[Len(f)].nl /\ Len(g) = Len(f) /\ Spoiled(g)
                 /\ \A j \in DOMAIN f : j # Len(f) => g[j] = f[j]
  <1>1. /\ IsSeq(f) /\ Len(f) \in Nat /\ DOMAIN f = 1..Len(f) /\ f = [i \in 1..Len(f) |-> f[i]]
        /\ f = <<>> <=> Len(f) = 0
      BY SeqFacts DEF IsLog
  <1>2. CASE f # <<>> /\ ~f[Len(f)].nl
    <2>1. g = [i \in 1..Len(f) |-> IF i = Len(f) THEN Line(Junk, b) ELSE f[i]]
      BY <1>1, <1>2, LineFacts DEF Put
    <2>2. g = [i \in 1..Len(f) |-> g[i]]
      BY <2>1
    <2>3. IsSeq(g) /\ Len(g) = Len(f) /\ DOMAIN g = 1..Len(f)
      BY <1>1, <2>1, <2>2, SeqOfFun
    <2>4. /\ g[Len(f)] = Line(Junk, b) /\ Len(f) \in 1..Len(f) /\ Len(f) > 0
          /\ \A j \in 1..Len(f) : j # Len(f) => g[j] = f[j]
      BY <1>1, <1>2, <2>1
    <2>0. Line(Junk, b).rec = Junk /\ IsLine(Line(Junk, b))
      BY LineFacts
    <2>5. IsLog(g)
      BY <1>1, <2>0, <2>3, <2>4, Zenon DEF IsLog
    <2>6. Spoiled(g)
      BY <2>0, <2>3, <2>4, Zenon DEF Spoiled
    <2>7. \A j \in DOMAIN f : f[j].rec = Junk => g[j].rec = Junk
      BY <1>1, <2>0, <2>4, Zenon
    <2>8. \A j \in DOMAIN f : f[j].nl => g[j] = f[j]
      BY <1>1, <1>2, <2>4, Zenon
    <2>9. Len(f) <= Len(g)
      BY <1>1, <2>3
    <2> QED
      BY <1>1, <1>2, <2>3, <2>4, <2>5, <2>6, <2>7, <2>8, <2>9, Zenon
  <1>3. CASE f = <<>> \/ f[Len(f)].nl
    <2>1. g = Append(f, Line(r, b))
      BY <1>3, Zenon DEF Put
    <2>2. /\ IsSeq(g) /\ Len(g) = Len(f) + 1 /\ g[Len(f) + 1] = Line(r, b)
          /\ \A i \in DOMAIN f : g[i] = f[i]
      BY <1>1, <2>1, SeqAppend
    <2>3. DOMAIN g = 1..(Len(f) + 1)
      BY <2>2, SeqFacts
    <2>4. \A i \in DOMAIN g : i \in DOMAIN f \/ i = Len(f) + 1
      BY <1>1, <2>3
    <2>5. IsLog(g)
      BY <2>2, <2>4, LineFacts, Zenon DEF IsLog
    <2>6. Len(f) <= Len(g)
      BY <1>1, <2>2
    <2> QED
      BY <2>2, <2>5, <2>6, Zenon
  <1> QED
      BY <1>2, <1>3, Zenon

(* What a write cut short leaves: the file, or the file with a line put.   *)
LEMMA CutFacts ==
    ASSUME NEW f, IsLog(f), NEW l, Written(l.rec), NEW g \in Cut(f, l)
    PROVE  /\ IsLog(g) /\ Len(f) <= Len(g)
           /\ \A j \in DOMAIN f : f[j].rec = Junk => g[j].rec = Junk
           /\ \A j \in DOMAIN f : f[j].nl => g[j] = f[j]
           /\ (\A j \in DOMAIN f : f[j].nl) =>
                 \A j \in DOMAIN g : g[j].nl \/ j = Len(g)
  <1>1. Len(f) \in Nat /\ DOMAIN f = 1..Len(f)
      BY SeqFacts DEF IsLog
  <1>2. CASE g = f
      BY <1>1, <1>2
  <1>3. CASE \E r : \E b \in BOOLEAN : Written(r) /\ g = Put(f, Line(r, b))
    <2>1. PICK r : \E b \in BOOLEAN : Written(r) /\ g = Put(f, Line(r, b))
      BY <1>3
    <2>2. /\ IsLog(g) /\ Len(f) <= Len(g)
          /\ \A j \in DOMAIN f : f[j].rec = Junk => g[j].rec = Junk
          /\ \A j \in DOMAIN f : f[j].nl => g[j] = f[j]
          /\ Len(g) = Len(f) + 1 \/ (~f[Len(f)].nl /\ Len(f) > 0)
      BY <2>1, PutFacts
    <2>3. ASSUME \A j \in DOMAIN f : f[j].nl, NEW j \in DOMAIN g PROVE g[j].nl \/ j = Len(g)
      <3>1. Len(g) = Len(f) + 1 /\ DOMAIN g = 1..Len(g)
        BY <1>1, <2>2, <2>3, SeqFacts DEF IsLog
      <3>2. j \in DOMAIN f \/ j = Len(g)
        BY <1>1, <3>1, <2>3
      <3> QED
        BY <2>2, <2>3, <3>2
    <2> QED
      BY <2>2, <2>3
  <1>4. Written(Junk) /\ FALSE \in BOOLEAN
      BY DEF Written
  <1>5. g = f \/ \E r : \E b \in BOOLEAN : Written(r) /\ g = Put(f, Line(r, b))
      BY <1>4, Zenon DEF Cut
  <1> QED
      BY <1>2, <1>3, <1>5

(* A file cut at the end of a line is a file.                              *)
LEMMA PrefixLog ==
    ASSUME NEW f, IsLog(f), NEW k \in 0..Len(f)
    PROVE  /\ IsLog(SubSeq(f, 1, k)) /\ Len(SubSeq(f, 1, k)) = k
           /\ DOMAIN SubSeq(f, 1, k) = 1..k
           /\ \A j \in 1..k : SubSeq(f, 1, k)[j] = f[j]
  <1> DEFINE g == SubSeq(f, 1, k)
  <1>1. IsSeq(g) /\ Len(g) = k /\ \A j \in 1..k : g[j] = f[j]
      BY SeqPrefix DEF IsLog
  <1>2. DOMAIN g = 1..k /\ DOMAIN f = 1..Len(f) /\ Len(f) \in Nat
      BY <1>1, SeqFacts DEF IsLog
  <1>3. \A j \in 1..k : j \in DOMAIN f
      BY <1>2
  <1>4. IsLog(g)
      BY <1>1, <1>2, <1>3, Zenon DEF IsLog
  <1> QED
      BY <1>1, <1>2, <1>4

(* A crash never shortens the file below what was durable, never repairs a *)
(* spoiled line, and cuts at most the last line of complete ones.          *)
LEMMA SurvivorFacts ==
    ASSUME IsLog(file), IsLog(disk), Synced, NEW g \in Survivors
    PROVE  /\ IsLog(g) /\ Len(disk) <= Len(g)
           /\ \A j \in DOMAIN disk : disk[j].rec = Junk => g[j].rec = Junk
           /\ (\A j \in DOMAIN file : file[j].nl) /\ (\A j \in DOMAIN disk : file[j] = disk[j]) =>
                 /\ \A j \in DOMAIN disk : g[j] = disk[j]
                 /\ \A j \in DOMAIN g : g[j].nl \/ j = Len(g)
  <1>1. /\ Len(file) \in Nat /\ DOMAIN file = 1..Len(file)
        /\ Len(disk) \in Nat /\ DOMAIN disk = 1..Len(disk) /\ Len(disk) <= Len(file)
        /\ \A j \in DOMAIN disk : j \in DOMAIN file
      BY SeqFacts DEF IsLog, Synced
  <1>2. CASE g = disk
      BY <1>1, <1>2
  <1>3. ASSUME NEW k \in Len(disk)..Len(file), NEW l, Written(l.rec), g \in Cut(SubSeq(file, 1, k), l)
        PROVE  /\ IsLog(g) /\ Len(disk) <= Len(g)
               /\ \A j \in DOMAIN disk : disk[j].rec = Junk => g[j].rec = Junk
               /\ (\A j \in DOMAIN file : file[j].nl) /\ (\A j \in DOMAIN disk : file[j] = disk[j]) =>
                     /\ \A j \in DOMAIN disk : g[j] = disk[j]
                     /\ \A j \in DOMAIN g : g[j].nl \/ j = Len(g)
    <2> DEFINE h == SubSeq(file, 1, k)
    <2>1. /\ IsLog(h) /\ Len(h) = k /\ DOMAIN h = 1..k
          /\ \A j \in 1..k : h[j] = file[j]
      BY <1>1, <1>3, PrefixLog
    <2>0. g \in Cut(h, l)
      BY <1>3
    <2> HIDE DEF h
    <2>2. /\ IsLog(g) /\ k <= Len(g)
          /\ \A j \in 1..k : h[j].rec = Junk => g[j].rec = Junk
          /\ \A j \in 1..k : h[j].nl => g[j] = h[j]
          /\ (\A j \in 1..k : h[j].nl) => \A j \in DOMAIN g : g[j].nl \/ j = Len(g)
      BY <1>3, <2>0, <2>1, CutFacts
    <2>3. /\ \A j \in DOMAIN disk : j \in 1..k /\ j \in DOMAIN file
          /\ \A j \in 1..k : j \in DOMAIN file
          /\ Len(disk) <= Len(g)
      <3>1. Len(g) \in Nat
        BY <2>2, SeqFacts DEF IsLog
      <3> QED
        BY <1>1, <1>3, <2>2, <3>1
    <2>4. \A j \in DOMAIN disk : disk[j].rec = Junk => g[j].rec = Junk
      BY <2>1, <2>2, <2>3, Zenon DEF Synced
    <2>5. ASSUME \A j \in DOMAIN file : file[j].nl, \A j \in DOMAIN disk : file[j] = disk[j]
          PROVE  /\ \A j \in DOMAIN disk : g[j] = disk[j]
                 /\ \A j \in DOMAIN g : g[j].nl \/ j = Len(g)
      BY <2>1, <2>2, <2>3, <2>5, Zenon
    <2> QED
      BY <2>2, <2>3, <2>4, <2>5, Zenon
  <1>4. CASE \E k \in Len(disk)..Len(file) : g = SubSeq(file, 1, k)
    <2>1. PICK k \in Len(disk)..Len(file) : g = SubSeq(file, 1, k)
      BY <1>4
    <2>2. g \in Cut(SubSeq(file, 1, k), Line(Junk, FALSE))
      BY <2>1 DEF Cut
    <2>3. Written(Line(Junk, FALSE).rec)
      BY LineFacts, Zenon
    <2> QED
      BY <1>3, <2>2, <2>3
  <1>5. CASE \E k \in Len(disk)..(Len(file) - 1) : g \in Cut(SubSeq(file, 1, k), file[k + 1])
    <2>1. PICK k \in Len(disk)..(Len(file) - 1) : g \in Cut(SubSeq(file, 1, k), file[k + 1])
      BY <1>5
    <2>2. k \in Len(disk)..Len(file) /\ k + 1 \in DOMAIN file
      BY <1>1
    <2>3. Written(file[k + 1].rec)
      BY <2>2 DEF IsLog, IsLine
    <2> QED
      BY <1>3, <2>1, <2>2, <2>3
  <1> QED
      BY <1>2, <1>4, <1>5 DEF Survivors

-----------------------------------------------------------------------------
(* A file that replay accepts holds no spoiled line, and its records are a *)
(* chain: an event that reads back other than it was hashed fails.         *)
LEMMA ReplayChain ==
    ASSUME NEW f, IsLog(f), ReplayOK(f)
    PROVE  /\ IsSeq(Records(f)) /\ Len(Records(f)) = Len(f) /\ Linked(Records(f))
           /\ \A i \in DOMAIN f : Records(f)[i] = f[i].rec
           /\ ~Spoiled(f)
           /\ ReplayTail(f) = IF Records(f) = <<>> THEN Genesis ELSE Records(f)[Len(f)].hash
  <1> DEFINE m == Records(f)
  <1>1. Len(f) \in Nat /\ DOMAIN f = 1..Len(f) /\ (f = <<>> <=> Len(f) = 0)
      BY SeqFacts DEF IsLog
  <1>2. m = [i \in 1..Len(f) |-> f[i].rec]
      BY <1>1 DEF Records
  <1> HIDE DEF m
  <1>3. m = [i \in 1..Len(f) |-> m[i]] /\ \A i \in 1..Len(f) : m[i] = f[i].rec
      BY <1>2
  <1>4. IsSeq(m) /\ Len(m) = Len(f)
      BY <1>1, <1>3, SeqOfFun
  <1>5. DOMAIN m = 1..Len(f) /\ (m = <<>> <=> Len(f) = 0)
      BY <1>4, SeqFacts
  <1>6. ~Spoiled(f)
      BY DEF Spoiled, ReplayOK, LineOK
  <1>7. ASSUME NEW i \in 1..Len(f)
        PROVE  /\ IsRec(m[i])
               /\ m[i].prev = IF i = 1 THEN Genesis ELSE m[i - 1].hash
               /\ m[i].hash = RecordHash(m[i].seq, m[i].ev, m[i].prev)
    <2>1. m[i] # Junk /\ Written(m[i])
      BY <1>1, <1>3, <1>7 DEF ReplayOK, LineOK, IsLog, IsLine
    <2>2. /\ m[i].prev = IF i = 1 THEN Genesis ELSE f[i - 1].rec.hash
          /\ m[i].hash = RecordHash(m[i].seq, Decoded(m[i].ev), m[i].prev)
      BY <1>1, <1>3, <1>7 DEF ReplayOK, LineOK
    <2>3. i # 1 => m[i - 1] = f[i - 1].rec
      BY <1>1, <1>3, <1>7
    <2>4. Decoded(m[i].ev) # Mangled
      BY <2>1, <2>2 DEF Written, RecordHash
    <2>5. Decoded(m[i].ev) = m[i].ev
      BY <2>4 DEF Decoded
    <2> QED
      BY <2>1, <2>2, <2>3, <2>5 DEF Written
  <1>8. Linked(m)
      BY <1>5, <1>7 DEF Linked
  <1>9. ReplayTail(f) = IF m = <<>> THEN Genesis ELSE m[Len(f)].hash
      BY <1>1, <1>3, <1>5 DEF ReplayTail
  <1> QED
      BY <1>1, <1>3, <1>4, <1>6, <1>8, <1>9 DEF m

(* recordHash covers every field but the hash.                             *)
LEMMA HashFields ==
    ASSUME NEW s, NEW e, NEW p
    PROVE  /\ RecordHash(s, e, p).seq = s /\ RecordHash(s, e, p).ev = e
           /\ RecordHash(s, e, p).prev = p
  BY DEF RecordHash

(* A chain is determined by its length and its last hash: from the end     *)
(* down, each record holds the hash of the one before it.                  *)
LEMMA ChainUnique ==
    ASSUME NEW a, NEW b, IsSeq(a), IsSeq(b), Linked(a), Linked(b), Len(a) = Len(b),
           Len(a) > 0 => a[Len(a)].hash = b[Len(a)].hash
    PROVE  a = b
  <1> DEFINE n == Len(a)
             T == {i \in 1..n : a[i] # b[i]}
  <1>1. /\ n \in Nat /\ DOMAIN a = 1..n /\ DOMAIN b = 1..n
        /\ a = [i \in 1..n |-> a[i]] /\ b = [i \in 1..n |-> b[i]]
      BY SeqFacts
  <1>2. ASSUME NEW i \in 1..n, a[i].hash = b[i].hash PROVE a[i] = b[i]
    <2>1. /\ a[i].hash = RecordHash(a[i].seq, a[i].ev, a[i].prev)
          /\ b[i].hash = RecordHash(b[i].seq, b[i].ev, b[i].prev)
          /\ IsRec(a[i]) /\ IsRec(b[i])
      BY <1>1, <1>2 DEF Linked
    <2>2. /\ a[i].hash.seq = a[i].seq /\ a[i].hash.ev = a[i].ev /\ a[i].hash.prev = a[i].prev
          /\ b[i].hash.seq = b[i].seq /\ b[i].hash.ev = b[i].ev /\ b[i].hash.prev = b[i].prev
      BY <2>1, HashFields
    <2> QED
      BY <1>2, <2>1, <2>2, Zenon DEF IsRec
  <1>3. T = {}
    <2> SUFFICES ASSUME T # {} PROVE FALSE
      OBVIOUS
    <2>1. T \in SUBSET (0..n)
      BY <1>1
    <2>2. PICK x \in T : \A y \in T : y <= x
      BY <1>1, <2>1, GreatestNat
    <2>3. CASE x = n
      BY <1>1, <1>2, <2>2, <2>3
    <2>4. CASE x # n
      <3>1. x + 1 \in 1..n /\ x \in 1..n /\ x + 1 # 1 /\ (x + 1) - 1 = x /\ ~(x + 1 <= x)
        BY <1>1, <2>4
      <3>2. a[x + 1] = b[x + 1]
        BY <2>2, <3>1
      <3>3. a[x + 1].prev = a[x].hash /\ b[x + 1].prev = b[x].hash
        <4>1. \A i \in 1..n : i # 1 => a[i].prev = a[i - 1].hash /\ b[i].prev = b[i - 1].hash
          BY <1>1, Zenon DEF Linked
        <4> QED
          BY <3>1, <4>1, Zenon
      <3>4. a[x] = b[x]
        BY <1>2, <3>1, <3>2, <3>3
      <3> QED
        BY <3>4
    <2> QED
      BY <2>3, <2>4
  <1> QED
      BY <1>1, <1>3

-----------------------------------------------------------------------------
(* A line that is not JSON is no record.                                   *)
JunkApart == \A s, e, p : MakeRecord(s, e, p) # Junk

(* What Append writes, field by field.                                     *)
LEMMA RecordFacts ==
    ASSUME NEW s, NEW e, NEW p
    PROVE  LET r == MakeRecord(s, e, p) IN
           /\ r.seq = s /\ r.ev = e /\ r.prev = p /\ r.hash = RecordHash(s, e, p) /\ IsRec(r)
           /\ e # Mangled => Written(r)
  <1> DEFINE r == MakeRecord(s, e, p)
  <1>1. r.seq = s /\ r.ev = e /\ r.prev = p /\ r.hash = RecordHash(s, e, p)
      BY DEF MakeRecord
  <1>2. IsRec(r)
      BY <1>1, Zenon DEF IsRec, MakeRecord
  <1>3. r.hash.seq = s /\ r.hash.ev = e /\ r.hash.prev = p
      BY <1>1, HashFields
  <1>4. e # Mangled => Written(r)
      BY <1>1, <1>2, <1>3, Zenon DEF Written
  <1> QED
      BY <1>1, <1>2, <1>4, Zenon

(* An altered event leaves the other fields.                               *)
LEMMA EvExcept ==
    ASSUME NEW r, IsRec(r), NEW e
    PROVE  [r EXCEPT !.ev = e] = [seq |-> r.seq, ev |-> e, prev |-> r.prev, hash |-> r.hash]
  <1> DEFINE q == [seq |-> r.seq, ev |-> r.ev, prev |-> r.prev, hash |-> r.hash]
  <1>1. [q EXCEPT !.ev = e] = [seq |-> r.seq, ev |-> e, prev |-> r.prev, hash |-> r.hash]
      OBVIOUS
  <1>2. r = q
      BY DEF IsRec
  <1> HIDE DEF q
  <1> QED
      BY <1>1, <1>2, Zenon

(* A file with one line exchanged for another line is a file.              *)
LEMMA LogReplace ==
    ASSUME NEW f, IsLog(f), NEW i \in DOMAIN f, NEW l, IsLine(l), NEW g, g = [f EXCEPT ![i] = l]
    PROVE  IsLog(g) /\ DOMAIN g = DOMAIN f
  <1>1. Len(f) \in Nat /\ DOMAIN f = 1..Len(f) /\ f = [j \in 1..Len(f) |-> f[j]]
      BY SeqFacts DEF IsLog
  <1>2. g = [j \in 1..Len(f) |-> IF j = i THEN l ELSE f[j]]
      BY <1>1
  <1>3. g = [j \in 1..Len(f) |-> g[j]] /\ DOMAIN g = 1..Len(f)
      BY <1>2
  <1>4. IsSeq(g)
      BY <1>1, <1>3, SeqOfFun
  <1>5. \A j \in DOMAIN g : IsLine(g[j])
      BY <1>1, <1>2, <1>3 DEF IsLog
  <1> QED
      BY <1>1, <1>3, <1>4, <1>5 DEF IsLog

(* What a change from outside leaves is still a file of lines whose hashes *)
(* were made of real events.                                               *)
LEMMA AlterLog ==
    ASSUME IsLog(file), ReplayOK(file), file # <<>>, Alter
    PROVE  IsLog(file')
  <1> SUFFICES ASSUME NEW g, g = file' PROVE IsLog(g)
      OBVIOUS
  <1>1. Len(file) \in Nat /\ DOMAIN file = 1..Len(file) /\ Len(file) # 0 /\ IsSeq(file)
      BY SeqFacts DEF IsLog
  <1>2. \A i \in DOMAIN file :
           /\ IsLine(file[i]) /\ file[i].rec # Junk /\ Written(file[i].rec) /\ IsRec(file[i].rec)
           /\ file[i] = Line(file[i].rec, file[i].nl) /\ file[i].nl \in BOOLEAN
      BY DEF IsLog, IsLine, ReplayOK, LineOK, Written
  <1>3. ASSUME NEW i \in DOMAIN file, NEW e \in Clean, g = [file EXCEPT ![i].rec.ev = e]
        PROVE  IsLog(g)
    <2> DEFINE r == [seq |-> file[i].rec.seq, ev |-> e, prev |-> file[i].rec.prev,
                     hash |-> file[i].rec.hash]
    <2>1. Written(r)
      <3>1. r.hash = file[i].rec.hash /\ IsRec(r)
        BY DEF IsRec
      <3> HIDE DEF r
      <3> QED
        BY <1>2, <3>1, Zenon DEF Written
    <2>2. [file[i].rec EXCEPT !.ev = e] = r
      BY <1>2, EvExcept
    <2>3. g = [file EXCEPT ![i] = Line(r, file[i].nl)]
      <3>1. [file[i] EXCEPT !.rec.ev = e] = Line(r, file[i].nl)
        BY <1>2, <2>2 DEF Line
      <3> QED
        BY <1>3, <3>1
    <2>4. IsLine(Line(r, file[i].nl))
      <3> HIDE DEF r
      <3> QED
        BY <1>2, <2>1, LineFacts
    <2> QED
      BY <2>3, <2>4, LogReplace
  <1>4. ASSUME NEW i \in DOMAIN file, NEW e \in Clean,
               g = [file EXCEPT ![i].rec = MakeRecord(@.seq, e, @.prev)]
        PROVE  IsLog(g)
    <2> DEFINE r == MakeRecord(file[i].rec.seq, e, file[i].rec.prev)
    <2>1. Written(r)
      BY RecordFacts, AuditAssumption
    <2>2. [file[i] EXCEPT !.rec = r] = Line(r, file[i].nl)
      BY <1>2 DEF Line
    <2>3. g = [file EXCEPT ![i] = Line(r, file[i].nl)]
      BY <1>4, <2>2
    <2> HIDE DEF r
    <2>4. IsLine(Line(r, file[i].nl))
      BY <1>2, <2>1, LineFacts
    <2> QED
      BY <2>3, <2>4, LogReplace
  <1>5. ASSUME NEW i \in DOMAIN file, NEW j \in DOMAIN file,
               g = [file EXCEPT ![i] = file[j], ![j] = file[i]]
        PROVE  IsLog(g)
    <2> DEFINE h == [file EXCEPT ![i] = file[j]]
    <2>1. IsLog(h) /\ DOMAIN h = DOMAIN file
      BY <1>2, LogReplace
    <2>2. g = [h EXCEPT ![j] = file[i]]
      BY <1>5
    <2> HIDE DEF h
    <2> QED
      BY <1>2, <2>1, <2>2, LogReplace
  <1>6. CASE g = SubSeq(file, 1, Len(file) - 1)
    <2>1. Len(file) - 1 \in 0..Len(file)
      BY <1>1
    <2> QED
      BY <1>6, <2>1, PrefixLog
  <1>7. ASSUME NEW e \in Clean,
               g = Append(file, Line(MakeRecord(Len(file), e, ReplayTail(file)), TRUE))
        PROVE  IsLog(g)
    <2> DEFINE l == Line(MakeRecord(Len(file), e, ReplayTail(file)), TRUE)
    <2>1. IsLine(l)
      <3>1. Written(MakeRecord(Len(file), e, ReplayTail(file))) /\ TRUE \in BOOLEAN
        BY RecordFacts, AuditAssumption
      <3> QED
        BY <3>1, LineFacts, Zenon
    <2>0. g = Append(file, l)
      BY <1>7
    <2> HIDE DEF l
    <2>2. /\ IsSeq(g) /\ Len(g) = Len(file) + 1 /\ g[Len(file) + 1] = l
          /\ \A j \in DOMAIN file : g[j] = file[j]
      BY <1>1, <2>0, SeqAppend
    <2>3. \A j \in DOMAIN g : j \in DOMAIN file \/ j = Len(file) + 1
      BY <1>1, <2>2, SeqFacts
    <2> QED
      BY <1>2, <2>1, <2>2, <2>3, Zenon DEF IsLog
  <1> QED
      BY <1>3, <1>4, <1>5, <1>6, <1>7, Zenon DEF Alter

(* What the write of Append leaves: the record on a line of its own or a   *)
(* spoiled line, or, when it is cut short, the mark of it.                 *)
LEMMA WriteFacts ==
    ASSUME JunkApart, IsLog(file), NEW e \in Events, AppendWrite(e)
    PROVE  /\ IsLog(file') /\ Len(file) <= Len(file')
           /\ \A j \in DOMAIN file : file[j].rec = Junk => file'[j].rec = Junk
           /\ \A j \in DOMAIN file : file[j].nl => file'[j] = file[j]
           /\ \/ /\ pending' = MakeRecord(nextSeq, e, tailHash) /\ pending' # Junk
                 /\ damage' = damage
                 /\ \/ Len(file') = Len(file) + 1 /\ file'[Len(file) + 1] = Line(pending', TRUE)
                    \/ Spoiled(file') /\ Len(file) > 0 /\ ~file[Len(file)].nl
              \/ pending' = Junk /\ damage' = damage \cup {"shortWrite"}
  <1> DEFINE rec == MakeRecord(nextSeq, e, tailHash)
  <1>1. Written(rec) /\ rec # Junk
    <2>1. e # Mangled
      BY AuditAssumption DEF AppendWrite, ValidateEvent, Events
    <2> QED
      BY <2>1, RecordFacts, Zenon DEF JunkApart
  <1>2. pending = Junk
      BY DEF AppendWrite
  <1>3. \/ file' = Put(file, Line(rec, TRUE)) /\ pending' = rec /\ damage' = damage
        \/ file' \in Cut(file, Line(rec, TRUE)) /\ damage' = damage \cup {"shortWrite"}
           /\ pending' = pending
      BY Zenon DEF AppendWrite
  <1> HIDE DEF rec
  <1>4. CASE file' = Put(file, Line(rec, TRUE)) /\ pending' = rec /\ damage' = damage
    <2>1. PICK b \in BOOLEAN : b = TRUE
      BY Zenon
    <2>2. file' = Put(file, Line(rec, b))
      BY <1>4, <2>1, Zenon
    <2>3. /\ IsLog(file') /\ Len(file) <= Len(file')
          /\ \A j \in DOMAIN file : file[j].rec = Junk => file'[j].rec = Junk
          /\ \A j \in DOMAIN file : file[j].nl => file'[j] = file[j]
          /\ \/ Len(file') = Len(file) + 1 /\ file'[Len(file) + 1] = Line(rec, b)
             \/ Len(file) > 0 /\ ~file[Len(file)].nl /\ Spoiled(file')
      BY <1>1, <2>2, PutFacts
    <2> QED
      BY <1>1, <1>4, <2>1, <2>3, Zenon DEF rec
  <1>5. CASE /\ file' \in Cut(file, Line(rec, TRUE)) /\ damage' = damage \cup {"shortWrite"}
             /\ pending' = pending
    <2>1. Written(Line(rec, TRUE).rec)
      BY <1>1, LineFacts, Zenon
    <2>2. /\ IsLog(file') /\ Len(file) <= Len(file')
          /\ \A j \in DOMAIN file : file[j].rec = Junk => file'[j].rec = Junk
          /\ \A j \in DOMAIN file : file[j].nl => file'[j] = file[j]
      BY <1>5, <2>1, CutFacts
    <2> QED
      BY <1>2, <1>5, <2>2, Zenon
  <1> QED
      BY <1>3, <1>4, <1>5

(* The record between Append's write and its fsync continues the chain.    *)
LEMMA PendingFacts ==
    ASSUME Chained, pending # Junk
    PROVE  /\ state = "up" /\ nextSeq \in Nat /\ IsRec(pending)
           /\ pending.seq = nextSeq /\ pending.prev = tailHash
           /\ pending.hash = RecordHash(pending.seq, pending.ev, pending.prev)
  <1> DEFINE v == pending.ev
             r == MakeRecord(nextSeq, v, tailHash)
  <1>1. pending = r /\ state = "up"
      BY DEF Chained
  <1>2. nextSeq \in Nat
      BY SeqFacts DEF Chained
  <1> HIDE DEF v
  <1>3. r.seq = nextSeq /\ r.ev = v /\ r.prev = tailHash /\ r.hash = RecordHash(nextSeq, v, tailHash)
        /\ IsRec(r)
      BY RecordFacts
  <1> HIDE DEF r
  <1> QED
      BY <1>1, <1>2, <1>3, Zenon

-----------------------------------------------------------------------------
(* Every step keeps the file a file and its durable part a part of it.     *)
LEMMA TypeStep == JunkApart /\ AuditInv /\ [Next]_vars => TypeOK' /\ Synced'
  <1> SUFFICES ASSUME JunkApart, TypeOK, Chained, Synced, [Next]_vars PROVE TypeOK' /\ Synced'
      BY DEF AuditInv
  <1>1. CASE NewFileSink
      BY <1>1 DEF NewFileSink, TypeOK, Synced
  <1>2. ASSUME NEW e \in Events, AppendWrite(e) PROVE TypeOK' /\ Synced'
    <2>1. /\ IsLog(file') /\ Len(file) <= Len(file')
          /\ \A j \in DOMAIN file : file[j].rec = Junk => file'[j].rec = Junk
      BY <1>2, WriteFacts DEF TypeOK
    <2>2. UNCHANGED <<disk, state, acked>>
      BY <1>2 DEF AppendWrite
    <2>3. /\ Len(file) \in Nat /\ Len(disk) \in Nat /\ Len(file') \in Nat
          /\ DOMAIN file = 1..Len(file) /\ DOMAIN disk = 1..Len(disk)
      BY <2>1, SeqFacts DEF TypeOK, IsLog
    <2>4. Len(disk) <= Len(file') /\ \A j \in DOMAIN disk : j \in DOMAIN file
      BY <2>1, <2>3 DEF Synced
    <2> QED
      BY <2>1, <2>2, <2>4 DEF TypeOK, Synced
  <1>3. CASE AppendSync
    <2>1. UNCHANGED <<file, state>> /\ disk' \in {file, disk}
      BY <1>3 DEF AppendSync
    <2>2. Synced'
      <3>1. Len(file) <= Len(file)
        BY SeqFacts DEF TypeOK, IsLog
      <3> QED
        BY <2>1, <3>1 DEF Synced
    <2>3. acked' = Append(acked, pending) \/ acked' = acked
      BY <1>3 DEF AppendSync
    <2>4. pending.seq \in Nat
      BY <1>3, PendingFacts DEF AppendSync
    <2>5. IsSeq(acked') /\ \A i \in DOMAIN acked' : acked'[i].seq \in Nat
      <3>1. CASE acked' = Append(acked, pending)
        <4>1. /\ IsSeq(acked') /\ Len(acked') = Len(acked) + 1 /\ acked'[Len(acked) + 1] = pending
              /\ \A i \in 1..Len(acked) : acked'[i] = acked[i]
          BY <3>1, SeqAppend DEF TypeOK
        <4>2. /\ DOMAIN acked' = 1..(Len(acked) + 1) /\ DOMAIN acked = 1..Len(acked)
              /\ Len(acked) \in Nat
          BY <4>1, SeqFacts DEF TypeOK
        <4>3. \A i \in DOMAIN acked' : i \in DOMAIN acked \/ i = Len(acked) + 1
          BY <4>2
        <4> QED
          BY <2>4, <4>1, <4>2, <4>3, Zenon DEF TypeOK
      <3> QED
        BY <2>3, <3>1 DEF TypeOK
    <2> QED
      BY <2>1, <2>2, <2>5 DEF TypeOK
  <1>4. CASE Verify
    <2>1. UNCHANGED <<file, state, acked>> /\ disk' \in {file, disk}
      BY <1>4 DEF Verify
    <2>2. Len(file) <= Len(file)
      BY SeqFacts DEF TypeOK, IsLog
    <2> QED
      BY <2>1, <2>2 DEF TypeOK, Synced
  <1>5. CASE Close
      BY <1>5 DEF Close, TypeOK, Synced
  <1>6. CASE Crash
    <2>1. IsLog(file')
      BY <1>6, SurvivorFacts DEF Crash, TypeOK
    <2>2. Len(file') <= Len(file')
      BY <2>1, SeqFacts DEF IsLog
    <2>3. disk' = file' /\ state' = "down" /\ acked' = acked
      BY <1>6 DEF Crash
    <2> QED
      BY <2>1, <2>2, <2>3 DEF TypeOK, Synced
  <1>7. CASE OutOfBand
    <2>1. IsLog(file')
      BY <1>7, AlterLog DEF OutOfBand, TypeOK
    <2>2. Len(file') <= Len(file')
      BY <2>1, SeqFacts DEF IsLog
    <2>3. disk' = file' /\ state' = state /\ acked' = acked
      BY <1>7 DEF OutOfBand
    <2> QED
      BY <2>1, <2>2, <2>3 DEF TypeOK, Synced
  <1>8. CASE UNCHANGED vars
      BY <1>8 DEF vars, TypeOK, Synced
  <1> QED
      BY <1>1, <1>2, <1>3, <1>4, <1>5, <1>6, <1>7, <1>8 DEF Next

(* Every step keeps the sink's chain: NewFileSink takes the one replay     *)
(* accepted, and only a synced Append continues it.                        *)
LEMMA ChainStep == JunkApart /\ AuditInv /\ [Next]_vars => Chained'
  <1> SUFFICES ASSUME JunkApart, TypeOK, Chained, [Next]_vars PROVE Chained'
      BY DEF AuditInv
  <1>1. CASE NewFileSink
    <2>1. pending = Junk /\ pending' = Junk
      BY <1>1 DEF NewFileSink, Chained
    <2>2. CASE ReplayOK(file)
      <3>1. /\ nextSeq' = Len(file) /\ tailHash' = ReplayTail(file) /\ mine' = Records(file)
        BY <1>1, <2>2 DEF NewFileSink, ReplaySeq
      <3>2. /\ IsSeq(Records(file)) /\ Len(Records(file)) = Len(file) /\ Linked(Records(file))
            /\ ReplayTail(file) = IF Records(file) = <<>> THEN Genesis ELSE Records(file)[Len(file)].hash
        BY <2>2, ReplayChain DEF TypeOK
      <3> QED
        BY <2>1, <3>1, <3>2 DEF Chained
    <2>3. CASE ~ReplayOK(file)
      <3>1. UNCHANGED <<nextSeq, tailHash, mine>>
        BY <1>1, <2>3 DEF NewFileSink
      <3> QED
        BY <2>1, <3>1 DEF Chained
    <2> QED
      BY <2>2, <2>3
  <1>2. ASSUME NEW e \in Events, AppendWrite(e) PROVE Chained'
    <2>1. UNCHANGED <<nextSeq, tailHash, mine, state>> /\ state = "up"
      BY <1>2 DEF AppendWrite
    <2>2. pending' # Junk => pending' = MakeRecord(nextSeq, e, tailHash)
      BY <1>2, WriteFacts DEF TypeOK
    <2>3. pending' # Junk => pending'.ev = e
      BY <2>2, RecordFacts
    <2> QED
      BY <2>1, <2>2, <2>3, Zenon DEF Chained
  <1>3. CASE AppendSync
    <2>1. /\ state = "up" /\ nextSeq \in Nat /\ IsRec(pending)
          /\ pending.seq = nextSeq /\ pending.prev = tailHash
          /\ pending.hash = RecordHash(pending.seq, pending.ev, pending.prev)
      BY <1>3, PendingFacts DEF AppendSync
    <2>2. CASE UNCHANGED <<tailHash, nextSeq, mine>>
      BY <1>3, <2>2 DEF AppendSync, Chained
    <2>3. CASE tailHash' = pending.hash /\ nextSeq' = nextSeq + 1 /\ mine' = Append(mine, pending)
      <3>1. /\ IsSeq(mine') /\ Len(mine') = Len(mine) + 1 /\ mine'[Len(mine) + 1] = pending
            /\ \A i \in 1..Len(mine) : mine'[i] = mine[i]
        BY <2>3, SeqAppend DEF Chained
      <3>2. /\ DOMAIN mine' = 1..(Len(mine) + 1) /\ DOMAIN mine = 1..Len(mine)
            /\ Len(mine) \in Nat /\ mine' # <<>> /\ (mine = <<>> <=> Len(mine) = 0)
        BY <3>1, SeqFacts DEF Chained
      <3>3. ASSUME NEW i \in DOMAIN mine'
            PROVE  /\ IsRec(mine'[i])
                   /\ mine'[i].prev = IF i = 1 THEN Genesis ELSE mine'[i - 1].hash
                   /\ mine'[i].hash = RecordHash(mine'[i].seq, mine'[i].ev, mine'[i].prev)
        <4>1. CASE i \in DOMAIN mine
          <5>1. mine'[i] = mine[i] /\ (i # 1 => mine'[i - 1] = mine[i - 1])
            BY <3>1, <3>2, <4>1
          <5> QED
            BY <4>1, <5>1, Zenon DEF Chained, Linked
        <4>2. CASE i = Len(mine) + 1
          <5>1. mine'[i] = pending
            BY <3>1, <4>2
          <5>2. tailHash = IF i = 1 THEN Genesis ELSE mine'[i - 1].hash
            BY <3>1, <3>2, <4>2 DEF Chained
          <5> QED
            BY <2>1, <5>1, <5>2, Zenon
        <4> QED
          BY <3>2, <3>3, <4>1, <4>2
      <3>4. Linked(mine')
        BY <3>3, Zenon DEF Linked
      <3>5. tailHash' = mine'[Len(mine')].hash
        BY <2>3, <3>1
      <3>6. nextSeq' = Len(mine') /\ pending' = Junk
        BY <1>3, <2>3, <3>1 DEF AppendSync, Chained
      <3> QED
        BY <3>1, <3>2, <3>4, <3>5, <3>6 DEF Chained
    <2> QED
      BY <1>3, <2>2, <2>3 DEF AppendSync
  <1>4. CASE Verify \/ Close
      BY <1>4 DEF Verify, Close, Chained
  <1>5. CASE Crash
      BY <1>5 DEF Crash, Chained
  <1>6. CASE OutOfBand \/ UNCHANGED vars
      BY <1>6 DEF OutOfBand, vars, Chained
  <1> QED
      BY <1>1, <1>2, <1>3, <1>4, <1>5, <1>6 DEF Next

(* Verify's three comparisons leave one file: the sink's chain.            *)
LEMMA HonestStep == AuditInv /\ [Next]_vars => VerifyHonest'
  <1> SUFFICES ASSUME TypeOK, Chained, VerifyHonest, [Next]_vars PROVE VerifyHonest'
      BY DEF AuditInv
  <1>1. CASE verdict' # "ok"
      BY <1>1 DEF VerifyHonest
  <1>2. CASE UNCHANGED vars
      BY <1>2 DEF vars, VerifyHonest
  <1>3. CASE verdict' = "ok" /\ ~UNCHANGED vars
    <2>1. Verify
      BY <1>3 DEF Next, NewFileSink, AppendWrite, AppendSync, Close, Crash, OutOfBand
    <2>2. /\ ReplayOK(file) /\ Len(file) = nextSeq /\ ReplayTail(file) = tailHash
          /\ UNCHANGED <<file, mine>>
      BY <1>3, <2>1 DEF Verify, ReplaySeq
    <2>3. /\ IsSeq(Records(file)) /\ Len(Records(file)) = Len(file) /\ Linked(Records(file))
          /\ ReplayTail(file) = IF Records(file) = <<>> THEN Genesis ELSE Records(file)[Len(file)].hash
      BY <2>2, ReplayChain DEF TypeOK
    <2>4. Len(file) > 0 => Records(file)[Len(file)].hash = mine[Len(file)].hash
      <3>1. Len(file) > 0 => Records(file) # <<>> /\ mine # <<>>
        BY <2>2, <2>3, SeqFacts DEF Chained
      <3> QED
        BY <2>2, <2>3, <3>1 DEF Chained
    <2>5. Records(file) = mine
      <3> DEFINE m == Records(file)
      <3>1. IsSeq(m) /\ Linked(m) /\ Len(m) = Len(mine) /\ (Len(m) > 0 => m[Len(m)].hash = mine[Len(m)].hash)
        BY <2>2, <2>3, <2>4 DEF Chained
      <3> HIDE DEF m
      <3>2. m = mine
        BY <3>1, ChainUnique DEF Chained
      <3> QED
        BY <3>2 DEF m
    <2> QED
      BY <2>2, <2>5 DEF VerifyHonest, Records
  <1> QED
      BY <1>1, <1>2, <1>3

(* Every step of an unaltered file keeps its length ahead of the Seqs, or  *)
(* its spoiled line, and so their order.                                   *)
LEMMA LongStep == JunkApart /\ AuditInv /\ [Next]_vars => LongEnough' /\ SeqNeverReused'
  <1> SUFFICES ASSUME JunkApart, TypeOK, Chained, Synced, LongEnough, SeqNeverReused, [Next]_vars,
                      "outOfBand" \notin damage'
               PROVE  LongEnough' /\ SeqNeverReused'
      BY DEF AuditInv, LongEnough, SeqNeverReused
  <1>0. "outOfBand" \notin damage /\ ~OutOfBand
      BY DEF Next, NewFileSink, AppendWrite, AppendSync, Verify, Close, Crash, OutOfBand, vars
  <1>n. /\ Len(file) \in Nat /\ DOMAIN file = 1..Len(file)
        /\ Len(disk) \in Nat /\ DOMAIN disk = 1..Len(disk)
        /\ Len(acked) \in Nat /\ DOMAIN acked = 1..Len(acked)
        /\ nextSeq \in Nat
      BY SeqFacts DEF TypeOK, IsLog, Chained
  <1>d. Spoiled(disk) => Spoiled(file)
    <2>1. \A j \in DOMAIN disk : j \in DOMAIN file
      BY <1>n DEF Synced
    <2> QED
      BY <2>1 DEF Spoiled, Synced
  <1>s. \A i \in DOMAIN acked : acked[i].seq < Len(file) \/ Spoiled(file)
      BY <1>0, <1>n, <1>d DEF LongEnough, Synced, TypeOK
  <1>1. CASE NewFileSink
    <2>1. UNCHANGED <<file, disk, pending, acked, damage>> /\ pending = Junk
      BY <1>1 DEF NewFileSink, Chained
    <2>2. state' = "up" => ReplayOK(file) /\ nextSeq' = Len(file)
      BY <1>1 DEF NewFileSink, ReplaySeq
    <2>3. state' = "up" => \A i \in DOMAIN acked : acked[i].seq < nextSeq'
      BY <1>s, <2>2, ReplayChain DEF TypeOK
    <2> QED
      BY <1>0, <1>n, <2>1, <2>2, <2>3 DEF LongEnough, SeqNeverReused, Spoiled
  <1>2. ASSUME NEW e \in Events, AppendWrite(e) PROVE LongEnough' /\ SeqNeverReused'
    <2>1. UNCHANGED <<disk, state, nextSeq, acked>> /\ state = "up" /\ pending = Junk
      BY <1>2 DEF AppendWrite
    <2>2. /\ IsLog(file') /\ Len(file) <= Len(file')
          /\ \A j \in DOMAIN file : file[j].rec = Junk => file'[j].rec = Junk
          /\ pending' # Junk => Len(file') = Len(file) + 1 \/ Spoiled(file')
      BY <1>2, WriteFacts DEF TypeOK
    <2>3. Len(file') \in Nat /\ DOMAIN file' = 1..Len(file')
      BY <2>2, SeqFacts DEF IsLog
    <2>4. Spoiled(file) => Spoiled(file')
      <3>1. \A j \in DOMAIN file : j \in DOMAIN file'
        <4>1. Len(file) <= Len(file')
          BY <2>2
        <4> QED
          BY <1>n, <2>3, <4>1
      <3> QED
        BY <2>2, <3>1 DEF Spoiled
    <2>5. nextSeq + (IF pending' = Junk THEN 0 ELSE 1) <= Len(file') \/ Spoiled(file')
      <3>1. nextSeq <= Len(file) \/ Spoiled(file)
        BY <1>0, <1>n, <2>1 DEF LongEnough
      <3>2. CASE Spoiled(file)
        BY <2>4, <3>2
      <3>3. CASE nextSeq <= Len(file) /\ pending' = Junk
        BY <1>n, <2>2, <2>3, <3>3
      <3>4. CASE nextSeq <= Len(file) /\ pending' # Junk
        <4>1. Len(file') = Len(file) + 1 \/ Spoiled(file')
          BY <2>2, <3>4, Zenon
        <4>2. CASE Len(file') = Len(file) + 1
          <5>1. nextSeq + 1 <= Len(file')
            BY <1>n, <3>4, <4>2
          <5> QED
            BY <3>4, <5>1
        <4> QED
          BY <4>1, <4>2, Zenon
      <3> QED
        BY <3>1, <3>2, <3>3, <3>4
    <2> QED
      BY <1>0, <2>1, <2>5 DEF LongEnough, SeqNeverReused, Spoiled
  <1>3. CASE AppendSync
    <2>1. /\ UNCHANGED <<file, state>> /\ state = "up" /\ pending # Junk /\ pending.seq = nextSeq
          /\ pending' = Junk
      BY <1>3, PendingFacts DEF AppendSync
    <2>2. nextSeq + 1 <= Len(file) \/ Spoiled(file)
      BY <1>0, <2>1 DEF LongEnough
    <2>3. CASE UNCHANGED <<disk, nextSeq, acked>>
      BY <1>0, <1>n, <2>1, <2>2, <2>3 DEF LongEnough, SeqNeverReused, Spoiled
    <2>4. CASE disk' = file /\ nextSeq' = nextSeq + 1 /\ acked' = Append(acked, pending)
      <3>1. /\ IsSeq(acked') /\ Len(acked') = Len(acked) + 1 /\ acked'[Len(acked) + 1] = pending
            /\ \A i \in 1..Len(acked) : acked'[i] = acked[i]
        BY <2>4, SeqAppend DEF TypeOK
      <3>2. DOMAIN acked' = 1..(Len(acked) + 1)
        BY <3>1, SeqFacts
      <3>3. \A i \in DOMAIN acked : acked[i].seq < nextSeq /\ acked[i].seq \in Nat
        BY <1>0, <2>1 DEF LongEnough, TypeOK
      <3>4. \A i \in DOMAIN acked' :
               /\ acked'[i].seq < nextSeq'
               /\ acked'[i].seq < Len(file) \/ Spoiled(file)
        <4> TAKE i \in DOMAIN acked'
        <4>1. CASE i \in 1..Len(acked)
          BY <1>n, <1>s, <2>4, <3>1, <3>3, <4>1
        <4>2. CASE i = Len(acked) + 1
          BY <1>n, <2>1, <2>2, <2>4, <3>1, <4>2
        <4> QED
          BY <1>n, <3>2, <4>1, <4>2
      <3>5. \A i, j \in DOMAIN acked' : i < j => acked'[i].seq < acked'[j].seq
        <4> TAKE i, j \in DOMAIN acked'
        <4> HAVE i < j
        <4>1. i \in DOMAIN acked /\ acked'[i] = acked[i]
          BY <1>n, <3>1, <3>2
        <4>2. CASE j \in DOMAIN acked
          BY <1>0, <1>n, <3>1, <4>1, <4>2 DEF SeqNeverReused
        <4>3. CASE j = Len(acked) + 1
          BY <2>1, <3>1, <3>3, <4>1, <4>3
        <4> QED
          BY <1>n, <3>2, <4>2, <4>3
      <3>6. nextSeq' + 0 <= Len(file') \/ Spoiled(file')
        BY <1>n, <2>1, <2>2, <2>4 DEF Spoiled
      <3> QED
        BY <1>n, <2>1, <2>4, <3>4, <3>5, <3>6 DEF LongEnough, SeqNeverReused, Spoiled
    <2> QED
      BY <1>3, <2>3, <2>4 DEF AppendSync
  <1>4. CASE Verify
    <2>1. UNCHANGED <<file, state, nextSeq, pending, acked, damage>> /\ disk' \in {file, disk}
      BY <1>4 DEF Verify
    <2> QED
      BY <1>0, <1>s, <2>1 DEF LongEnough, SeqNeverReused, Spoiled
  <1>5. CASE Close
      BY <1>0, <1>5 DEF Close, LongEnough, SeqNeverReused, Spoiled
  <1>6. CASE Crash
    <2>1. disk' = file' /\ state' = "down" /\ acked' = acked /\ file' \in Survivors
      BY <1>6 DEF Crash
    <2>2. /\ IsLog(file') /\ Len(disk) <= Len(file')
          /\ \A j \in DOMAIN disk : disk[j].rec = Junk => file'[j].rec = Junk
      BY <2>1, SurvivorFacts DEF TypeOK
    <2>3. Len(file') \in Nat /\ DOMAIN file' = 1..Len(file')
      BY <2>2, SeqFacts DEF IsLog
    <2>4. Spoiled(disk) => Spoiled(file')
      <3>1. \A j \in DOMAIN disk : j \in DOMAIN file'
        BY <1>n, <2>2, <2>3
      <3> QED
        BY <2>2, <3>1 DEF Spoiled
    <2>5. \A i \in DOMAIN acked : acked[i].seq < Len(file') \/ Spoiled(file')
      BY <1>0, <1>n, <2>2, <2>3, <2>4 DEF LongEnough, TypeOK
    <2> QED
      BY <1>0, <2>1, <2>5 DEF LongEnough, SeqNeverReused, Spoiled
  <1>7. CASE UNCHANGED vars
      BY <1>7 DEF vars, LongEnough, SeqNeverReused, Spoiled
  <1> QED
      BY <1>0, <1>1, <1>2, <1>3, <1>4, <1>5, <1>6, <1>7 DEF Next

(* Every step that does no worse than a crash in Append keeps each         *)
(* acknowledged record whole at its place.                                 *)
LEMMA WholeStep == JunkApart /\ AuditInv /\ [Next]_vars => Whole' /\ AckedSurvive'
  <1> SUFFICES ASSUME JunkApart, TypeOK, Chained, Synced, Whole, AckedSurvive, [Next]_vars,
                      Intact'
               PROVE  Whole' /\ AckedSurvive'
      BY DEF AuditInv, Whole, AckedSurvive, Intact
  <1>0. /\ Intact /\ ~OutOfBand
        /\ damage' \cap {"shortWrite", "newlineLost"} = {}
      BY DEF Intact, Next, NewFileSink, AppendWrite, AppendSync, Verify, Close, Crash, OutOfBand, vars
  <1>n. /\ Len(file) \in Nat /\ DOMAIN file = 1..Len(file)
        /\ Len(disk) \in Nat /\ DOMAIN disk = 1..Len(disk) /\ Len(disk) <= Len(file)
        /\ Len(acked) \in Nat /\ DOMAIN acked = 1..Len(acked)
        /\ nextSeq \in Nat
      BY SeqFacts DEF TypeOK, IsLog, Chained, Synced
  <1>w. /\ \A j \in DOMAIN disk : file[j] = disk[j]
        /\ \A j \in DOMAIN file : file[j].nl \/ (file[j].rec = Junk /\ state \in {"down", "refused"})
        /\ state = "up" => /\ Len(file) = nextSeq + (IF pending = Junk THEN 0 ELSE 1)
                           /\ pending # Junk => file[Len(file)] = Line(pending, TRUE)
      BY <1>0 DEF Whole
  <1>a. \A i \in DOMAIN acked : /\ acked[i].seq + 1 \in DOMAIN disk
                                /\ disk[acked[i].seq + 1] = Line(acked[i], TRUE)
      BY <1>0 DEF AckedSurvive, Intact
  <1>1. CASE NewFileSink
    <2>1. UNCHANGED <<file, disk, pending, acked>> /\ pending = Junk
      BY <1>1 DEF NewFileSink, Chained
    <2>2. CASE ReplayOK(file)
      <3>1. state' = "up" /\ nextSeq' = Len(file)
        BY <1>1, <2>2 DEF NewFileSink, ReplaySeq
      <3>2. \A j \in DOMAIN file : file[j].nl
        BY <1>w, <2>2, ReplayChain DEF TypeOK, Spoiled
      <3>3. Len(file') = nextSeq' + (IF pending' = Junk THEN 0 ELSE 1) /\ pending' = Junk
        BY <1>n, <2>1, <3>1
      <3> QED
        BY <1>w, <1>a, <2>1, <3>2, <3>3, Zenon DEF Whole, AckedSurvive
    <2>3. CASE ~ReplayOK(file)
      <3>1. state' = "refused"
        BY <1>1, <2>3 DEF NewFileSink
      <3> QED
        BY <1>w, <1>a, <2>1, <3>1 DEF Whole, AckedSurvive
    <2> QED
      BY <2>2, <2>3
  <1>2. ASSUME NEW e \in Events, AppendWrite(e) PROVE Whole' /\ AckedSurvive'
    <2>1. UNCHANGED <<disk, state, nextSeq, acked>> /\ state = "up" /\ pending = Junk
      BY <1>2 DEF AppendWrite
    <2>2. \A j \in DOMAIN file : file[j].nl
      BY <1>w, <2>1
    <2>3. /\ IsLog(file') /\ \A j \in DOMAIN file : file[j].nl => file'[j] = file[j]
          /\ pending' # Junk
          /\ Len(file') = Len(file) + 1 /\ file'[Len(file) + 1] = Line(pending', TRUE)
      <3>1. Len(file) > 0 => file[Len(file)].nl
        BY <1>n, <2>2
      <3>2. ~("shortWrite" \in damage')
        BY <1>0
      <3> QED
        BY <1>2, <3>1, <3>2, WriteFacts DEF TypeOK
    <2>4. /\ DOMAIN file' = 1..Len(file') /\ \A j \in DOMAIN file' : j \in DOMAIN file \/ j = Len(file) + 1
          /\ \A j \in DOMAIN disk : j \in DOMAIN file
      BY <1>n, <2>3, SeqFacts DEF IsLog
    <2>5. Line(pending', TRUE).nl
      BY LineFacts, Zenon
    <2>6. \A j \in DOMAIN file' : file'[j].nl
      BY <2>2, <2>3, <2>4, <2>5, Zenon
    <2>7. \A j \in DOMAIN disk : file'[j] = disk[j]
      BY <1>w, <2>2, <2>3, <2>4
    <2>8. Len(file') = nextSeq + 1 /\ file'[Len(file')] = Line(pending', TRUE)
      BY <1>n, <1>w, <2>1, <2>3
    <2> QED
      BY <1>a, <2>1, <2>3, <2>6, <2>7, <2>8 DEF Whole, AckedSurvive
  <1>3. CASE AppendSync
    <2>1. /\ UNCHANGED <<file, state>> /\ state = "up" /\ pending # Junk /\ pending.seq = nextSeq
          /\ pending' = Junk
      BY <1>3, PendingFacts DEF AppendSync
    <2>2. disk' = file /\ nextSeq' = nextSeq + 1 /\ acked' = Append(acked, pending)
      BY <1>3 DEF AppendSync, Intact
    <2>3. Len(file) = nextSeq + 1 /\ file[nextSeq + 1] = Line(pending, TRUE)
      BY <1>w, <2>1
    <2>4. /\ IsSeq(acked') /\ Len(acked') = Len(acked) + 1 /\ acked'[Len(acked) + 1] = pending
          /\ \A i \in 1..Len(acked) : acked'[i] = acked[i]
      BY <2>2, SeqAppend DEF TypeOK
    <2>5. DOMAIN acked' = 1..(Len(acked) + 1)
      BY <2>4, SeqFacts
    <2>6. \A i \in DOMAIN acked' : /\ acked'[i].seq + 1 \in DOMAIN file
                                   /\ file[acked'[i].seq + 1] = Line(acked'[i], TRUE)
      <3> TAKE i \in DOMAIN acked'
      <3>1. CASE i \in DOMAIN acked
        <4>1. acked'[i] = acked[i] /\ \A j \in DOMAIN disk : j \in DOMAIN file
          BY <1>n, <2>4, <3>1
        <4> QED
          BY <1>a, <1>w, <3>1, <4>1
      <3>2. CASE i = Len(acked) + 1
        <4>1. acked'[i] = pending /\ nextSeq + 1 \in DOMAIN file
          BY <1>n, <2>3, <2>4, <3>2
        <4> QED
          BY <2>1, <2>3, <4>1
      <3>3. i \in DOMAIN acked \/ i = Len(acked) + 1
        BY <1>n, <2>5
      <3> QED
        BY <3>1, <3>2, <3>3, Zenon
    <2>7. Len(file') = nextSeq' + (IF pending' = Junk THEN 0 ELSE 1)
      BY <1>n, <2>1, <2>2, <2>3
    <2> QED
      BY <1>w, <2>1, <2>2, <2>6, <2>7, Zenon DEF Whole, AckedSurvive
  <1>4. CASE Verify
    <2>1. UNCHANGED <<file, state, nextSeq, pending, acked>> /\ disk' \in {file, disk}
      BY <1>4 DEF Verify
    <2>2. \A i \in DOMAIN acked : /\ acked[i].seq + 1 \in DOMAIN disk'
                                  /\ disk'[acked[i].seq + 1] = Line(acked[i], TRUE)
      <3>1. \A j \in DOMAIN disk : j \in DOMAIN file
        BY <1>n
      <3> QED
        BY <1>a, <1>w, <2>1, <3>1
    <2> QED
      BY <1>w, <2>1, <2>2 DEF Whole, AckedSurvive
  <1>5. CASE Close
      BY <1>w, <1>a, <1>5 DEF Close, Whole, AckedSurvive
  <1>6. CASE Crash
    <2>1. /\ disk' = file' /\ state' = "down" /\ acked' = acked /\ file' \in Survivors
          /\ state \in {"up", "closed"}
      BY <1>6 DEF Crash
    <2>2. /\ IsLog(file') /\ Len(disk) <= Len(file')
          /\ \A j \in DOMAIN disk : file'[j] = disk[j]
          /\ \A j \in DOMAIN file' : file'[j].nl \/ j = Len(file')
      BY <1>w, <2>1, SurvivorFacts DEF TypeOK
    <2>3. ~NewlineLost(file')
      BY <1>0, <1>6 DEF Crash
    <2>4. Len(file') \in Nat /\ DOMAIN file' = 1..Len(file') /\ (file' = <<>> <=> Len(file') = 0)
      BY <2>2, SeqFacts DEF IsLog
    <2>5. \A j \in DOMAIN file' : file'[j].nl \/ file'[j].rec = Junk
      <3>1. \A j \in DOMAIN file' : file' # <<>>
        BY <2>4
      <3> QED
        BY <2>2, <2>3, <3>1 DEF NewlineLost
    <2>6. \A j \in DOMAIN disk : j \in DOMAIN file'
      BY <1>n, <2>2, <2>4
    <2> QED
      BY <1>a, <2>1, <2>2, <2>5, <2>6 DEF Whole, AckedSurvive
  <1>7. CASE UNCHANGED vars
      BY <1>w, <1>a, <1>7 DEF vars, Whole, AckedSurvive
  <1> QED
      BY <1>0, <1>1, <1>2, <1>3, <1>4, <1>5, <1>6, <1>7 DEF Next

(* The inductive invariant of the audit file.                              *)
THEOREM AuditInvariant == JunkApart => (Spec => []AuditInv)
  <1> SUFFICES ASSUME JunkApart PROVE Spec => []AuditInv
      OBVIOUS
  <1>1. Init => AuditInv
    <2> SUFFICES ASSUME Init PROVE AuditInv
      OBVIOUS
    <2>1. /\ file = <<>> /\ disk = <<>> /\ acked = <<>> /\ mine = <<>> /\ state = "down"
          /\ nextSeq = 0 /\ tailHash = Genesis /\ pending = Junk /\ verdict = "none"
      BY DEF Init
    <2>2. IsSeq(<<>>) /\ DOMAIN <<>> = {} /\ Len(<<>>) = 0
      BY DEF IsSeq
    <2>3. TypeOK /\ Synced
      BY <2>1, <2>2 DEF TypeOK, IsLog, Synced
    <2>4. Chained
      BY <2>1, <2>2 DEF Chained, Linked
    <2>5. LongEnough /\ Whole
      BY <2>1, <2>2 DEF LongEnough, Whole
    <2>6. AckedSurvive /\ SeqNeverReused /\ VerifyHonest
      BY <2>1, <2>2 DEF AckedSurvive, SeqNeverReused, VerifyHonest
    <2> QED
      BY <2>3, <2>4, <2>5, <2>6 DEF AuditInv
  <1>2. AuditInv /\ [Next]_vars => AuditInv'
    <2> SUFFICES ASSUME AuditInv, [Next]_vars PROVE AuditInv'
      OBVIOUS
    <2> QED
      BY TypeStep, ChainStep, HonestStep, LongStep, WholeStep DEF AuditInv
  <1> QED
      BY <1>1, <1>2, PTL DEF Spec

(* What Append acknowledged is on disk, at the place of its Seq, after any *)
(* number of crashes, while no write or fsync failed.                      *)
THEOREM DurabilitySafety == JunkApart => (Spec => []AckedSurvive)
  <1>1. AuditInv => AckedSurvive
      BY DEF AuditInv
  <1> QED
      BY <1>1, AuditInvariant, PTL

(* No Seq is acknowledged twice, over failed writes, crashes, reopenings.  *)
THEOREM SeqSafety == JunkApart => (Spec => []SeqNeverReused)
  <1>1. AuditInv => SeqNeverReused
      BY DEF AuditInv
  <1> QED
      BY <1>1, AuditInvariant, PTL

(* Verify returns nil for no file but the sink's own chain.                *)
THEOREM VerifySafety == JunkApart => (Spec => []VerifyHonest)
  <1>1. AuditInv => VerifyHonest
      BY DEF AuditInv
  <1> QED
      BY <1>1, AuditInvariant, PTL

-----------------------------------------------------------------------------
(* While nothing happened to the file, it is the chain on disk and, between*)
(* Append's write and its fsync, the pending record after it.              *)
Pristine ==
    damage = {} =>
        /\ state # "refused" /\ verdict # "broken"
        /\ ReplayOK(disk) /\ \A j \in DOMAIN disk : disk[j].nl
        /\ file = IF pending = Junk THEN disk ELSE Append(disk, Line(pending, TRUE))
        /\ state = "up" => nextSeq = Len(disk) /\ tailHash = ReplayTail(disk)

(* A readable record that continues the chain on disk is accepted there.   *)
LEMMA ReplayAppend ==
    ASSUME NEW f, IsLog(f), ReplayOK(f), NEW r, r # Junk, r.ev \in Clean,
           r.seq = Len(f), r.prev = ReplayTail(f), r.hash = RecordHash(r.seq, r.ev, r.prev),
           NEW l, l.rec = r, l.nl, NEW g, g = Append(f, l)
    PROVE  /\ ReplayOK(g) /\ Len(g) = Len(f) + 1 /\ ReplayTail(g) = r.hash
           /\ (\A j \in DOMAIN f : f[j].nl) => \A j \in DOMAIN g : g[j].nl
  <1>1. Len(f) \in Nat /\ DOMAIN f = 1..Len(f) /\ (f = <<>> <=> Len(f) = 0) /\ IsSeq(f)
      BY SeqFacts DEF IsLog
  <1>3. /\ IsSeq(g) /\ Len(g) = Len(f) + 1 /\ g[Len(f) + 1] = l
        /\ \A j \in 1..Len(f) : g[j] = f[j]
      BY <1>1, SeqAppend
  <1>4. DOMAIN g = 1..(Len(f) + 1) /\ g # <<>>
      BY <1>1, <1>3, SeqFacts
  <1>5. g[Len(f) + 1].rec = r /\ g[Len(f) + 1].nl
      BY <1>3, Zenon
  <1>6. \A j \in DOMAIN g : j \in DOMAIN f \/ j = Len(f) + 1
      BY <1>1, <1>4
  <1>7. ASSUME NEW j \in DOMAIN f PROVE LineOK(g, j)
    <2>1. g[j] = f[j] /\ (j # 1 => g[j - 1] = f[j - 1])
      BY <1>1, <1>3, <1>7
    <2>2. LineOK(f, j)
      BY <1>7 DEF ReplayOK
    <2> QED
      BY <2>1, <2>2, Zenon DEF LineOK
  <1>8. LineOK(g, Len(f) + 1)
    <2>1. r.prev = IF Len(f) + 1 = 1 THEN Genesis ELSE g[(Len(f) + 1) - 1].rec.hash
      <3>1. CASE Len(f) = 0
        BY <1>1, <3>1 DEF ReplayTail
      <3>2. CASE Len(f) # 0
        <4>1. (Len(f) + 1) - 1 = Len(f) /\ Len(f) \in 1..Len(f) /\ Len(f) + 1 # 1
          BY <1>1, <3>2
        <4> QED
          BY <1>1, <1>3, <3>2, <4>1, Zenon DEF ReplayTail
      <3> QED
        BY <3>1, <3>2
    <2>2. Decoded(r.ev) = r.ev /\ r.ev \notin Long
      BY AuditAssumption DEF Decoded
    <2>3. r.seq = (Len(f) + 1) - 1
      BY <1>1
    <2> QED
      BY <1>5, <2>1, <2>2, <2>3, Zenon DEF LineOK
  <1>9. ReplayOK(g)
      BY <1>6, <1>7, <1>8, Zenon DEF ReplayOK
  <1>10. ReplayTail(g) = r.hash
      BY <1>3, <1>4, <1>5, Zenon DEF ReplayTail
  <1>11. (\A j \in DOMAIN f : f[j].nl) => \A j \in DOMAIN g : g[j].nl
      BY <1>1, <1>3, <1>5, <1>6, Zenon
  <1> QED
      BY <1>3, <1>9, <1>10, <1>11

(* Every step to which nothing happens keeps the file pristine.            *)
LEMMA PristineStep == JunkApart /\ AuditInv /\ Pristine /\ [Next]_vars => Pristine'
  <1> SUFFICES ASSUME JunkApart, TypeOK, Chained, Pristine, [Next]_vars, damage' = {}
               PROVE  Pristine'
      BY DEF AuditInv, Pristine
  <1>0. damage = {} /\ ~OutOfBand
      BY DEF Next, NewFileSink, AppendWrite, AppendSync, Verify, Close, Crash, OutOfBand, vars
  <1>1. /\ state # "refused" /\ verdict # "broken"
        /\ ReplayOK(disk) /\ \A j \in DOMAIN disk : disk[j].nl
        /\ file = IF pending = Junk THEN disk ELSE Append(disk, Line(pending, TRUE))
        /\ state = "up" => nextSeq = Len(disk) /\ tailHash = ReplayTail(disk)
      BY <1>0 DEF Pristine
  <1>2. CASE NewFileSink
    <2>1. pending = Junk /\ file = disk
      BY <1>1, <1>2 DEF NewFileSink, Chained
    <2> QED
      BY <1>1, <1>2, <2>1 DEF NewFileSink, Pristine, ReplaySeq
  <1>3. ASSUME NEW e \in Events, AppendWrite(e) PROVE Pristine'
    <2>1. /\ UNCHANGED <<disk, state, nextSeq, tailHash>> /\ verdict' = "none" /\ pending = Junk
          /\ state = "up" /\ file = disk
      BY <1>1, <1>3 DEF AppendWrite
    <2>2. /\ pending' = MakeRecord(nextSeq, e, tailHash) /\ pending' # Junk
          /\ file' = Put(file, Line(pending', TRUE))
      BY <1>0, <1>3, Zenon DEF AppendWrite, JunkApart
    <2>3. file = <<>> \/ file[Len(file)].nl
      <3>1. Len(file) \in Nat /\ DOMAIN file = 1..Len(file) /\ (file = <<>> <=> Len(file) = 0)
        BY SeqFacts DEF TypeOK, IsLog
      <3> QED
        BY <1>1, <2>1, <3>1
    <2>4. file' = Append(disk, Line(pending', TRUE))
      BY <2>1, <2>2, <2>3, Zenon DEF Put
    <2> QED
      BY <1>1, <2>1, <2>2, <2>4, Zenon DEF Pristine
  <1>4. CASE AppendSync
    <2>1. /\ state = "up" /\ pending # Junk /\ pending.seq = nextSeq /\ pending.prev = tailHash
          /\ pending.hash = RecordHash(pending.seq, pending.ev, pending.prev)
      BY <1>4, PendingFacts DEF AppendSync
    <2>2. /\ disk' = file /\ tailHash' = pending.hash /\ nextSeq' = nextSeq + 1
          /\ pending.ev \in Clean /\ pending' = Junk /\ verdict' = "none"
          /\ UNCHANGED <<file, state>>
      BY <1>4 DEF AppendSync
    <2>3. /\ ReplayOK(file) /\ Len(file) = Len(disk) + 1 /\ ReplayTail(file) = pending.hash
          /\ \A j \in DOMAIN file : file[j].nl
      <3>1. file = Append(disk, Line(pending, TRUE))
        BY <1>1, <2>1
      <3>2. PICK l : l = Line(pending, TRUE)
        OBVIOUS
      <3>3. l.rec = pending /\ l.nl
        BY <3>2, LineFacts, Zenon
      <3>4. file = Append(disk, l)
        BY <3>1, <3>2, Zenon
      <3>5. /\ IsLog(disk) /\ ReplayOK(disk) /\ \A j \in DOMAIN disk : disk[j].nl
            /\ pending.seq = Len(disk) /\ pending.prev = ReplayTail(disk)
        BY <1>1, <2>1 DEF TypeOK
      <3> QED
        BY <2>1, <2>2, <3>3, <3>4, <3>5, ReplayAppend
    <2> QED
      BY <1>1, <2>1, <2>2, <2>3 DEF Pristine
  <1>5. CASE Verify
    <2>1. /\ pending = Junk /\ file = disk /\ UNCHANGED <<file, state, nextSeq, tailHash, pending>>
      BY <1>1, <1>5 DEF Verify
    <2>2. disk' = disk /\ verdict' # "broken"
      BY <1>1, <1>5, <2>1 DEF Verify, ReplaySeq
    <2> QED
      BY <1>1, <2>1, <2>2 DEF Pristine
  <1>6. CASE Close
      BY <1>1, <1>6 DEF Close, Pristine
  <1>7. CASE Crash
    <2>1. pending = Junk /\ file = disk
      BY <1>1, <1>7 DEF Crash
    <2>2. file' = disk
      <3>1. Len(disk) \in Nat /\ DOMAIN disk = 1..Len(disk) /\ disk = [i \in 1..Len(disk) |-> disk[i]]
        BY SeqFacts DEF TypeOK, IsLog
      <3>2. Len(disk)..Len(disk) = {Len(disk)} /\ Len(disk)..(Len(disk) - 1) = {}
        BY <3>1
      <3>3. SubSeq(disk, 1, Len(disk)) = disk
        BY <3>1 DEF TypeOK, IsLog, IsSeq
      <3> QED
        BY <1>7, <2>1, <3>2, <3>3, Zenon DEF Crash, Survivors
    <2> QED
      BY <1>1, <1>7, <2>1, <2>2 DEF Crash, Pristine
  <1>8. CASE UNCHANGED vars
      BY <1>1, <1>8 DEF vars, Pristine
  <1> QED
      BY <1>0, <1>2, <1>3, <1>4, <1>5, <1>6, <1>7, <1>8 DEF Next

(* No false alarm: a chain is reported broken, or a file refused, only     *)
(* after something happened to it.                                         *)
THEOREM AlarmSafety == JunkApart => (Spec => []BrokenOnlyIfDamaged)
  <1> SUFFICES ASSUME JunkApart PROVE Spec => []BrokenOnlyIfDamaged
      OBVIOUS
  <1>1. Init => Pristine
      BY DEF Init, Pristine, ReplayOK, ReplayTail
  <1>2. AuditInv /\ Pristine /\ [Next]_vars => Pristine'
      BY PristineStep
  <1>3. Pristine => BrokenOnlyIfDamaged
      BY DEF Pristine, BrokenOnlyIfDamaged
  <1> QED
      BY <1>1, <1>2, <1>3, AuditInvariant, PTL DEF Spec
=============================================================================
