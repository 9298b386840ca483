----------------------------- MODULE AuditSink -----------------------------
(***************************************************************************)
(* internal/audit: the append-only, hash-chained audit file.               *)
(*                                                                         *)
(* The file is a sequence of lines.  A line holds the record that was      *)
(* written, or Junk, which is not JSON; nl says whether its newline got    *)
(* there.  file is what the operating system shows, disk the part of it    *)
(* that an fsync made durable.  SHA-256 is an injective function: a hash   *)
(* is the content it was computed from.  Append holds the mutex from its   *)
(* first read of the sink to its return, so other callers see it as one    *)
(* step; its write and its fsync are two steps because a crash may come    *)
(* between them.                                                           *)
(***************************************************************************)
EXTENDS Integers, Sequences

CONSTANTS Clean,     \* events that ValidateEvent accepts and JSON preserves
          Lossy,     \* accepted, but json.Marshal replaces invalid UTF-8
          Long,      \* accepted, but the line exceeds the 1 MiB of the scanner
          Rejected,  \* empty field, unknown action or sensitive content
          Mangled,   \* what a Lossy event reads as
          Genesis,   \* genesisHash
          Junk,      \* a line that is not JSON
          MaxLines,  \* bound on the lines of the file
          MaxCrashes \* bound on the crashes

ASSUME AuditAssumption ==
    /\ MaxLines \in Nat /\ MaxCrashes \in Nat
    /\ Clean \cap (Lossy \cup Long) = {} /\ Lossy \cap Long = {}
    /\ Mangled \notin Clean \cup Lossy \cup Long
    /\ (Clean \cup Lossy \cup Long) \cap Rejected = {}

VARIABLES file,     \* the file as read back now
          disk,     \* what survives a crash
          state,    \* "down", "up", "closed", or "refused" by NewFileSink
          nextSeq, tailHash,   \* FileSink.nextSeq, FileSink.tailHash
          pending,  \* the record Append has written and not yet synced, or Junk
          verdict,  \* what the last Verify returned, "none" after other steps
          crashes,
          acked,    \* history: the records whose Append returned nil
          mine,     \* history: the chain this sink opened, and what it acked
          damage    \* history: what happened to the file so far

vars == <<file, disk, state, nextSeq, tailHash, pending, verdict, crashes,
          acked, mine, damage>>

Events == Clean \cup Lossy \cup Long \cup Rejected

(* audit.go ValidateEvent: nothing is written for an event it rejects.     *)
ValidateEvent(e) == e \notin Rejected

(* hash.go recordHash: every field but the hash itself, prev included.     *)
RecordHash(seq, e, prev) == [seq |-> seq, ev |-> e, prev |-> prev]

MakeRecord(seq, e, prev) ==
    [seq |-> seq, ev |-> e, prev |-> prev, hash |-> RecordHash(seq, e, prev)]

Line(r, nl) == [rec |-> r, nl |-> nl]

(* O_APPEND: bytes that follow a line without a newline spoil that line.   *)
Put(f, l) ==
    IF f # <<>> /\ ~f[Len(f)].nl
      THEN [f EXCEPT ![Len(f)] = Line(Junk, l.nl)]
      ELSE Append(f, l)

(* What a write of l cut short may leave: nothing, a fragment, or all of   *)
(* the record without its newline.                                         *)
Cut(f, l) == {f, Put(f, Line(Junk, FALSE)), Put(f, Line(l.rec, FALSE))}

(* json.Unmarshal of the event that was marshalled.                        *)
Decoded(e) == IF e \in Lossy THEN Mangled ELSE e

(* Mutant: the link to the line before is not checked.                     *)
LineOKNoPrev(f, i) ==
    LET r == f[i].rec IN
    /\ r # Junk /\ r.ev \notin Long
    /\ r.seq = i - 1
    /\ RecordHash(r.seq, Decoded(r.ev), r.prev) = r.hash

(* One pass of replay's loop: line i is JSON that the scanner can hold,    *)
(* its Seq is its position, it names the hash before it and its own hash   *)
(* is that of its contents.                                                *)
LineOK(f, i) ==
    LET r == f[i].rec
        prevHash == IF i = 1 THEN Genesis ELSE f[i - 1].rec.hash
    IN  /\ r # Junk
        /\ r.ev \notin Long
        /\ r.seq = i - 1
        /\ r.prev = prevHash
        /\ RecordHash(r.seq, Decoded(r.ev), r.prev) = r.hash

(* Mutant: the Seq of the last record instead of the one after it.         *)
ReplaySeqOfLast(f) == IF f = <<>> THEN 0 ELSE f[Len(f)].rec.seq

(* replay returns an error at the first line that fails.                   *)
ReplayOK(f) == \A i \in DOMAIN f : LineOK(f, i)
ReplaySeq(f) == Len(f)
ReplayTail(f) == IF f = <<>> THEN Genesis ELSE f[Len(f)].rec.hash

Records(f) == [i \in DOMAIN f |-> f[i].rec]

Init == /\ file = <<>> /\ disk = <<>>
        /\ state = "down" /\ nextSeq = 0 /\ tailHash = Genesis
        /\ pending = Junk /\ verdict = "none" /\ crashes = 0
        /\ acked = <<>> /\ mine = <<>> /\ damage = {}

-----------------------------------------------------------------------------
(* NewFileSink: verify what is there, then continue its chain, or fail.    *)
NewFileSink ==
    /\ state \in {"down", "closed"}
    /\ IF ReplayOK(file)
         THEN /\ state' = "up"
              /\ nextSeq' = ReplaySeq(file)
              /\ tailHash' = ReplayTail(file)
              /\ mine' = Records(file)
         ELSE /\ state' = "refused"
              /\ UNCHANGED <<nextSeq, tailHash, mine>>
    /\ verdict' = "none"
    /\ UNCHANGED <<file, disk, pending, crashes, acked, damage>>

(* Append up to the write, which may fail part-way: the error is returned  *)
(* and the fragment stays.                                                 *)
AppendWrite(e) ==
    LET rec == MakeRecord(nextSeq, e, tailHash) IN
    /\ ValidateEvent(e)
    /\ state = "up" /\ pending = Junk
    /\ Len(file) < MaxLines
    /\ \/ file' = Put(file, Line(rec, TRUE)) /\ pending' = rec /\ damage' = damage
       \/ file' \in Cut(file, Line(rec, TRUE)) /\ damage' = damage \cup {"shortWrite"}
          /\ UNCHANGED pending
    /\ verdict' = "none"
    /\ UNCHANGED <<disk, state, nextSeq, tailHash, crashes, acked, mine>>

(* Mutant: the sink advances without waiting for the disk.                 *)
AppendSyncSkipped ==
    /\ pending # Junk
    /\ tailHash' = pending.hash /\ nextSeq' = nextSeq + 1
    /\ acked' = Append(acked, pending) /\ mine' = Append(mine, pending)
    /\ pending' = Junk /\ verdict' = "none"
    /\ UNCHANGED <<file, disk, state, crashes, damage>>

(* Append from the fsync on.  When it fails the record stays in the file   *)
(* and the sink does not advance.                                          *)
AppendSync ==
    /\ pending # Junk
    /\ \/ /\ disk' = file
          /\ tailHash' = pending.hash /\ nextSeq' = nextSeq + 1
          /\ acked' = Append(acked, pending) /\ mine' = Append(mine, pending)
          /\ damage' = IF pending.ev \in Clean THEN damage
                                               ELSE damage \cup {"unreadable"}
       \/ /\ damage' = damage \cup {"fsyncFailed"}
          /\ UNCHANGED <<disk, tailHash, nextSeq, acked, mine>>
    /\ pending' = Junk /\ verdict' = "none"
    /\ UNCHANGED <<file, state, crashes>>

(* Verify: fsync, replay, and compare the end of the chain with this       *)
(* sink's.  The fsync of a closed file fails.                              *)
Verify ==
    /\ state \in {"up", "closed"} /\ pending = Junk
    /\ \/ verdict' = "ioError" /\ UNCHANGED disk
       \/ /\ state = "up"
          /\ disk' = file
          /\ verdict' = IF /\ ReplayOK(file)
                           /\ ReplaySeq(file) = nextSeq
                           /\ ReplayTail(file) = tailHash
                          THEN "ok" ELSE "broken"
    /\ UNCHANGED <<file, state, nextSeq, tailHash, pending, crashes, acked, mine, damage>>

(* Close is idempotent; a later Append or Verify returns an error.         *)
Close ==
    /\ state = "up" /\ pending = Junk
    /\ state' = "closed" /\ verdict' = "none"
    /\ UNCHANGED <<file, disk, nextSeq, tailHash, pending, crashes, acked, mine, damage>>

-----------------------------------------------------------------------------
(* The environment.  A crash keeps what was durable and any part of the    *)
(* rest, cut anywhere.                                                     *)
Survivors ==
    {disk}
      \cup {SubSeq(file, 1, k) : k \in Len(disk)..Len(file)}
      \cup UNION {Cut(SubSeq(file, 1, k), file[k + 1]) : k \in Len(disk)..(Len(file) - 1)}

NewlineLost(f) == f # <<>> /\ f[Len(f)].rec # Junk /\ ~f[Len(f)].nl

Crash ==
    /\ state \in {"up", "closed"} /\ crashes < MaxCrashes
    /\ file' \in Survivors /\ disk' = file'
    /\ state' = "down" /\ pending' = Junk /\ verdict' = "none"
    /\ crashes' = crashes + 1
    /\ damage' = damage \cup (IF pending = Junk THEN {} ELSE {"crashInAppend"})
                         \cup (IF NewlineLost(file') THEN {"newlineLost"} ELSE {})
    /\ UNCHANGED <<nextSeq, tailHash, acked, mine>>

(* Changes from outside that the package names: a record altered (its hash *)
(* recomputed or not), two records exchanged, the last one deleted, one    *)
(* chained to the end.                                                     *)
Alter ==
    \/ \E i \in DOMAIN file, e \in Clean :
          \/ file' = [file EXCEPT ![i].rec.ev = e]
          \/ file' = [file EXCEPT ![i].rec = MakeRecord(@.seq, e, @.prev)]
    \/ \E i, j \in DOMAIN file : file' = [file EXCEPT ![i] = file[j], ![j] = file[i]]
    \/ file' = SubSeq(file, 1, Len(file) - 1)
    \/ \E e \in Clean :
          file' = Append(file, Line(MakeRecord(Len(file), e, ReplayTail(file)), TRUE))

OutOfBand ==
    /\ pending = Junk /\ damage = {} /\ file # <<>>
    /\ ReplayOK(file) /\ Len(file) < MaxLines
    /\ Alter /\ file' # file /\ disk' = file'
    /\ damage' = {"outOfBand"} /\ verdict' = "none"
    /\ UNCHANGED <<state, nextSeq, tailHash, pending, crashes, acked, mine>>

Next == \/ NewFileSink
        \/ \E e \in Events : AppendWrite(e)
        \/ AppendSync \/ Verify \/ Close \/ Crash \/ OutOfBand

Spec == Init /\ [][Next]_vars

-----------------------------------------------------------------------------
(* Append says it "durably writes" its record: as long as no write or      *)
(* fsync failed and nobody else wrote the file, every record it            *)
(* acknowledged, by this process or an earlier one, is on disk at the      *)
(* position of its Seq, whatever crashes happened in between.  The crash   *)
(* that loses exactly the newline of the last record is the exception:     *)
(* replay accepts that line and the next Append spoils it and itself.      *)
AckedSurvive ==
    damage \subseteq {"unreadable", "crashInAppend"} =>
        \A i \in DOMAIN acked : LET at == acked[i].seq + 1 IN
            at \in DOMAIN disk /\ disk[at] = Line(acked[i], TRUE)

(* Two acknowledged records never share a Seq, over failed writes, failed  *)
(* fsyncs, crashes and reopenings: NewFileSink recovers the next number or *)
(* refuses the file.                                                       *)
SeqNeverReused ==
    "outOfBand" \notin damage =>
        \A i, j \in DOMAIN acked : i < j => acked[i].seq < acked[j].seq

(* Verify returns nil only if the file holds exactly the chain this sink   *)
(* opened and the records it acknowledged since: no alteration, exchange,  *)
(* truncation or extension in between, and no record of a failed Append.   *)
VerifyHonest == verdict = "ok" => Records(file) = mine

(* Neither Verify nor NewFileSink reports a broken chain unless a write or *)
(* fsync failed, an Append was cut off by a crash, an event cannot be read *)
(* back, or the file was changed from outside.                             *)
BrokenOnlyIfDamaged ==
    verdict = "broken" \/ state = "refused" => damage # {}

=============================================================================
