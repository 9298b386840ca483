------------------------------ MODULE Limiter ------------------------------
(***************************************************************************)
(* internal/safety/bucket.go and limiter.go: the two-tier request limiter  *)
(* with its streaming byte budget.                                         *)
(*                                                                         *)
(* Tokens are counted in units small enough for a tick of the clock to     *)
(* refill a whole number of them.  A bucket refills lazily, from the time  *)
(* since its last use: due holds what has accrued since then, so refill    *)
(* moves due into tokens, up to the burst.  A per-target bucket is made    *)
(* full on first use, which an untouched full bucket cannot be told from.  *)
(*                                                                         *)
(* The window variables are history: a window opens at an arbitrary moment *)
(* and counts what is admitted, and what the rates allow, from then on.    *)
(***************************************************************************)
EXTENDS Integers

CONSTANTS Targets,     \* target IDs
          Callers,     \* goroutines with a reservation each
          Token,       \* units in one request token
          PtRate, PtBurst,      \* units per tick and most units: per target,
          GlobalRate, GlobalBurst, \* all targets together,
          ByteRate, ByteBurst,  \* and bytes; rate 0 is unlimited
          Sizes,       \* byte counts a caller estimates or observes
          TickLimit    \* bound on the clock

(* NewLimiter: max1 gives a burst of at least one token to a positive      *)
(* rate; the byte burst is one second of the byte rate.                    *)
ASSUME LimiterAssumption ==
    /\ Token \in Nat \ {0}
    /\ PtRate \in Nat /\ GlobalRate \in Nat /\ ByteRate \in Nat
    /\ PtBurst \in Nat /\ (PtRate > 0 => PtBurst >= Token)
    /\ GlobalBurst \in Nat /\ (GlobalRate > 0 => GlobalBurst >= Token)
    /\ ByteBurst \in Nat
    /\ Sizes \subseteq Nat
    /\ TickLimit \in Nat

VARIABLES pt,       \* limiter.perTarget
          global,   \* limiter.global
          bytes,    \* limiter.bytes
          res,      \* each caller's reservation
          ticks,    \* the clock
          window,   \* history: the window is open
          used,     \* history: units admitted per target in the window
          usedAll,  \* history: units admitted to any target in the window
          span,     \* history: ticks since the window opened
          charged   \* history: byte units taken and not given back, ever

limiterVars == <<pt, global, bytes, res, ticks, window, used, usedAll, span, charged>>
history == <<window, used, usedAll, span>>

Bucket == [tokens : Nat, due : Nat]

(* A reservation: none, held, or released with its refund still to come.   *)
NoReservation == [at |-> "none", reserved |-> 0, actual |-> 0, reconciled |-> FALSE]
Reservations == [at : {"none", "held", "refunding"}, reserved : Nat, actual : Nat,
                 reconciled : BOOLEAN]

LimiterTypeOK ==
    /\ pt \in [Targets -> Bucket]
    /\ global \in Bucket
    /\ bytes \in Bucket
    /\ res \in [Callers -> Reservations]
    /\ ticks \in 0..TickLimit
    /\ window \in BOOLEAN
    /\ used \in [Targets -> Nat]
    /\ usedAll \in Nat
    /\ span \in 0..TickLimit
    /\ charged \in Int

-----------------------------------------------------------------------------
newTokenBucket(burst) == [tokens |-> burst, due |-> 0]

Capped(n, burst) == IF n > burst THEN burst ELSE n

(* The two readings of the clock (Now, then Since) are taken as one.       *)
refill(b, burst) == [tokens |-> Capped(b.tokens + b.due, burst), due |-> 0]

(* What tryTake returns: whether n units are there.                        *)
HasTokens(b, rate, burst, n) == rate = 0 \/ refill(b, burst).tokens >= n

(* Mutant: the units are not taken.                                        *)
tryTakeFree(b, rate, burst, n) == IF rate = 0 THEN b ELSE refill(b, burst)

(* The bucket tryTake leaves.  A refusal refills too; an unlimited bucket  *)
(* is not touched.                                                         *)
tryTake(b, rate, burst, n) ==
    IF rate = 0 THEN b
    ELSE LET r == refill(b, burst)
         IN IF r.tokens >= n THEN [tokens |-> r.tokens - n, due |-> 0] ELSE r

(* pt.tokens++ after a later tier refused.                                 *)
giveBack(b, n) == [tokens |-> b.tokens + n, due |-> b.due]

LimiterInit ==
    /\ pt = [t \in Targets |-> newTokenBucket(PtBurst)]
    /\ global = newTokenBucket(GlobalBurst)
    /\ bytes = newTokenBucket(ByteBurst)
    /\ res = [c \in Callers |-> NoReservation]
    /\ ticks = 0
    /\ window = FALSE
    /\ used = [t \in Targets |-> 0]
    /\ usedAll = 0
    /\ span = 0
    /\ charged = 0

-----------------------------------------------------------------------------
PtHas(t) == HasTokens(pt[t], PtRate, PtBurst, Token)
GlobalHas == HasTokens(global, GlobalRate, GlobalBurst, Token)
BytesHave(n) == n = 0 \/ HasTokens(bytes, ByteRate, ByteBurst, n)

takePt(t) == tryTake(pt[t], PtRate, PtBurst, Token)
takeGlobal == tryTake(global, GlobalRate, GlobalBurst, Token)
takeBytes(n) == IF n = 0 THEN bytes ELSE tryTake(bytes, ByteRate, ByteBurst, n)

(* What Acquire reserves of the byte budget: nothing when there is none.   *)
Reserve(n) == IF ByteRate = 0 THEN 0 ELSE n

(* Acquire, under l.mu, admitted by all tiers.                             *)
AcquireAdmits(c, t, n) ==
    /\ res[c].at = "none"
    /\ PtHas(t) /\ GlobalHas /\ BytesHave(Reserve(n))
    /\ pt' = [pt EXCEPT ![t] = takePt(t)]
    /\ global' = takeGlobal
    /\ bytes' = takeBytes(Reserve(n))
    /\ res' = [res EXCEPT ![c] = [at |-> "held", reserved |-> Reserve(n), actual |-> 0,
                                  reconciled |-> FALSE]]
    /\ used' = IF window THEN [used EXCEPT ![t] = @ + Token] ELSE used
    /\ usedAll' = IF window THEN usedAll + Token ELSE usedAll
    /\ charged' = charged + Reserve(n)
    /\ UNCHANGED <<ticks, window, span>>

(* Acquire refused by one of the tiers: what the earlier ones took goes    *)
(* back, the refusal is a ClassSafety error.                               *)
AcquirePtRefuses(c, t) ==
    /\ res[c].at = "none"
    /\ ~PtHas(t)
    /\ pt' = [pt EXCEPT ![t] = takePt(t)]
    /\ UNCHANGED <<global, bytes, res, ticks, history, charged>>

AcquireGlobalRefuses(c, t) ==
    /\ res[c].at = "none"
    /\ PtHas(t) /\ ~GlobalHas
    /\ pt' = [pt EXCEPT ![t] = giveBack(takePt(t), Token)]
    /\ global' = takeGlobal
    /\ UNCHANGED <<bytes, res, ticks, history, charged>>

AcquireBytesRefuse(c, t, n) ==
    /\ res[c].at = "none"
    /\ PtHas(t) /\ GlobalHas /\ ~BytesHave(Reserve(n))
    /\ pt' = [pt EXCEPT ![t] = giveBack(takePt(t), Token)]
    /\ global' = giveBack(takeGlobal, Token)
    /\ bytes' = takeBytes(Reserve(n))
    /\ UNCHANGED <<res, ticks, history, charged>>

Reconcile(c, n) ==
    /\ res[c].at = "held"
    /\ res' = [res EXCEPT ![c] = [at |-> "held", reserved |-> @.reserved, actual |-> n,
                                  reconciled |-> TRUE]]
    /\ UNCHANGED <<pt, global, bytes, ticks, history, charged>>

(* Release marks the reservation released, under its own mutex ...         *)
Release(c) ==
    /\ res[c].at = "held"
    /\ res' = [res EXCEPT ![c].at = "refunding"]
    /\ UNCHANGED <<pt, global, bytes, ticks, history, charged>>

(* Mutant: only an answer smaller than the estimate is looked at.          *)
RefundWhole(r) == IF r.reconciled /\ r.actual < r.reserved THEN r.reserved - r.actual ELSE r.reserved

(* What is left of the reservation: all of it when nothing was reconciled. *)
Refund(r) == IF ~r.reconciled THEN r.reserved
             ELSE IF r.actual < r.reserved THEN r.reserved - r.actual ELSE 0

(* History: the part of a reservation that was not used.                   *)
Unspent(r) == r.reserved - Capped(r.actual, r.reserved)

(* ... and then credits the byte bucket, under l.mu: returnBytes.          *)
returnBytes(c) ==
    /\ res[c].at = "refunding"
    /\ bytes' = IF ByteRate = 0 THEN bytes
                ELSE [tokens |-> Capped(bytes.tokens + Refund(res[c]), ByteBurst),
                      due |-> bytes.due]
    /\ charged' = charged - Unspent(res[c])
    /\ res' = [res EXCEPT ![c] = NoReservation]
    /\ UNCHANGED <<pt, global, ticks, history>>

Accrue(b, rate) == [tokens |-> b.tokens, due |-> b.due + rate]

(* The injected clock advances.                                            *)
LimiterTick ==
    /\ ticks < TickLimit
    /\ ticks' = ticks + 1
    /\ pt' = [t \in Targets |-> Accrue(pt[t], PtRate)]
    /\ global' = Accrue(global, GlobalRate)
    /\ bytes' = Accrue(bytes, ByteRate)
    /\ span' = IF window THEN span + 1 ELSE span
    /\ UNCHANGED <<res, window, used, usedAll, charged>>

(* History: the window opens, once, at any moment.                         *)
OpenWindow == /\ ~window
              /\ window' = TRUE
              /\ UNCHANGED <<pt, global, bytes, res, ticks, used, usedAll, span, charged>>

LimiterNext ==
    \/ \E c \in Callers :
          \/ \E t \in Targets : \/ AcquirePtRefuses(c, t) \/ AcquireGlobalRefuses(c, t)
                                \/ \E n \in Sizes : \/ AcquireAdmits(c, t, n)
                                                    \/ AcquireBytesRefuse(c, t, n)
          \/ \E n \in Sizes : Reconcile(c, n)
          \/ Release(c)
          \/ returnBytes(c)
    \/ LimiterTick
    \/ OpenWindow

LimiterSpec == LimiterInit /\ [][LimiterNext]_limiterVars

-----------------------------------------------------------------------------
(* In any window of time, however it lies to the refills, at most the      *)
(* burst plus the rate times its length is admitted to one target, and to  *)
(* all of them together, through any mix of refusals by the other tiers.   *)
WindowBound == /\ PtRate > 0 => \A t \in Targets : used[t] <= PtBurst + span * PtRate
               /\ GlobalRate > 0 => usedAll <= GlobalBurst + span * GlobalRate

(* The byte budget is never overdrawn: what is reserved, or was used and   *)
(* not refunded, is within the burst plus the rate times the run's age,    *)
(* however late a refund comes and whatever other callers refill and take  *)
(* between Release and its credit.                                         *)
ByteBound == ByteRate > 0 => charged <= ByteBurst + ticks * ByteRate
=============================================================================
