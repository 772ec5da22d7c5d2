----------------------------- MODULE LadderQueue -----------------------------
(***************************************************************************)
(* The ladder queue (LadderQueue.cpp), the alternative to std::multiset as *)
(* schedule queue: far events lie unsorted in `top', nearer ones in the    *)
(* buckets of rungs, each rung dividing one bucket of the rung above, and  *)
(* the nearest ones sorted in `bottom'.                                    *)
(*                                                                         *)
(* insert, erase and begin are functions of the queue's state; a failed    *)
(* assertion leaves `failed' set.  Rungs are numbered from 1, buckets      *)
(* from 0.  The order inside a bucket is irrelevant, so it is a set.       *)
(* Events are records [lp, ts].                                            *)
(***************************************************************************)
EXTENDS Integers, FiniteSets, FiniteSetsExt

CONSTANTS MAX_RUNG_CNT, THRESHOLD

MAX_BUCKET_CNT   == THRESHOLD
MIN_BUCKET_WIDTH == 1
Rung == 1 .. MAX_RUNG_CNT

(* compareEvents; the LP stands for all that decides between equal times.  *)
Precedes(a, b) == a.ts < b.ts \/ (a.ts = b.ts /\ a.lp < b.lp)
Least(S)       == CHOOSE e \in S : \A f \in S \ {e} : Precedes(e, f)
NoEvent        == [lp |-> 0, ts |-> 0]
CeilDiv(a, b)  == (a + b - 1) \div b
Larger(a, b)   == IF a > b THEN a ELSE b
Smaller(a, b)  == IF a < b THEN a ELSE b

Empty == [top |-> {}, max_ts |-> 0, min_ts |-> 0, top_start |-> 0,
          rung |-> [r \in Rung |-> IF r = 1 THEN [b \in {} |-> {}]
                                   ELSE [b \in 0 .. MAX_BUCKET_CNT - 1 |-> {}]],
          n_rung |-> 0,
          width |-> [r \in Rung |-> 0],     \* bucket_width_
          last |-> [r \in Rung |-> 0],      \* last_nonempty_bucket_
          start |-> [r \in Rung |-> 0],     \* r_start_
          current |-> [r \in Rung |-> 0],   \* r_current_
          bottom |-> {}, failed |-> FALSE]

Fail(q)          == [q EXCEPT !.failed = TRUE]
RUNG_BUCKET_CNT(q, r) == Cardinality(DOMAIN q.rung[r])

(* The unsigned difference wraps if ts is before the rung.                 *)
BucketOf(q, r, ts) ==
    IF ts < q.start[r] THEN RUNG_BUCKET_CNT(q, r) - 1
    ELSE Smaller((ts - q.start[r]) \div q.width[r], RUNG_BUCKET_CNT(q, r) - 1)

(* Distribute events over the buckets of a rung.                           *)
Put(q, r, events) ==
    LET used == {BucketOf(q, r, e.ts) + 1 : e \in events}
    IN  [q EXCEPT !.rung[r] = [b \in DOMAIN @ |->
                                  @[b] \cup {e \in events : BucketOf(q, r, e.ts) = b}],
                  !.last[r] = Max(used \cup {@})]

DropRung(q) ==
    LET r == q.n_rung
    IN  [q EXCEPT !.last[r] = 0, !.start[r] = 0, !.current[r] = 0,
                  !.width[r] = 0, !.n_rung = @ - 1]

RECURSIVE DropEmptyRungs(_)
DropEmptyRungs(q) == IF q.n_rung = 0 \/ q.last[q.n_rung] > 0 THEN q
                     ELSE DropEmptyRungs(DropRung(q))

(* The vector of the first rung's buckets only grows.                      *)
GrowFirstRung(q, buckets) ==
    [q EXCEPT !.rung[1] = [b \in 0 .. Larger(RUNG_BUCKET_CNT(q, 1), buckets) - 1 |->
                              IF b \in DOMAIN @ THEN @[b] ELSE {}]]

(* createNewRung, for the events of top ...                                *)
createFirstRung(q, num_events) ==
    [GrowFirstRung(q, 2 * num_events) EXCEPT
        !.width[1] = IF q.min_ts = q.max_ts THEN MIN_BUCKET_WIDTH
                     ELSE CeilDiv(q.max_ts - q.min_ts, num_events),
        !.top_start = q.max_ts, !.start[1] = q.min_ts, !.current[1] = q.min_ts,
        !.last[1] = 0, !.n_rung = 1]

(* ... and for those of an overfull bucket of the last rung.               *)
createNewRung(q, num_events, start) ==
    LET r == q.n_rung + 1
    IN  [q EXCEPT !.n_rung = r, !.width[r] = CeilDiv(q.width[r - 1], num_events),
                  !.start[r] = start, !.current[r] = start, !.last[r] = 0]

createRungForBottomTransfer(q, start) ==
    LET r == q.n_rung + 1
        n == Cardinality(q.bottom)
        g == [(IF r = 1 THEN GrowFirstRung(q, 2 * n) ELSE q) EXCEPT
                 !.n_rung = r, !.start[r] = start, !.current[r] = start, !.last[r] = 0]
        above == IF r = 1 THEN q.top_start ELSE q.current[r - 1]
    IN  IF above < start THEN Fail(g)
        ELSE [g EXCEPT !.width[r] = Larger((above - start) \div
                           (IF r = 1 THEN n ELSE THRESHOLD), MIN_BUCKET_WIDTH)]

NonEmpty(q, r) == {b \in DOMAIN q.rung[r] : q.rung[r][b] # {}}

(* recurseRung: make the first bucket of the last rung small enough to be  *)
(* sorted.  The bucket, or -1, is in `index'.                              *)
RECURSIVE recurseRung(_)
recurseRung(q) ==
    LET r == q.n_rung
    IN  IF r = 0 THEN [q |-> q, index |-> -1]
        ELSE IF NonEmpty(q, r) = {} THEN recurseRung(DropRung(q))
        ELSE LET b == Min(NonEmpty(q, r))
                 n == Cardinality(q.rung[r][b])
                 c == [q EXCEPT !.current[r] = q.start[r] + b * q.width[r]]
                 later == NonEmpty(q, r) \ {b}
                 old == [c EXCEPT !.rung[r][b] = {},
                           !.current[r] = IF later = {} THEN c.start[r]
                                          ELSE c.start[r] + Min(later) * c.width[r],
                           !.last[r] = IF later = {} THEN 0 ELSE Max(later) + 1]
             IN  IF n <= THRESHOLD \/ c.width[r] <= MIN_BUCKET_WIDTH
                 THEN [q |-> c, index |-> b]
                 ELSE IF r = MAX_RUNG_CNT THEN [q |-> Fail(c), index |-> -1]
                 ELSE recurseRung(Put(createNewRung(old, n, c.current[r]), r + 1,
                                      q.rung[r][b]))

(* begin() sorts bucket b of the last rung into bottom.                    *)
BucketToBottom(q, b) ==
    [q EXCEPT !.bottom = q.rung[q.n_rung][b], !.rung[q.n_rung][b] = {}]

AdvanceTo(q, b) == [q EXCEPT !.current[q.n_rung] = q.start[q.n_rung] + b * q.width[q.n_rung]]
Rest(q, b)      == {c \in NonEmpty(q, q.n_rung) : b < c /\ c < q.last[q.n_rung]}

FromRungs(q, b) ==
    LET s == BucketToBottom(q, b)
    IN  IF q.last[q.n_rung] = b + 1 THEN DropEmptyRungs(DropRung(s))
        ELSE IF Rest(q, b) = {} THEN Fail(s) ELSE AdvanceTo(s, Min(Rest(q, b)))

FromTop(q) ==
    LET first == createFirstRung(q, Cardinality(q.top))
        found == recurseRung(Put([first EXCEPT !.top = {}], 1, q.top))
        s     == BucketToBottom(found.q, found.index)
        r     == s.n_rung
    IN  IF \E e \in q.top : e.ts < q.min_ts THEN Fail(q)
        ELSE IF found.index = -1 THEN Fail(found.q)
        ELSE IF s.last[r] = found.index + 1 \/ Rest(s, found.index) = {} THEN DropRung(s)
        ELSE AdvanceTo(s, Min(Rest(s, found.index)))

(* The queue after begin(); what begin() returns is the least of bottom.   *)
begin(q) ==
    IF q.bottom # {} THEN q
    ELSE LET found == recurseRung(q)
         IN  IF found.index = -1 /\ found.q.n_rung > 0 THEN Fail(found.q)
             ELSE IF found.q.n_rung > 0 THEN FromRungs(found.q, found.index)
             ELSE IF q.top = {} THEN found.q
             ELSE FromTop(found.q)

InRung(q, ts) == {r \in 1 .. q.n_rung : ts >= q.current[r]}

insertTop(q, e) ==
    [q EXCEPT !.top = @ \cup {e},
              !.min_ts = IF q.top = {} THEN e.ts ELSE Smaller(@, e.ts),
              !.max_ts = IF q.top = {} THEN e.ts ELSE Larger(@, e.ts)]

insertRung(q, r, e) ==
    LET at == q.start[r] + BucketOf(q, r, e.ts) * q.width[r]
    IN  IF e.ts < q.start[r] THEN Fail(q)
        ELSE [Put(q, r, {e}) EXCEPT !.current[r] = Smaller(@, at)]

insert(q, e) ==
    IF e.ts > q.top_start THEN insertTop(q, e)
    ELSE IF InRung(q, e.ts) # {} THEN insertRung(q, Min(InRung(q, e.ts)), e)
    ELSE IF Cardinality(q.bottom) >= THRESHOLD /\ q.n_rung < MAX_RUNG_CNT
    THEN LET new == createRungForBottomTransfer(
                        q, Smaller(Least(q.bottom).ts, e.ts))
         IN  IF new.failed THEN new
             ELSE insertRung([Put(new, new.n_rung, q.bottom) EXCEPT !.bottom = {}],
                             new.n_rung, e)
    ELSE [q EXCEPT !.bottom = @ \cup {e}]

(* erase returns the queue and whether it reports success.                 *)
eraseRung(q, r, e) ==
    LET b    == BucketOf(q, r, e.ts)
        s    == [q EXCEPT !.rung[r][b] = @ \ {e}]
        left == {c \in NonEmpty(s, r) : c < b}
    IN  IF e \notin q.rung[r][b] THEN [q |-> Fail(q), status |-> FALSE]
        ELSE [q |-> IF s.rung[r][b] # {} \/ q.last[r] # b + 1 THEN s
                    ELSE IF left # {} THEN [s EXCEPT !.last[r] = Max(left) + 1]
                    ELSE [s EXCEPT !.last[r] = 0, !.current[r] = s.start[r]],
              status |-> TRUE]

erase(q, e) ==
    IF e.ts > q.top_start
    THEN [q |-> IF q.top = {} THEN Fail(q) ELSE [q EXCEPT !.top = @ \ {e}],
          status |-> e \in q.top]
    ELSE IF InRung(q, e.ts) # {} THEN eraseRung(q, Min(InRung(q, e.ts)), e)
    ELSE [q |-> IF q.bottom = {} THEN Fail(q) ELSE [q EXCEPT !.bottom = @ \ {e}],
          status |-> TRUE]

Contents(q) == q.top \cup q.bottom \cup
    UNION {UNION {q.rung[r][b] : b \in DOMAIN q.rung[r]} : r \in Rung}
=============================================================================
