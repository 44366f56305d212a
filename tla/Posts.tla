------------------------------- MODULE Posts -------------------------------
(***************************************************************************)
(* What the engines of analytics/ share: posts as every provider returns   *)
(* them (ProviderPost), the report's time zone, and figures as fractions   *)
(* of integers. A time is a number of ticks; a day is 24 hours of UTC.     *)
(***************************************************************************)
EXTENDS Integers, Sequences, FiniteSets, FiniteSetsExt, SequencesExt

CONSTANTS
  Hour,        \* ticks in an hour
  Zones,       \* UTC offset of a zone: [switch, before, after]
  None

(* Clocks are never moved by more than a day (Samoa moved its by one)       *)
ASSUME PostsAssumption ==
  /\ Hour \in Nat \ {0}
  /\ "UTC" \in DOMAIN Zones
  /\ \A z \in DOMAIN Zones :
       /\ Zones[z] \in [switch : Int, before : Int, after : Int]
       /\ Zones[z].after - Zones[z].before \in -24 * Hour .. 24 * Hour

Day == 24 * Hour

PostTypes  == {"original", "reply", "repost", "quote"}
MediaTypes == {"none", "image", "video", "gif", "poll", "link"}
Counts     == {"likes", "replies", "reposts", "quotes"}

(* An unknown name is UTC *)
resolve_tz(tz_name) == Zones[IF tz_name \in DOMAIN Zones THEN tz_name ELSE "UTC"]

astimezone(at, tz_name) ==
  LET tz == resolve_tz(tz_name) IN at + (IF at < tz.switch THEN tz.before ELSE tz.after)

HourOf(lt)    == (lt \div Hour) % 24
WeekdayOf(lt) == (lt \div Day) % 7
DateOf(lt)    == lt \div Day

-----------------------------------------------------------------------------
(* What is said of posts is said of any finite family, a function: the part *)
(* of a sequence that a filter leaves is one, under its old numbers.        *)
Size(f) == Cardinality(DOMAIN f)

CountWhere(f, P(_)) == Cardinality({k \in DOMAIN f : P(f[k])})

Total(c)            == MapThenSumSet(LAMBDA x : c[x], DOMAIN c)
SumOf(f, value(_))  == Total([k \in DOMAIN f |-> value(f[k])])

(* collections.Counter *)
Counter(f) == [x \in Range(f) |-> CountWhere(f, LAMBDA y : y = x)]
Top(c)     == Max({0} \cup Range(c))

(* sorted: fewer than k are below the k-th, and at least k not above it *)
Sorted(f) ==
  [k \in 1..Size(f) |->
     CHOOSE x \in Range(f) : /\ CountWhere(f, LAMBDA y : y < x) < k
                            /\ CountWhere(f, LAMBDA y : y <= x) >= k]

(* Mutant: in the order of arrival *)
TimesOf_arrival(posts) == [k \in DOMAIN posts |-> posts[k].created_at]

(* sorted(p.created_at for p in posts) *)
TimesOf(posts) == Sorted([k \in DOMAIN posts |-> posts[k].created_at])

GapsOf(times) == [k \in 1..(Len(times) - 1) |-> times[k + 1] - times[k]]

(* round(a / b): a tie goes to the even neighbour *)
Round(a, b) ==
  LET q == a \div b
      r == a % b
  IN  IF 2 * r > b \/ (2 * r = b /\ q % 2 = 1) THEN q + 1 ELSE q

Clamp(x, low, high) == Max({low, Min({x, high})})

(* Twice the median, which is a mean of two when their number is even *)
Median2(f) ==
  LET sorted == Sorted(f)
      m      == Size(f)
  IN  sorted[(m + 1) \div 2] + sorted[(m + 2) \div 2]

(* pstdev / mean of the numbers in f, in hundredths; 0 for a mean of 0      *)
CV(f) ==
  LET m   == Size(f)
      sum == Total(f)
      v   == m * SumOf(f, LAMBDA x : x * x) - sum * sum
      sq  == (((100 * v) \div sum) * 100) \div sum
  IN  IF sum <= 0 THEN 0 ELSE CHOOSE r \in 0..(sq + 1) : r * r <= sq /\ sq < (r + 1) * (r + 1)
=============================================================================
