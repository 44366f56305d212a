---------------------------- MODULE PatternScore ----------------------------
(***************************************************************************)
(* The automation-pattern score of analytics/scoring.py and the indicators *)
(* of analytics/patterns.py: two lists of thresholds over the same         *)
(* figures. Points are in hundredths.                                       *)
(***************************************************************************)
EXTENDS Posts

(* ScoringConfig's maximums, and the label of each component *)
max_points ==
  [posting_frequency |-> 2000, regular_intervals |-> 2000, duplicate_content |-> 2000,
   continuous_daily_activity |-> 1500, repeated_links_hashtags |-> 1500,
   reply_repost_concentration |-> 1000]

regularity_min_posts == 5

(* max * clamp01(a / b) *)
Share(max, a, b) == Round(max * Clamp(a, 0, b), b)

(* From 5 to 50 posts a day *)
score_frequency(activity) == Share(2000, activity.posts_per_day - 5000, 45000)

(* From a coefficient of variation of 1 down to 0.15 *)
score_regularity(posts) ==
  LET gaps == GapsOf(TimesOf(posts)) IN
  IF Len(gaps) < regularity_min_posts - 1 THEN 0 ELSE Share(2000, 100 - CV(gaps), 85)

score_duplicate(content) == Share(2000, 2 * content.duplicate_ratio, 1000)

active_hours(activity) == Cardinality({h \in 0..23 : activity.hourly_distribution[h] > 0})

score_continuous(activity) ==
  Round(1500 * (24 * activity.active_day_ratio + 1000 * active_hours(activity)), 48000)

(* The most frequent domain or hashtag, by occurrences per post *)
score_repeated_links(content) ==
  Share(1500, 2 * Max({Top(content.domains), Top(content.hashtags)}), content.post_count)

(* Mutant: the bounds swapped *)
score_reply_repost_high(activity) ==
  LET m == activity.post_count IN
  Share(1000, 10 * activity.composition["repost"] - 7 * m, 5 * m)

(* A share of reposts from 0.2 to 0.7 *)
score_reply_repost(activity) ==
  LET m == activity.post_count IN
  Share(1000, 10 * activity.composition["repost"] - 2 * m, 5 * m)

components(posts, activity, content) ==
  [posting_frequency |-> score_frequency(activity),
   regular_intervals |-> score_regularity(posts),
   duplicate_content |-> score_duplicate(content),
   continuous_daily_activity |-> score_continuous(activity),
   repeated_links_hashtags   |-> score_repeated_links(content),
   reply_repost_concentration |-> score_reply_repost(activity)]

(* The keys of _build_indicators that are present *)
indicators(activity, content) ==
  LET m    == activity.post_count
      when(key, present) == IF present THEN {key} ELSE {}
  IN
  UNION {
    when("high_frequency", activity.posts_per_day >= 20000),
    when("regular_intervals", activity.daily_count_cv # None /\ activity.daily_count_cv < 30),
    when("round_the_clock", active_hours(activity) >= 20),
    when("duplicate_posts", content.duplicate_ratio > 100),
    when("repeated_links", 10 * Top(content.domains) > 3 * m),
    when("repeated_hashtags", 10 * Top(content.hashtags) > 3 * m),
    when("high_repost_ratio", 2 * activity.composition["repost"] > m),
    when("high_reply_ratio", 10 * activity.composition["reply"] > 7 * m),
    when("posting_bursts", activity.burst_count > 0),
    when("long_continuous_window", activity.active_day_ratio >= 900)}

PatternMetrics(posts, activity, content) ==
  LET points == components(posts, activity, content) IN
  [components |-> points,
   automation_pattern_score |-> Round(Clamp(Total(points), 0, 10000), 100),
   signals_triggered |-> {c \in DOMAIN points : 10 * points[c] >= 4 * max_points[c]},
   indicators |-> indicators(activity, content)]
=============================================================================
