---------------------- MODULE AnalyticsPipeline_proofs ----------------------
(***************************************************************************)
(* PipelineInv is inductive, for all batches, and every property of the    *)
(* figures follows from it and from what the engines promise.               *)
(***************************************************************************)
EXTENDS AnalyticsPipeline, BurstDetector_proofs, Engines_proofs

(* What a batch supplies is posts *)
LEMMA SuppliedOK == ASSUME NEW b \in Batches PROVE PostsOK(supplied(b).posts)
<1>1. IsSeq(b.rows) BY BatchAssumption DEF BatchAssumption
<1>2. CASE b.source = "import" /\ \A k \in DOMAIN b.rows : IsFileRow(b.rows[k])
  <2>1. supplied(b) = parse_imported_posts(b.rows) BY <1>2 DEF supplied
  <2> QED BY <1>1, <1>2, <2>1, ImportOK
<1>3. CASE b.source = "x_api" /\ \A k \in DOMAIN b.rows : IsTweet(b.rows[k])
  <2>1. supplied(b) = map_tweets(b.rows) BY <1>3 DEF supplied
  <2> QED BY <1>1, <1>3, <2>1, TweetsOK
<1>4. CASE /\ b.source = "mock" /\ b.post_limit \in Nat
            /\ \A k \in DOMAIN b.rows : IF b.botlike THEN IsBotDraw(b.rows[k]) ELSE IsDraw(b.rows[k])
  <2>1. supplied(b) = mock_posts(b.username, b.botlike, b.post_limit, b.rows) BY <1>4 DEF supplied
  <2>2. \A k \in DOMAIN b.rows : IsDraw(b.rows[k]) BY <1>4 DEF IsBotDraw
  <2> QED BY <1>1, <1>4, <2>1, <2>2, MockOK
<1> QED BY <1>2, <1>3, <1>4, BatchAssumption DEF BatchAssumption

(* The batch of a run is one of them *)
BatchInv == batch \in Batches /\ PipelineInv

(* The posts of a run *)
LEMMA RunPosts ==
  ASSUME BatchInv
  PROVE  PostsOK(posts) /\ Len(posts) \in Nat /\ DOMAIN posts = 1..Len(posts)
         /\ IsFiniteSet(DOMAIN posts) /\ Size(posts) = Len(posts)
<1>1. PostsOK(posts) BY SuppliedOK DEF BatchInv, PipelineInv
<1> QED BY <1>1, SeqDomain DEF PostsOK

(* Their times, in order *)
LEMMA TimesAscend ==
  ASSUME NEW ps, PostsOK(ps)
  PROVE  /\ TimesOf(ps) \in Seq(Int) /\ Ascending(TimesOf(ps)) /\ Len(TimesOf(ps)) = Len(ps)
<1> DEFINE f == [k \in DOMAIN ps |-> ps[k].created_at]
<1>1. IsFiniteSet(DOMAIN ps) /\ Size(ps) = Len(ps) BY SeqDomain DEF PostsOK
<1>2. Numbers(f) /\ Size(f) = Size(ps) BY <1>1 DEF Numbers, PostsOK, PostOK, Size
<1>3. TimesOf(ps) = Sorted(f) BY DEF TimesOf
<1> HIDE DEF f
<1> QED BY <1>1, <1>2, <1>3, SortedAscends DEF Ascending

(* Nothing is computed yet *)
LEMMA PipelineInvInit == PipelineInit => BatchInv
<1> SUFFICES ASSUME PipelineInit PROVE BatchInv
  OBVIOUS
<1> USE DEF PipelineInit
<1>1. PostsOK(posts) BY SuppliedOK
<1>2. utc_times \in Seq(Int) /\ Ascending(utc_times) BY <1>1, TimesAscend
<1>3. BurstInv BY <1>2, NothingSearched
<1> QED BY <1>3 DEF BatchInv, PipelineInv

(* Each engine in its turn *)
LEMMA PipelineInvStep == BatchInv /\ [PipelineNext]_<<vars, run>> => BatchInv'
<1> SUFFICES ASSUME BatchInv, [PipelineNext]_<<vars, run>> PROVE BatchInv'
  OBVIOUS
<1>1. UNCHANGED vars => UNCHANGED <<n, BurstInv>>
  BY DEF vars, BurstInv, BurstTypeOK, Ascending, BurstsSeparate, NoneMissed, Within, n, In
<1> USE DEF BatchInv, PipelineInv
<1>2. CASE DetectBursts
  <2>1. BurstInv' BY <1>2, BurstInvStep DEF DetectBursts
  <2>2. utc_times' = utc_times BY <1>2 DEF DetectBursts, Next, Extend, Burst, NoBurst
  <2> QED BY <1>2, <2>1, <2>2 DEF DetectBursts, run, figures
<1>3. CASE Activity BY <1>1, <1>3 DEF Activity, vars
<1>4. CASE Content BY <1>1, <1>4 DEF Content, vars
<1>5. CASE Sentiment BY <1>1, <1>5 DEF Sentiment, vars
<1>6. CASE Engagement BY <1>1, <1>6 DEF Engagement, vars
<1>7. CASE Patterns BY <1>1, <1>7 DEF Patterns, vars
<1>8. CASE UNCHANGED <<vars, run>> BY <1>1, <1>8 DEF vars, run, figures
<1> QED BY <1>2, <1>3, <1>4, <1>5, <1>6, <1>7, <1>8 DEF PipelineNext

(* ... at every moment of a run *)
LEMMA BatchInvariance == PipelineSpec => []BatchInv
BY PipelineInvInit, PipelineInvStep, PTL DEF PipelineSpec

(* The figures of a run are always what the engines say of its posts *)
THEOREM PipelineInvariance == PipelineSpec => []PipelineInv
<1>1. BatchInv => PipelineInv BY DEF BatchInv
<1> QED BY <1>1, BatchInvariance, PTL

(* Two bursts that are reported never overlap and are in order, however the *)
(* posts of a run lie in time                                               *)
THEOREM PipelineBurstsSeparate == PipelineSpec => []BurstsSeparate
<1>1. BatchInv => BurstsSeparate BY DEF BatchInv, PipelineInv, BurstInv
<1> QED BY <1>1, BatchInvariance, PTL

(* ... and no hour with enough posts goes unreported                        *)
THEOREM PipelineNoneMissed == PipelineSpec => []NoneMissed
<1>1. BatchInv => NoneMissed BY DEF BatchInv, PipelineInv, BurstInv
<1> QED BY <1>1, BatchInvariance, PTL

(* The figures of a run that is analysed *)
LEMMA RunFigures ==
  ASSUME BatchInv, Analysed
  PROVE  /\ PostsOK(posts) /\ Len(posts) \in Nat \ {0} /\ Size(posts) = Len(posts)
         /\ IsFiniteSet(DOMAIN posts) /\ DOMAIN posts = 1..Len(posts)
         /\ utc_times = TimesOf(posts)
         /\ activity = ActivityMetrics(posts, batch.timezone, Len(bursts))
         /\ content = ContentMetrics(posts)
         /\ sentiment = SentimentMetrics(posts)
         /\ engagement = EngagementMetrics(posts, batch.followers_count, batch.timezone)
         /\ patterns = PatternMetrics(posts, activity, content)
<1>1. PostsOK(posts) /\ Len(posts) \in Nat /\ DOMAIN posts = 1..Len(posts)
      /\ IsFiniteSet(DOMAIN posts) /\ Size(posts) = Len(posts)
  BY RunPosts
<1>2. posts # <<>> BY DEF BatchInv, PipelineInv, Analysed
<1>3. Len(posts) # 0
  <2>1. IsSeq(posts) BY <1>1 DEF PostsOK
  <2> QED BY <1>1, <1>2, <2>1 DEF IsSeq
<1> QED BY <1>1, <1>3 DEF BatchInv, PipelineInv, Analysed

(* They are what a score is made of *)
LEMMA RunScored ==
  ASSUME BatchInv, Analysed
  PROVE  ScoredActivity(activity) /\ ScoredContent(content, activity.post_count)
<1>1. PostsOK(posts) /\ Len(posts) > 0 BY RunFigures
<1>2. activity = ActivityMetrics(posts, batch.timezone, Len(bursts)) /\ content = ContentMetrics(posts)
  BY RunFigures
<1> DEFINE tz == batch.timezone
           found == Len(bursts)
<1> HIDE DEF tz, found
<1>3. activity = ActivityMetrics(posts, tz, found) BY <1>2 DEF tz, found
<1> QED BY <1>1, <1>2, <1>3, FiguresScored

(* The sentiment figures are those of the English posts alone, for every    *)
(* batch: a post in another language, or in one nobody can tell, leaves no  *)
(* trace in them                                                            *)
THEOREM SentimentIgnoresForeignPosts == PipelineSpec => []ForeignPostsIgnored
<1>1. ASSUME BatchInv PROVE ForeignPostsIgnored
  <2> SUFFICES ASSUME Analysed PROVE ForeignPostsIgnored
    BY DEF ForeignPostsIgnored
  <2> DEFINE English(p) == "en" \in {p.lang} \/ (p.lang = None /\ DetectedLang[p.text] = "en")
             alone == RestrictValues(posts, English)
             of == SentimentMetrics(alone)
  <2>1. sentiment = SentimentMetrics(posts) BY <1>1 DEF BatchInv, PipelineInv, Analysed
  <2>2. Analyzed(alone) = Analyzed(posts) BY EnglishAlone
  <2> HIDE DEF alone
  <2>3. /\ sentiment.counts = of.counts /\ sentiment.trend = of.trend
        /\ sentiment.average = of.average /\ sentiment.by_hashtag = of.by_hashtag
        /\ of.analyzed_count = Size(Analyzed(posts))
    BY <2>1, <2>2, SentimentFields
  <2>4. sentiment.reason = "unsupported_language" => of.analyzed_count = 0
    BY <1>1, <2>1, <2>3, RunPosts, UnsupportedMeansNone
  <2> HIDE DEF of
  <2> QED BY <2>3, <2>4 DEF ForeignPostsIgnored, of, alone
<1> QED BY <1>1, BatchInvariance, PTL

(* The score of a run is the sum of its components to within the rounding   *)
(* to a whole number: no component exceeds its maximum, and the clamp to    *)
(* 100 never acts                                                           *)
THEOREM ScoreIsTheSum == PipelineSpec => []ScoreIsSum
<1>1. ASSUME BatchInv PROVE ScoreIsSum
  <2> SUFFICES ASSUME Analysed PROVE ScoreIsSum
    BY DEF ScoreIsSum
  <2>1. PostsOK(posts) /\ patterns = PatternMetrics(posts, activity, content) BY <1>1, RunFigures
  <2>2. ScoredActivity(activity) /\ ScoredContent(content, activity.post_count) BY <1>1, RunScored
  <2>3. LET of == PatternMetrics(posts, activity, content) IN
        /\ DOMAIN of.components = DOMAIN max_points
        /\ \A c \in DOMAIN max_points : of.components[c] \in 0..max_points[c]
        /\ 2 * (100 * of.automation_pattern_score - Total(of.components)) \in -100..100
    BY <2>1, <2>2, ScoreOfComponents
  <2>4. /\ \A c \in DOMAIN max_points : patterns.components[c] \in 0..max_points[c]
        /\ 2 * (100 * patterns.automation_pattern_score - Total(patterns.components)) \in -100..100
    BY <2>1, <2>3, Zenon
  <2> QED BY <2>4 DEF ScoreIsSum
<1> QED BY <1>1, BatchInvariance, PTL

(* The two lists of thresholds contradict each other in their bands and      *)
(* nowhere else, whatever the posts                                          *)
THEOREM ContradictionsInBands == PipelineSpec => []ContradictionsConfined
<1>1. ASSUME BatchInv PROVE ContradictionsConfined
  <2> SUFFICES ASSUME Analysed PROVE ContradictionsConfined
    BY DEF ContradictionsConfined, Part
  <2> DEFINE Present(key) == key \in patterns.indicators
             Signal(key)  == key \in patterns.signals_triggered
             m       == activity.post_count
             reposts == activity.composition["repost"]
             most    == Max({Top(content.domains), Top(content.hashtags)})
             ratio   == activity.active_day_ratio
             hours   == active_hours(activity)
             daily   == activity.posts_per_day
             copies  == content.duplicate_ratio
  <2>1. patterns = PatternMetrics(posts, activity, content) BY <1>1, RunFigures
  <2>2. ScoredActivity(activity) /\ ScoredContent(content, m) BY <1>1, RunScored
  <2>3. /\ m \in Nat \ {0} /\ daily \in Int /\ ratio \in 0..1000 /\ reposts \in Nat /\ copies \in Int
    BY <2>2 DEF ScoredActivity, ScoredContent
  <2>4. hours \in 0..24 BY ActiveHoursWithin
  <2>5. /\ patterns.indicators = indicators(activity, content)
        /\ Signal("posting_frequency") <=> 10 * score_frequency(activity) >= 4 * 2000
        /\ Signal("duplicate_content") <=> 10 * score_duplicate(content) >= 4 * 2000
        /\ Signal("continuous_daily_activity") <=> 10 * score_continuous(activity) >= 4 * 1500
        /\ Signal("repeated_links_hashtags") <=> 10 * score_repeated_links(content) >= 4 * 1500
        /\ Signal("reply_repost_concentration") <=> 10 * score_reply_repost(activity) >= 4 * 1000
    BY <2>1, SignalsMean
  <2>6. /\ Present("high_frequency") <=> daily >= 20000
        /\ Present("duplicate_posts") <=> copies > 100
        /\ Present("high_repost_ratio") <=> 2 * reposts > m
        /\ Present("repeated_links") <=> 10 * Top(content.domains) > 3 * m
        /\ Present("repeated_hashtags") <=> 10 * Top(content.hashtags) > 3 * m
        /\ Present("long_continuous_window") <=> ratio >= 900
        /\ Present("round_the_clock") <=> hours >= 20
    BY <2>5, IndicatorsMean
  <2>7. Signal("posting_frequency") <=> daily >= 22989 BY <2>2, <2>5, FrequencySignal
  <2>8. Signal("duplicate_content") <=> copies >= 200 BY <2>3, <2>5, DuplicatesSignal
  <2>9. Signal("reply_repost_concentration") <=> 4000 * reposts >= 1599 * m
    BY <2>2, <2>5, RepostsSignal
  <2>10. /\ most \in Nat
         /\ Present("repeated_links") \/ Present("repeated_hashtags") <=> 10 * most > 3 * m
         /\ Signal("repeated_links_hashtags") <=> 6000 * most >= 1199 * m
    BY <2>2, <2>3, <2>5, <2>6, LinksSignal
  <2>11. Signal("continuous_daily_activity") <=> 24 * ratio + 1000 * hours >= 19184
    BY <2>2, <2>5, WindowsSignal
  <2> HIDE DEF m, reposts, most, ratio, hours, daily, copies
  <2>12. Part(Present("high_frequency"), Signal("posting_frequency"), daily \in 20000..22988)
    BY <2>3, <2>6, <2>7 DEF Part
  <2>13. Part(Present("duplicate_posts"), Signal("duplicate_content"), copies \in 101..199)
    BY <2>3, <2>6, <2>8 DEF Part
  <2>14. Part(Signal("repeated_links_hashtags"),
              Present("repeated_links") \/ Present("repeated_hashtags"),
              6000 * most >= 1199 * m /\ 10 * most <= 3 * m)
    BY <2>3, <2>10 DEF Part
  <2>15. Part(Signal("reply_repost_concentration"), Present("high_repost_ratio"),
              4000 * reposts >= 1599 * m /\ 2 * reposts <= m)
    BY <2>3, <2>6, <2>9 DEF Part
  <2>16. Part(Signal("continuous_daily_activity"),
              Present("long_continuous_window") \/ Present("round_the_clock"),
              24 * ratio + 1000 * hours >= 19184 /\ ratio < 900 /\ hours < 20)
    BY <2>3, <2>4, <2>6, <2>11 DEF Part
  <2> QED
    BY <2>12, <2>13, <2>14, <2>15, <2>16
       DEF ContradictionsConfined, Part, m, reposts, most, ratio, hours, daily, copies
<1> QED BY <1>1, BatchInvariance, PTL

(* Every post of a run is in every distribution, for every batch: nothing   *)
(* that a source can say of a post takes it out of one                      *)
THEOREM EveryPostAccounted == PipelineSpec => []Accounted
<1>1. ASSUME BatchInv PROVE Accounted
  <2> SUFFICES ASSUME Analysed PROVE Accounted
    BY DEF Accounted
  <2> DEFINE tz == batch.timezone
             found == Len(bursts)
  <2>1. /\ PostsOK(posts) /\ Len(posts) > 0 /\ IsFiniteSet(DOMAIN posts)
        /\ Size(posts) = Len(posts) /\ Len(posts) \in Nat
        /\ activity = ActivityMetrics(posts, tz, found) /\ content = ContentMetrics(posts)
        /\ sentiment = SentimentMetrics(posts)
    BY <1>1, RunFigures
  <2> HIDE DEF tz, found
  <2>2. content.media_usage = MediaUsage(posts) BY <2>1, ContentFields
  <2>3. /\ Total(activity.hourly_distribution) = Len(posts)
        /\ Total(activity.weekly_distribution) = Len(posts)
        /\ Total(activity.composition) = Len(posts)
        /\ Total(content.media_usage) = Len(posts)
    BY <2>1, <2>2, PostsCounted
  <2>4. /\ Total(sentiment.counts) = Size(Analyzed(posts))
        /\ sentiment.available => Total(sentiment.trend) = Size(Analyzed(posts))
    BY <2>1, AnalyzedCounted
  <2>5. /\ sentiment.analyzed_count = Size(Analyzed(posts))
        /\ sentiment.skipped_unsupported = Size(posts) - Size(Analyzed(posts))
    BY <2>1, SentimentFields
  <2>6. Size(Analyzed(posts)) \in Nat
    <3>1. DOMAIN Analyzed(posts) \in SUBSET DOMAIN posts BY DEF Analyzed, RestrictValues, Restrict
    <3> QED BY <2>1, <3>1, FS_Subset, SizeType
  <2> QED BY <2>1, <2>3, <2>4, <2>5, <2>6 DEF Accounted
<1> QED BY <1>1, BatchInvariance, PTL

(* The engagement engine's averages by hour, weekday and media type, times  *)
(* the numbers of posts that the other engines found there, are its total   *)
(* up to the rounding of the averages: the engines agree on where each post *)
(* belongs, in every time zone                                               *)
THEOREM EnginesAlwaysAgree == PipelineSpec => []EnginesAgree
<1>1. ASSUME BatchInv PROVE EnginesAgree
  <2> SUFFICES ASSUME Analysed PROVE EnginesAgree
    BY DEF EnginesAgree
  <2> DEFINE tz == batch.timezone
             found == Len(bursts)
             followers == batch.followers_count
             of == engagement
  <2>1. /\ PostsOK(posts) /\ Len(posts) > 0
        /\ activity = ActivityMetrics(posts, tz, found) /\ content = ContentMetrics(posts)
        /\ of = EngagementMetrics(posts, followers, tz)
    BY <1>1, RunFigures
  <2> HIDE DEF tz, found, followers, of
  <2>2. /\ activity.hourly_distribution = ByHour(posts, tz)
        /\ activity.weekly_distribution = ByWeekday(posts, tz)
    BY <2>1, ActivityCounts
  <2>3. content.media_usage = ByMediaType(posts)
    <3>1. content.media_usage = MediaUsage(posts) BY <2>1, ContentFields
    <3> QED BY <3>1, ActivityCounts
  <2>4. /\ 2 * (Weighted(of.by_hour, ByHour(posts, tz)) - 100 * of.total_engagement)
             \in -Len(posts)..Len(posts)
        /\ 2 * (Weighted(of.by_weekday, ByWeekday(posts, tz)) - 100 * of.total_engagement)
             \in -Len(posts)..Len(posts)
        /\ 2 * (Weighted(of.by_type, ByMediaType(posts)) - 100 * of.total_engagement)
             \in -Len(posts)..Len(posts)
        /\ of.total_engagement = Total(of.totals)
    BY <2>1, EnginesMeet DEF Weighted
  <2> QED BY <2>2, <2>3, <2>4 DEF EnginesAgree, Near, of
<1> QED BY <1>1, BatchInvariance, PTL

(* The ratio of active days and the calendar never part by more than a day  *)
(* or two and what the rounding hides, in every time zone whose clocks move *)
(* by a day at most                                                          *)
THEOREM RatioStaysNear == PipelineSpec => []RatioNearCalendar
<1>1. ASSUME BatchInv PROVE RatioNearCalendar
  <2> SUFFICES ASSUME Analysed PROVE RatioNearCalendar
    BY DEF RatioNearCalendar
  <2> DEFINE zone == batch.timezone
             found == Len(bursts)
             days == ActiveDays(posts, zone)
             total == TotalDays(TimesOf(posts))
             ratio == activity.active_day_ratio
  <2>1. /\ PostsOK(posts) /\ Len(posts) > 0 /\ utc_times = TimesOf(posts)
        /\ activity = ActivityMetrics(posts, zone, found)
    BY <1>1, RunFigures
  <2> HIDE DEF zone, found
  <2>2. ratio = ActiveDayRatio(Cardinality(days), total) BY <2>1, ActivityFields
  <2> HIDE DEF days, total, ratio
  <2>3. days = ActiveDays(posts, zone) /\ total = TotalDays(TimesOf(posts)) BY DEF days, total
  <2>4. /\ ratio = 1000 =>
             Max(days) - Min(days) + 1 - Cardinality(days)
               <= (IF Moved(zone) > 0 THEN 2 ELSE 1) + total \div 2000
        /\ Max(days) - Min(days) + 1 - Cardinality(days) = 0 => Cardinality(days) >= total - 1
    BY <2>1, <2>2, <2>3, CalendarNear
  <2>5. Moved(zone) > 0 <=> resolve_tz(zone).after > resolve_tz(zone).before
    BY ZoneShift DEF Moved
  <2>6. (IF Moved(zone) > 0 THEN 2 ELSE 1)
          = (IF resolve_tz(zone).after > resolve_tz(zone).before THEN 2 ELSE 1)
    BY <2>5
  <2>7. TotalDays(utc_times) = total BY <2>1, <2>3
  <2> QED BY <2>3, <2>4, <2>6, <2>7 DEF RatioNearCalendar, ratio, zone
<1> QED BY <1>1, BatchInvariance, PTL

(* The counters amount to what a reader takes them for, for all batches: a  *)
(* post is redundant if an earlier one says the same, and a tag counts once *)
(* for each post that has it unless a post repeats it                       *)
THEOREM CountersAreMeant == PipelineSpec => []CountersMean
<1>1. ASSUME BatchInv PROVE CountersMean
  <2> SUFFICES ASSUME Analysed PROVE CountersMean
    BY DEF CountersMean
  <2>1. /\ PostsOK(posts) /\ Len(posts) > 0 /\ Size(posts) = Len(posts)
        /\ content = ContentMetrics(posts)
    BY <1>1, RunFigures
  <2>2. content.duplicate_ratio = Round(1000 * Cardinality(Redundant(posts)), Len(posts))
    <3>1. content.duplicate_ratio =
            Round(1000 * (Total(DuplicateGroups(posts)) - Cardinality(DOMAIN DuplicateGroups(posts))),
                  Size(posts))
      BY <2>1 DEF ContentMetrics
    <3> QED BY <2>1, <3>1, RedundantTexts
  <2>3. content.hashtags = Counter(Hashtags(posts)) BY <2>1, ContentFields
  <2>4. DOMAIN content.hashtags = Range(Hashtags(posts)) BY <2>3 DEF Counter
  <2>5. \A tag \in DOMAIN content.hashtags :
          /\ content.hashtags[tag] >= Cardinality(WithTag(posts, tag))
          /\ content.hashtags[tag] > Cardinality(WithTag(posts, tag)) =>
               \E k \in WithTag(posts, tag) :
                 Len(TagsOf(posts, k)) > Cardinality(ToSet(TagsOf(posts, k)))
    BY <2>1, <2>3, <2>4, TagsCounted
  <2> QED BY <2>2, <2>5 DEF CountersMean, WithTag, TagsOf, TextOf, Redundant
<1> QED BY <1>1, BatchInvariance, PTL

(* Whatever a bot's draws, its posts get all the points that regularity     *)
(* has: the jitter drawn for it, a twentieth of the hour between its posts, *)
(* keeps the coefficient of variation of its gaps under the lower threshold *)
THEOREM BotsLookRegular == PipelineSpec => []BotsAreRegular
<1>1. ASSUME BatchInv PROVE BotsAreRegular
  <2> SUFFICES ASSUME Analysed, batch.source = "mock", Len(posts) >= regularity_min_posts, batch.botlike
               PROVE  patterns.components["regular_intervals"] = max_points["regular_intervals"]
    BY DEF BotsAreRegular
  <2> DEFINE b == batch
             draws == batch.rows
  <2>1. /\ IsSeq(draws) /\ b.post_limit \in Nat /\ b.botlike = TRUE
        /\ \A k \in DOMAIN draws : IsBotDraw(draws[k])
    <3>1. b \in Batches BY <1>1 DEF BatchInv
    <3> QED BY <3>1, BatchAssumption DEF BatchAssumption
  <2>2. \A k \in DOMAIN draws : IsDraw(draws[k]) BY <2>1 DEF IsBotDraw
  <2>3. posts = mock_posts(b.username, TRUE, b.post_limit, draws).posts
    <3>1. supplied(b) = mock_posts(b.username, b.botlike, b.post_limit, draws) BY DEF supplied
    <3>2. posts = supplied(b).posts BY <1>1 DEF BatchInv, PipelineInv
    <3> QED BY <2>1, <3>1, <3>2
  <2> DEFINE limit == b.post_limit
             name == b.username
  <2> HIDE DEF draws, limit, name
  <2>4. limit \in Nat /\ posts = mock_posts(name, TRUE, limit, draws).posts
    BY <2>1, <2>3 DEF limit, name
  <2>5. PICK m, at : MadeOf(posts, m, at, draws, TRUE)
    BY <2>1, <2>2, <2>4, MockMakes
  <2>6. /\ Len(posts) \in Nat \ {0} /\ DOMAIN posts = 1..Len(posts)
        /\ patterns = PatternMetrics(posts, activity, content)
    BY <1>1, RunFigures
  <2>7. posts # <<>> BY <2>6
  <2>8. m \in Nat /\ \A k \in 1..m : IsBotDraw(draws[k]) BY <2>1, <2>5 DEF MadeOf
  <2>9. m = Len(posts)
    <3>1. posts = [k \in 1..m |-> mock_post(draws[k], at[k])] BY <2>5, <2>7 DEF MadeOf
    <3>2. DOMAIN posts = 1..m BY <3>1
    <3> DEFINE z == Len(posts)
    <3>3. z \in Nat \ {0} /\ 1..m = 1..z BY <2>6, <3>2
    <3> HIDE DEF z
    <3>4. z \in 1..z BY <3>3
    <3>5. z \in 1..m BY <3>3, <3>4
    <3>6. m \in 1..m BY <2>8, <3>5
    <3>7. m \in 1..z BY <3>3, <3>6
    <3>8. m = z BY <2>8, <3>3, <3>5, <3>7
    <3> QED BY <3>8 DEF z
  <2>10. score_regularity(posts) = max_points["regular_intervals"]
    BY <2>5, <2>7, <2>8, <2>9, BotsScore
  <2>11. patterns.components["regular_intervals"] = score_regularity(posts)
    BY <2>6 DEF PatternMetrics, components
  <2> QED BY <2>10, <2>11
<1> QED BY <1>1, BatchInvariance, PTL

(* The texts of a run's posts are the texts of its batch, and have scores *)
LEMMA RunScores == ASSUME BatchInv PROVE Scored(posts)
<1> DEFINE b == batch
           rows == b.rows
           ps == supplied(b).posts
<1>1. b \in Batches /\ posts = ps BY DEF BatchInv, PipelineInv
<1>2. IsSeq(rows) /\ \A k \in DOMAIN rows : Compound[rows[k].text] \in -100..100
  BY <1>1, BatchAssumption DEF BatchAssumption
<1>3. \A k \in DOMAIN rows : Compound[rows[k].text] \in Int BY <1>2
<1>4. SUFFICES Scored(ps) BY <1>1
<1>5. Scored(<<>>) BY DEF Scored
<1>6. CASE b.source = "import" /\ \A k \in DOMAIN rows : IsFileRow(rows[k])
  <2> DEFINE made == [k \in DOMAIN rows |-> ImportedPost(rows[k])]
  <2>1. ps = parse_imported_posts(rows).posts BY <1>6 DEF supplied
  <2>2. Scored(made) BY <1>3 DEF Scored, ImportedPost
  <2> HIDE DEF rows, ps
  <2>3. ps = <<>> \/ ps = made
    <3> DEFINE bad == {k \in DOMAIN rows : Problem(rows[k]) # None}
    <3>1. CASE rows = <<>> BY <2>1, <3>1 DEF parse_imported_posts
    <3>2. CASE rows # <<>> /\ bad # {} BY <2>1, <3>2 DEF parse_imported_posts
    <3>3. CASE rows # <<>> /\ bad = {} BY <2>1, <3>3 DEF parse_imported_posts
    <3> QED BY <3>1, <3>2, <3>3
  <2> HIDE DEF made
  <2> QED BY <1>5, <2>2, <2>3 DEF ps
<1>7. CASE b.source = "x_api" /\ \A k \in DOMAIN rows : IsTweet(rows[k])
  <2>1. ps = [k \in DOMAIN rows |-> map_tweet(rows[k])] BY <1>7 DEF supplied, map_tweets
  <2> HIDE DEF ps
  <2>2. \A k \in DOMAIN rows : ps[k].text = rows[k].text BY <2>1 DEF map_tweet
  <2>3. DOMAIN ps = DOMAIN rows BY <2>1
  <2>4. Scored(ps) BY <1>3, <2>2, <2>3 DEF Scored
  <2> QED BY <2>4 DEF ps
<1>8. CASE /\ b.source = "mock" /\ b.post_limit \in Nat
           /\ \A k \in DOMAIN rows : IF b.botlike THEN IsBotDraw(rows[k]) ELSE IsDraw(rows[k])
  <2> DEFINE limit == b.post_limit
             name == b.username
             bot == b.botlike
  <2>1. limit \in Nat /\ \A k \in DOMAIN rows : IsDraw(rows[k]) BY <1>8 DEF IsBotDraw
  <2>2. ps = mock_posts(name, bot, limit, rows).posts BY <1>8 DEF supplied
  <2> HIDE DEF ps, rows, limit, name, bot
  <2>3. PICK m, at : MadeOf(ps, m, at, rows, bot) BY <1>2, <2>1, <2>2, MockMakes DEF rows
  <2>4. CASE ps = <<>> BY <1>5, <2>4 DEF ps
  <2>5. CASE ps = [k \in 1..m |-> mock_post(rows[k], at[k])]
    <3>1. \A k \in 1..m : k \in DOMAIN rows BY <2>3 DEF MadeOf
    <3>2. DOMAIN ps = 1..m BY <2>5
    <3>3. \A k \in 1..m : ps[k].text = rows[k].text BY <2>5 DEF mock_post
    <3>4. \A k \in DOMAIN rows : Compound[rows[k].text] \in Int BY <1>3 DEF rows
    <3>5. Scored(ps) BY <3>1, <3>2, <3>3, <3>4 DEF Scored
    <3> QED BY <3>5 DEF ps
  <2> QED BY <2>3, <2>4, <2>5 DEF MadeOf, ps
<1> QED BY <1>1, <1>6, <1>7, <1>8, BatchAssumption DEF BatchAssumption

(* Backwards, a sequence is the same family in another order *)
LEMMA ReverseAlong ==
  ASSUME NEW ps, PostsOK(ps)
  PROVE  PostsOK(Reverse(ps)) /\ \E b : Along(b, ps, Reverse(ps))
<1> DEFINE m == Len(ps)
           qs == Reverse(ps)
           b == [k \in 1..m |-> (m - k) + 1]
<1>1. m \in Nat /\ DOMAIN ps = 1..m /\ IsFiniteSet(DOMAIN ps) BY SeqDomain DEF PostsOK
<1>2. qs = [k \in 1..m |-> ps[(m - k) + 1]] BY DEF Reverse
<1> HIDE DEF m, qs
<1>3. \A k \in 1..m : b[k] \in 1..m /\ b[k] = (m - k) + 1 BY <1>1
<1>4. b \in Bijection(1..m, 1..m)
  <2>1. b \in [1..m -> 1..m] BY <1>1
  <2>2. \A k, l \in 1..m : b[k] = b[l] => k = l BY <1>1, <1>3
  <2>3. \A k \in 1..m : b[(m - k) + 1] = k /\ (m - k) + 1 \in 1..m BY <1>1
  <2> HIDE DEF b
  <2> QED BY <2>1, <2>2, <2>3 DEF Bijection, Injection, Surjection, IsInjective
<1>5. DOMAIN qs = 1..m /\ \A k \in 1..m : qs[k] = ps[b[k]] BY <1>2, <1>3
<1> HIDE DEF b
<1>6. Along(b, ps, qs) BY <1>1, <1>4, <1>5 DEF Along
<1>7. qs = [k \in 1..m |-> qs[k]] BY <1>2
<1>8. IsSeq(qs) BY <1>1, <1>7, FunctionIsSeq
<1>9. PostsOK(qs) BY <1>1, <1>3, <1>5, <1>8 DEF PostsOK
<1> QED BY <1>6, <1>9 DEF qs

(* Whether the posts come forwards or backwards makes no difference to the   *)
(* figures but for which of equals are named, for all batches                *)
THEOREM FiguresOrderFree == PipelineSpec => []OrderFree
<1>1. ASSUME BatchInv PROVE OrderFree
  <2> SUFFICES ASSUME Analysed PROVE OrderFree
    BY DEF OrderFree
  <2> DEFINE ps == posts
             back == Reverse(ps)
             tz == batch.timezone
             followers == batch.followers_count
             found == Len(bursts)
  <2>1. /\ PostsOK(ps) /\ IsFiniteSet(DOMAIN ps)
        /\ activity = ActivityMetrics(ps, tz, found) /\ content = ContentMetrics(ps)
        /\ sentiment = SentimentMetrics(ps)
        /\ engagement = EngagementMetrics(ps, followers, tz)
        /\ patterns = PatternMetrics(ps, activity, content)
    BY <1>1, RunFigures
  <2>2. Scored(ps) BY <1>1, RunScores
  <2> DEFINE of == EngagementMetrics(ps, followers, tz)
             again == EngagementMetrics(back, followers, tz)
             said == SentimentMetrics(ps)
             heard == SentimentMetrics(back)
             a == activity
             c == content
  <2> HIDE DEF ps, back, tz, followers, found, a, c
  <2>3. PostsOK(back) /\ \E b : Along(b, ps, back) BY <2>1, ReverseAlong DEF back
  <2>4. PICK b : Along(b, ps, back) BY <2>3
  <2>5. /\ ActivityMetrics(back, tz, found) = ActivityMetrics(ps, tz, found)
        /\ ContentMetrics(back) = ContentMetrics(ps)
        /\ [heard EXCEPT !.detected_language = None] = [said EXCEPT !.detected_language = None]
        /\ Speakers(ps, heard.detected_language) = Speakers(ps, said.detected_language)
        /\ PatternMetrics(back, a, c) = PatternMetrics(ps, a, c)
        /\ [again EXCEPT !.top_posts = None] = [of EXCEPT !.top_posts = None]
        /\ Best(again.top_posts) = Best(of.top_posts)
    BY <2>1, <2>2, <2>3, <2>4, AnyOrder
  <2> HIDE DEF of, again, said, heard
  <2>6. activity = ActivityMetrics(back, tz, found) /\ content = ContentMetrics(back)
    BY <2>1, <2>5
  <2>13. sentiment = said BY <2>1 DEF said
  <2>14. [sentiment EXCEPT !.detected_language = None] = [heard EXCEPT !.detected_language = None]
    BY <2>5, <2>13
  <2>15. CountWhere(Spoken(posts), LAMBDA l : l = sentiment.detected_language)
           = CountWhere(Spoken(posts), LAMBDA l : l = heard.detected_language)
    BY <2>5, <2>13 DEF Speakers, With, CountWhere, ps
  <2>16. heard = SentimentMetrics(Reverse(posts)) BY DEF heard, back, ps
  <2>7. patterns = PatternMetrics(back, activity, content) BY <2>1, <2>5 DEF a, c
  <2>8. engagement = of BY <2>1 DEF of
  <2>9. again = EngagementMetrics(Reverse(posts), batch.followers_count, batch.timezone)
    BY DEF again, back, ps, tz, followers
  <2>10. [r \in DOMAIN engagement.top_posts |-> engagement_of(engagement.top_posts[r])]
           = [r \in DOMAIN again.top_posts |-> engagement_of(again.top_posts[r])]
    BY <2>5, <2>8 DEF Best
  <2>11. [engagement EXCEPT !.top_posts = None] = [again EXCEPT !.top_posts = None]
    BY <2>5, <2>8
  <2>12. back = Reverse(posts) /\ tz = batch.timezone /\ found = Len(bursts)
    BY DEF back, ps, tz, found
  <2> QED BY <2>6, <2>7, <2>9, <2>10, <2>11, <2>12, <2>14, <2>15, <2>16 DEF OrderFree
<1> QED BY <1>1, BatchInvariance, PTL
=============================================================================
