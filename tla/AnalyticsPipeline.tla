------------------------- MODULE AnalyticsPipeline -------------------------
(***************************************************************************)
(* From the posts of a run to its figures: the posts as their source gives *)
(* them, then the engines in the order of _compute_and_store and run_job   *)
(* (services/analysis_runner.py). The burst search of the activity engine  *)
(* is BurstDetector, turn by turn; each other engine is one step.           *)
(***************************************************************************)
EXTENDS BurstDetector, PostSources, Engines, PatternScore

(* [source, rows, timezone, followers_count] and, for source "mock",        *)
(* [username, botlike, post_limit]                                          *)
CONSTANT Batches

(* VADER's scores lie between -1 and 1 *)
ASSUME BatchAssumption ==
  \A b \in Batches :
    /\ IsSeq(b.rows) /\ \A k \in DOMAIN b.rows : Compound[b.rows[k].text] \in -100..100
    /\ \/ b.source = "import" /\ \A k \in DOMAIN b.rows : IsFileRow(b.rows[k])
       \/ b.source = "x_api" /\ \A k \in DOMAIN b.rows : IsTweet(b.rows[k])
       \/ /\ b.source = "mock" /\ b.post_limit \in Nat /\ b.botlike \in BOOLEAN
          /\ \A k \in DOMAIN b.rows : IF b.botlike THEN IsBotDraw(b.rows[k]) ELSE IsDraw(b.rows[k])

VARIABLES batch, posts, stage, activity, content, sentiment, engagement, patterns

figures == <<activity, content, sentiment, engagement, patterns>>
run     == <<batch, posts, stage, figures>>

supplied(b) ==
  CASE b.source = "import" -> parse_imported_posts(b.rows)
    [] b.source = "x_api"  -> map_tweets(b.rows)
    [] b.source = "mock"   -> mock_posts(b.username, b.botlike, b.post_limit, b.rows)

(* No posts, no analysis: the import is refused, the run fails *)
PipelineInit ==
  /\ batch \in Batches
  /\ posts = supplied(batch).posts
  /\ stage = IF posts = <<>> THEN "failed" ELSE "activity"
  /\ utc_times = TimesOf(posts)
  /\ i = 1 /\ j = 1 /\ bursts = <<>>
  /\ activity = None /\ content = None /\ sentiment = None
  /\ engagement = None /\ patterns = None

DetectBursts == stage = "activity" /\ Next /\ UNCHANGED run

Activity ==
  /\ stage = "activity" /\ i = n + 1
  /\ activity' = ActivityMetrics(posts, batch.timezone, Len(bursts))
  /\ stage' = "content"
  /\ UNCHANGED <<vars, batch, posts, content, sentiment, engagement, patterns>>

Content ==
  /\ stage = "content"
  /\ content' = ContentMetrics(posts)
  /\ stage' = "sentiment"
  /\ UNCHANGED <<vars, batch, posts, activity, sentiment, engagement, patterns>>

Sentiment ==
  /\ stage = "sentiment"
  /\ sentiment' = SentimentMetrics(posts)
  /\ stage' = "engagement"
  /\ UNCHANGED <<vars, batch, posts, activity, content, engagement, patterns>>

Engagement ==
  /\ stage = "engagement"
  /\ engagement' = EngagementMetrics(posts, batch.followers_count, batch.timezone)
  /\ stage' = "patterns"
  /\ UNCHANGED <<vars, batch, posts, activity, content, sentiment, patterns>>

Patterns ==
  /\ stage = "patterns"
  /\ patterns' = PatternMetrics(posts, activity, content)
  /\ stage' = "summary"
  /\ UNCHANGED <<vars, batch, posts, activity, content, sentiment, engagement>>

PipelineNext == DetectBursts \/ Activity \/ Content \/ Sentiment \/ Engagement \/ Patterns

(* The burst search is a loop of sequential code *)
PipelineSpec == PipelineInit /\ [][PipelineNext]_<<vars, run>> /\ WF_vars(DetectBursts)

-----------------------------------------------------------------------------
(* The inductive invariant: each figure is what its engine says of the run's *)
(* posts, from the step on that computes it                                  *)
PipelineInv ==
  LET done(stages) == stage \in stages \cup {"summary"} IN
  /\ BurstInv
  /\ posts = supplied(batch).posts /\ utc_times = TimesOf(posts)
  /\ stage \in {"failed", "activity"} \/ done({"content", "sentiment", "engagement", "patterns"})
  /\ stage # "failed" => posts # <<>>
  /\ done({"content", "sentiment", "engagement", "patterns"}) =>
       i = n + 1 /\ activity = ActivityMetrics(posts, batch.timezone, Len(bursts))
  /\ done({"sentiment", "engagement", "patterns"}) => content = ContentMetrics(posts)
  /\ done({"engagement", "patterns"}) => sentiment = SentimentMetrics(posts)
  /\ done({"patterns"}) =>
       engagement = EngagementMetrics(posts, batch.followers_count, batch.timezone)
  /\ done({}) => patterns = PatternMetrics(posts, activity, content)

Analysed == stage = "summary"

(* Every post is in every distribution, however its source described it:   *)
(* the guards "if p.post_type in composition" and "if p.media_type in      *)
(* media_counts" never drop one.                                            *)
Accounted == Analysed =>
  /\ \A distribution \in {activity.hourly_distribution, activity.weekly_distribution,
                          activity.composition, content.media_usage} :
       Total(distribution) = Len(posts)
  /\ sentiment.analyzed_count + sentiment.skipped_unsupported = Len(posts)
  /\ Total(sentiment.counts) = sentiment.analyzed_count
  /\ sentiment.available => Total(sentiment.trend) = sentiment.analyzed_count

(* x is 100 * total up to the rounding of averages over Len(posts) posts *)
Near(x, total) == 2 * (x - 100 * total) \in -Len(posts)..Len(posts)

(* Averages times the numbers of posts they are taken over *)
Weighted(averages, counts) == Total([x \in DOMAIN averages |-> averages[x] * counts[x]])

(* The engagement engine sorts posts into hours, weekdays and media types   *)
(* by code of its own: its averages, times the counts of the activity and   *)
(* content engines, give back the total.                                    *)
EnginesAgree == Analysed =>
  /\ Near(Weighted(engagement.by_hour, activity.hourly_distribution), engagement.total_engagement)
  /\ Near(Weighted(engagement.by_weekday, activity.weekly_distribution), engagement.total_engagement)
  /\ Near(Weighted(engagement.by_type, content.media_usage), engagement.total_engagement)
  /\ engagement.total_engagement = Total(engagement.totals)

(* Providers deliver newest first, files in any order. No figure depends on *)
(* that but where the code lets arrival break a tie: the posts listed at    *)
(* the top, of which the engagements are the same, and detected_language,   *)
(* which as many posts are in. (Counters are whole here, averages of trend   *)
(* and by_hashtag are not; in the code arrival also decides which of equally *)
(* frequent entries a list keeps that is cut, or an indicator names.)        *)
OrderFree == Analysed =>
  LET back     == Reverse(posts)
      again    == EngagementMetrics(back, batch.followers_count, batch.timezone)
      heard    == SentimentMetrics(back)
      best(ps) == [k \in DOMAIN ps |-> engagement_of(ps[k])]
      speakers(lang) == CountWhere(Spoken(posts), LAMBDA l : l = lang)
  IN
  /\ activity  = ActivityMetrics(back, batch.timezone, Len(bursts))
  /\ content   = ContentMetrics(back)
  /\ patterns  = PatternMetrics(back, activity, content)
  /\ [sentiment EXCEPT !.detected_language = None] = [heard EXCEPT !.detected_language = None]
  /\ speakers(sentiment.detected_language) = speakers(heard.detected_language)
  /\ [engagement EXCEPT !.top_posts = None] = [again EXCEPT !.top_posts = None]
  /\ best(engagement.top_posts) = best(again.top_posts)

(* active_day_ratio divides local dates by elapsed days of 24 hours. It is  *)
(* never far from the calendar: a ratio of 1 hides one silent day at most,  *)
(* two if the clocks have gone forward, and what its rounding to thousandths *)
(* does; an account that posted every day falls short by one day at most.   *)
RatioNearCalendar == Analysed =>
  LET days    == ActiveDays(posts, batch.timezone)
      silent  == Max(days) - Min(days) + 1 - Cardinality(days)
      total   == TotalDays(utc_times)
      tz      == resolve_tz(batch.timezone)
      hidden  == IF tz.after > tz.before THEN 2 ELSE 1
  IN
  /\ activity.active_day_ratio = 1000 => silent <= hidden + total \div 2000
  /\ silent = 0 => Cardinality(days) >= total - 1

(* "The sum of the components IS the score": none exceeds its maximum, so   *)
(* the clamp to 100 changes nothing, and only rounding is between them.     *)
ScoreIsSum == Analysed =>
  /\ \A c \in DOMAIN max_points : patterns.components[c] \in 0..max_points[c]
  /\ 2 * (100 * patterns.automation_pattern_score - Total(patterns.components)) \in -100..100

(* The loud one reports all that the quiet one does, and is alone exactly in *)
(* the band                                                                  *)
Part(loud, quiet, band) == (quiet => loud) /\ (loud /\ ~quiet <=> band)

(* patterns.py and scoring.py hold thresholds of their own for the same     *)
(* observations, and where they part a report contradicts itself: exactly   *)
(* from 20 to 22.988 posts a day, with more than 10 % but less than 20 % of *)
(* duplicates, with a tag or link in 20 to 30 % of the posts, with 40 to    *)
(* 50 % of reposts, and with less than 90 % of the days and 20 of the hours *)
(* covered but 40 % in the mean of both. The indicators are the louder list *)
(* for frequency and duplicates, the signals for the rest.                   *)
ContradictionsConfined == Analysed =>
  LET present(key) == key \in patterns.indicators
      signal(key)  == key \in patterns.signals_triggered
      m       == activity.post_count
      reposts == activity.composition["repost"]
      most    == Max({Top(content.domains), Top(content.hashtags)})
      ratio   == activity.active_day_ratio
      hours   == active_hours(activity)
  IN
  /\ Part(present("high_frequency"), signal("posting_frequency"),
          activity.posts_per_day \in 20000..22988)
  /\ Part(present("duplicate_posts"), signal("duplicate_content"),
          content.duplicate_ratio \in 101..199)
  /\ Part(signal("repeated_links_hashtags"),
          present("repeated_links") \/ present("repeated_hashtags"),
          6000 * most >= 1199 * m /\ 10 * most <= 3 * m)
  /\ Part(signal("reply_repost_concentration"), present("high_repost_ratio"),
          4000 * reposts >= 1599 * m /\ 2 * reposts <= m)
  /\ Part(signal("continuous_daily_activity"),
          present("long_continuous_window") \/ present("round_the_clock"),
          24 * ratio + 1000 * hours >= 19184 /\ ratio < 900 /\ hours < 20)

(* "Posts in unsupported languages are skipped (not misclassified)": the    *)
(* scores are those of the English posts alone. (How many posts there were  *)
(* and what most of them are in is still told of all posts.)                *)
ForeignPostsIgnored == Analysed =>
  LET English(p) == "en" \in {p.lang} \/ (p.lang = None /\ DetectedLang[p.text] = "en")
      alone == SentimentMetrics(RestrictValues(posts, English))
  IN  /\ sentiment.counts = alone.counts /\ sentiment.trend = alone.trend
      /\ sentiment.average = alone.average /\ sentiment.by_hashtag = alone.by_hashtag
      /\ sentiment.reason = "unsupported_language" => alone.analyzed_count = 0

(* What the counters amount to: a post is redundant if an earlier one says   *)
(* the same, and a tag counts for each post that has it, so that a share    *)
(* above 1 comes only of a post that repeats it.                             *)
CountersMean == Analysed =>
  LET text(k)   == Normalized[posts[k].text]
      tags(k)   == [h \in DOMAIN posts[k].hashtags |-> Lower[posts[k].hashtags[h]]]
      with(tag) == {k \in DOMAIN posts : tag \in ToSet(tags(k))}
      redundant == {k \in DOMAIN posts : text(k) # "" /\ \E l \in 1..(k - 1) : text(l) = text(k)}
  IN
  /\ content.duplicate_ratio = Round(1000 * Cardinality(redundant), Len(posts))
  /\ \A tag \in DOMAIN content.hashtags :
       /\ content.hashtags[tag] >= Cardinality(with(tag))
       /\ content.hashtags[tag] > Cardinality(with(tag)) =>
            \E k \in with(tag) : Len(tags(k)) > Cardinality(ToSet(tags(k)))

(* "High-regularity" is what the README (line 154) says of the demo's bots: *)
(* whatever the draws, they get all the points regularity has, once it is   *)
(* scored at all.                                                            *)
BotsAreRegular ==
  Analysed /\ batch.source = "mock" /\ Len(posts) >= regularity_min_posts =>
    (batch.botlike => patterns.components["regular_intervals"] = max_points["regular_intervals"])
=============================================================================
