------------------------------ MODULE Engines ------------------------------
(***************************************************************************)
(* The activity, content, sentiment and engagement engines of analytics/,  *)
(* as functions of the posts of a run, of which there is at least one: a    *)
(* run without posts fails before it gets here.                             *)
(***************************************************************************)
EXTENDS Posts

CONSTANTS
  Lower,           \* str.lower on hashtags
  DomainOf,        \* _domain_of: a link's domain, or None
  Normalized,      \* _normalize_dup: what is left of a text, or ""
  Compound,        \* VADER's score of a text, in hundredths
  DetectedLang     \* langdetect's answer for a text, or None

-----------------------------------------------------------------------------
(* compute_activity_metrics around _detect_bursts, which finds burst_count  *)

LocalTimes(posts, tz_name) ==
  [k \in DOMAIN posts |-> astimezone(posts[k].created_at, tz_name)]

ActiveDays(posts, tz_name) ==
  {DateOf(lt) : lt \in Range(LocalTimes(posts, tz_name))}

Span(times) == times[Len(times)] - times[1]

(* Mutant: only days that are over *)
TotalDays_over(times) == Max({1, Span(times) \div Day})

(* Days of 24 hours since the first post, and the one that has begun *)
TotalDays(times) == Max({1, Span(times) \div Day + 1})

(* Mutant: not capped *)
ActiveDayRatio_open(active, total) == Round(1000 * active, total)

(* At most 1000, though a first post late on its day leaves one day more    *)
(* active than have begun                                                   *)
ActiveDayRatio(active, total) == Round(1000 * Min({active, total}), total)

(* In thousandths; a span counts one hour at least, and a day if it is 0    *)
PostsPerDay(times) ==
  LET m == Len(times) IN
  IF Span(times) = 0 THEN 1000 * m ELSE Round(1000 * m * Day, Max({Span(times), Hour}))

ActivityMetrics(posts, tz_name, burst_count) ==
  LET times  == TimesOf(posts)
      gaps   == GapsOf(times)
      local  == LocalTimes(posts, tz_name)
      hourly == [h \in 0..23 |-> CountWhere(local, LAMBDA lt : HourOf(lt) = h)]
      weekly == [d \in 0..6 |-> CountWhere(local, LAMBDA lt : WeekdayOf(lt) = d)]
      active == ActiveDays(posts, tz_name)
      daily  == Counter([k \in DOMAIN local |-> DateOf(local[k])])
  IN
  [post_count  |-> Size(posts),
   posts_per_day |-> PostsPerDay(times),
   hourly_distribution |-> hourly,
   weekly_distribution |-> weekly,
   most_active_hour    |-> Min({h \in 0..23 : hourly[h] = Top(hourly)}),
   most_active_weekday |-> Min({d \in 0..6 : weekly[d] = Top(weekly)}),
   composition |-> [t \in PostTypes |-> CountWhere(posts, LAMBDA p : p.post_type = t)],
   median_gap2 |-> IF gaps = <<>> THEN None ELSE Median2(gaps),
   longest_inactive |-> IF gaps = <<>> THEN None ELSE Max(Range(gaps)),
   active_day_ratio |-> ActiveDayRatio(Cardinality(active), TotalDays(times)),
   daily_count_cv   |-> IF Cardinality(active) > 1 THEN CV(daily) ELSE None,
   burst_count |-> burst_count]

-----------------------------------------------------------------------------
(* compute_content_metrics, without words, phrases and topics. Its counters *)
(* are whole: the code cuts its lists of tags and domains at 15.             *)

MediaUsage(posts) == [t \in MediaTypes |-> CountWhere(posts, LAMBDA p : p.media_type = t)]

(* Mutant: texts of which nothing is left count as duplicates *)
DuplicateGroups_empty(posts) ==
  LET dup_counter == Counter([k \in DOMAIN posts |-> Normalized[posts[k].text]]) IN
  [t \in {x \in DOMAIN dup_counter : dup_counter[x] > 1} |-> dup_counter[t]]

(* What is left of a text decides; texts of which nothing is left are no    *)
(* duplicates of each other                                                 *)
DuplicateGroups(posts) ==
  LET dup_counter == Counter([k \in DOMAIN posts |-> Normalized[posts[k].text]]) IN
  [t \in {x \in DOMAIN dup_counter : dup_counter[x] > 1 /\ x # ""} |-> dup_counter[t]]

(* The h-th tag of post k is the use <<k, h>>; links likewise. A use has    *)
(* its tag in lower case, its link's domain.                                *)
Hashtags(posts) ==
  [use \in UNION {{k} \X DOMAIN posts[k].hashtags : k \in DOMAIN posts} |->
     Lower[posts[use[1]].hashtags[use[2]]]]

Domains(posts) ==
  LET of == [use \in UNION {{k} \X DOMAIN posts[k].urls : k \in DOMAIN posts} |->
               DomainOf[posts[use[1]].urls[use[2]]]]
  IN  RestrictValues(of, LAMBDA d : d # None)

ContentMetrics(posts) ==
  LET groups    == DuplicateGroups(posts)
      redundant == Total(groups) - Cardinality(DOMAIN groups)
  IN
  [post_count      |-> Size(posts),
   hashtags        |-> Counter(Hashtags(posts)),
   domains         |-> Counter(Domains(posts)),
   media_usage     |-> MediaUsage(posts),
   duplicate_ratio |-> Round(1000 * redundant, Size(posts))]

-----------------------------------------------------------------------------
(* compute_sentiment_metrics                                                *)

SUPPORTED_LANGUAGES == {"en"}
MIN_ANALYZABLE == 3

ASSUME EnginesAssumption == None \notin SUPPORTED_LANGUAGES \cup {"unsupported_language"}

(* Mutant: a post whose language nobody knows is taken for English *)
detect_lang_english(p) ==
  LET lang == IF p.lang # None THEN p.lang ELSE DetectedLang[p.text] IN
  IF lang = None THEN "en" ELSE lang

detect_lang(p) == IF p.lang # None THEN p.lang ELSE DetectedLang[p.text]

classify(compound) ==
  CASE compound >= 5  -> "positive"
    [] compound <= -5 -> "negative"
    [] OTHER          -> "neutral"

Analyzed(posts) == RestrictValues(posts, LAMBDA p : detect_lang(p) \in SUPPORTED_LANGUAGES)

(* lang_counter: the languages of the posts that have one, supported or not *)
Spoken(posts) ==
  RestrictValues([k \in DOMAIN posts |-> detect_lang(posts[k])], LAMBDA lang : lang # None)

(* Of the languages that most posts are in, the one that came first *)
DetectedLanguage(posts) ==
  LET spoken == Spoken(posts)
      counter == Counter(spoken)
  IN  IF DOMAIN spoken = {} THEN None
      ELSE spoken[Min({k \in DOMAIN spoken : counter[spoken[k]] = Top(counter)})]

(* The trend is by day of UTC, whatever the report's time zone. Of it, and  *)
(* of by_hashtag, the counts; their averages are left out.                  *)
SentimentMetrics(posts) ==
  LET analyzed == Analyzed(posts)
      skipped  == Size(posts) - Size(analyzed)
      score(p) == Compound[p.text]
      days     == [k \in DOMAIN analyzed |-> DateOf(analyzed[k].created_at)]
      by_tag   == Counter(Hashtags(analyzed))
      scored   == Size(analyzed) >= MIN_ANALYZABLE
  IN
  [available |-> scored,
   reason    |-> CASE scored -> None
                   [] ~scored /\ skipped >= Size(posts) -> "unsupported_language"
                   [] OTHER -> "insufficient_english_posts",
   analyzed_count      |-> Size(analyzed),
   skipped_unsupported |-> skipped,
   detected_language   |-> DetectedLanguage(posts),
   counts     |-> [l \in {"positive", "neutral", "negative"} |->
                     CountWhere(analyzed, LAMBDA p : classify(score(p)) = l)],
   trend      |-> IF scored THEN Counter(days) ELSE <<>>,
   average    |-> IF scored THEN Round(100 * SumOf(analyzed, score), Size(analyzed)) ELSE None,
   by_hashtag |-> IF scored THEN RestrictValues(by_tag, LAMBDA uses : uses >= 2) ELSE <<>>]

-----------------------------------------------------------------------------
(* compute_engagement_metrics                                               *)

engagement_of(p) == Total(p.counts)

(* Mutant: by hour of UTC *)
EngagementTime_utc(p, tz_name) == astimezone(p.created_at, "UTC")

(* It finds its own hour and weekday of a post *)
EngagementTime(p, tz_name) == astimezone(p.created_at, tz_name)

MeanWhere(posts, P(_)) ==
  LET in == RestrictValues(posts, P) IN
  IF Size(in) = 0 THEN 0 ELSE Round(100 * SumOf(in, engagement_of), Size(in))

(* The posts listed before post k: those with more engagement, and earlier  *)
(* ones with as much                                                        *)
Before(posts, k) ==
  {l \in DOMAIN posts :
     \/ engagement_of(posts[l]) > engagement_of(posts[k])
     \/ (engagement_of(posts[l]) = engagement_of(posts[k]) /\ l < k)}

EngagementMetrics(posts, followers, tz_name) ==
  LET total  == SumOf(posts, engagement_of)
      ranked(r)  == posts[CHOOSE k \in DOMAIN posts : Cardinality(Before(posts, k)) = r - 1]
      hour(p)    == HourOf(EngagementTime(p, tz_name))
      weekday(p) == WeekdayOf(EngagementTime(p, tz_name))
      types  == {posts[k].media_type : k \in DOMAIN posts}
  IN
  [post_count  |-> Size(posts),
   totals      |-> [c \in Counts |-> SumOf(posts, LAMBDA p : p.counts[c])],
   total_engagement |-> total,
   median2     |-> Median2([k \in DOMAIN posts |-> engagement_of(posts[k])]),
   rate        |-> IF followers \notin {None, 0} THEN Round(10000 * total, Size(posts) * followers) ELSE None,
   top_posts   |-> [r \in 1..Min({5, Size(posts)}) |-> ranked(r)],
   by_type     |-> [t \in types |-> MeanWhere(posts, LAMBDA p : p.media_type = t)],
   by_weekday  |-> [d \in 0..6 |-> MeanWhere(posts, LAMBDA p : weekday(p) = d)],
   by_hour     |-> [h \in 0..23 |-> MeanWhere(posts, LAMBDA p : hour(p) = h)]]
=============================================================================
