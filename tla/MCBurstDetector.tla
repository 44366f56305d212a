-------------------------- MODULE MCBurstDetector --------------------------
(* An instance of BurstDetector and AnalyticsPipeline for TLC. A tick is    *)
(* three minutes. Timelines in half hours: every ascending one of up to     *)
(* MaxPosts posts in MaxTime; every one of up to MaxSpread posts over       *)
(* Instants, which lie around midnights, a change of the clocks and silent  *)
(* days; and long ones, by hour, by day, all at once, over silent days, and   *)
(* 22 a day.                                                                 *)
EXTENDS AnalyticsPipeline

CONSTANTS MaxPosts, MaxTime, MaxSpread

HalfHour == Hour \div 2
HalfHours(times) == [k \in DOMAIN times |-> HalfHour * times[k]]

Multisets(times, size) ==
  UNION {{t \in [1..m -> times] : Ascending(t)} : m \in 0..size}

(* At Change the local clocks go back one hour; in spring they go forward  *)
Change == 144 * HalfHour
MCZones == [UTC |-> [switch |-> 0, before |-> 0, after |-> 0],
            Local |-> [switch |-> Change, before |-> 2 * Hour, after |-> Hour],
            Spring |-> [switch |-> Change, before |-> 0, after |-> Hour]]

(* UTC midnights are 48, 96, ...; local ones are two hours, then one, before *)
Instants == {43, 44, 48, 92, 93, 140, 143, 144, 189}

Busy == [k \in 1..20 |-> (9 * k) \div 4]
Long == {[k \in 1..22 |-> 2 * k], [k \in 1..10 |-> 24 * k], [k \in 1..6 |-> 7], <<95, 190>>, Busy}

AllTimelines == {HalfHours(t) :
  t \in Multisets(0..MaxTime, MaxPosts) \cup Multisets(Instants, MaxSpread) \cup Long}

-----------------------------------------------------------------------------
Texts == {"good", "bad", "same", "#Tag twice", "hola", "http://a.com"}
MCUrlsIn == [t \in Texts \cup {""} |-> IF t = "http://a.com" THEN <<"http://a.com">> ELSE <<>>]
MCTagsIn == [t \in Texts \cup {""} |-> IF t = "#Tag twice" THEN <<"Tag">> ELSE <<>>]
MCLower  == [t \in {"Tag", "tag", "news"} |-> IF t = "news" THEN t ELSE "tag"]
MCDomainOf == [u \in {"http://a.com", "A.com/x", "http://"} |-> IF u = "http://" THEN None ELSE "a.com"]
MCNormalized == [t \in Texts |-> IF t = "http://a.com" THEN "" ELSE t]
MCCompound == [t \in Texts \cup {""} |-> CASE t = "good" -> 50 [] t = "bad" -> -50 [] t = "same" -> 5 [] OTHER -> 4]
MCDetectedLang == [t \in Texts |-> CASE t = "hola" -> "es" [] t = "http://a.com" -> None [] OTHER -> "en"]

Few(k) == [c \in Counts |-> CASE c = "likes" -> k [] c = "reposts" -> 2 * k [] OTHER -> 1]

(* Rows of files: plain; copies; what files may hold; and, of 20, three     *)
(* redundant ones, five with a tag and nine reposts                          *)
Row(f, k, at) ==
  CASE f = "plain" ->
    [text |-> <<"good", "bad", "same", "hola">>[(k % 4) + 1], created_at |-> at, lang |-> None,
     post_type |-> <<"original", "reply">>[(k % 2) + 1], media_type |-> "", counts |-> Few(k % 4),
     hashtags |-> <<>>, urls |-> <<>>]
  [] f = "copies" ->
    [text |-> "same", created_at |-> at, lang |-> "en",
     post_type |-> IF k % 3 = 0 THEN "original" ELSE "repost",
     media_type |-> "image", counts |-> [Few(2) EXCEPT !["likes"] = Junk],
     hashtags |-> <<"Tag", "tag">>, urls |-> <<"A.com/x">>]
  [] f = "odd" ->
    [text |-> <<"http://a.com", "#Tag twice", "good">>[(k % 3) + 1], created_at |-> at,
     lang |-> IF k % 4 = 0 THEN "fr" ELSE None, post_type |-> <<"tweet", "quote", "repost">>[(k % 3) + 1],
     media_type |-> "photo", counts |-> [Few(1) EXCEPT !["replies"] = -3],
     hashtags |-> IF k % 2 = 0 THEN <<"news">> ELSE <<>>, urls |-> <<>>]
  [] f = "broken" ->
    [text |-> IF k = 3 THEN "" ELSE "good", created_at |-> IF k = 4 THEN None ELSE at, lang |-> None,
     post_type |-> "", media_type |-> "", counts |-> [Few(1) EXCEPT !["quotes"] = IF k = 2 THEN Inf ELSE 0],
     hashtags |-> <<>>, urls |-> <<"http://">>]
  [] f = "mixed" ->
    [text |-> IF k % 10 \in {1, 2} THEN "good" ELSE "http://a.com", created_at |-> at, lang |-> "en",
     post_type |-> IF k < 10 THEN "repost" ELSE "original", media_type |-> "none", counts |-> Few(1),
     hashtags |-> IF k % 4 = 0 THEN <<"news">> ELSE <<>>, urls |-> <<"http://">>]

(* Tweets of every type and medium; the second has no readable date         *)
Tweet(k, at) ==
  [text |-> <<"good", "hola", "http://a.com">>[(k % 3) + 1], created_at |-> IF k = 2 THEN None ELSE at,
   lang |-> <<"en", "es", "und">>[(k % 3) + 1],
   refs |-> <<{}, {"retweeted", "quoted"}, {"quoted"}, {"replied_to"}>>[(k % 4) + 1],
   in_reply_to |-> IF k % 5 = 0 THEN "someone" ELSE None, poll |-> k % 6 = 0,
   media |-> <<{}, {"video", "photo"}, {"animated_gif", "photo"}, {None}>>[(k % 4) + 1],
   counts |-> Few(k), hashtags |-> <<"news">>, urls |-> IF k % 2 = 0 THEN <<"A.com/x">> ELSE <<>>]

Batch(f, times) ==
  CASE f = "tweets" ->
    [source |-> "x_api", timezone |-> "Local", followers_count |-> 10,
     rows |-> Reverse([k \in DOMAIN times |-> Tweet(k, times[k])])]
  [] OTHER ->
    [source |-> "import", timezone |-> CASE f = "plain" -> "Local" [] f = "copies" -> "Spring" [] OTHER -> "Nowhere",
     followers_count |-> None,
     rows |-> LET rows == [k \in DOMAIN times |-> Row(f, k, times[k])] IN
              IF f = "odd" THEN Reverse(rows) ELSE rows]

(* Gaps of an hour, three minutes more or less, for bots; five and more for *)
(* the others, who post less between midnight and six                       *)
Draw(jitter, k) ==
  [base |-> 5 * Hour, night |-> 2 * Hour, jitter |-> jitter, text |-> IF k = 2 THEN "http://a.com" ELSE "good",
   post_type |-> <<"original", "reply", "repost">>[(k % 3) + 1], media_type |-> <<"none", "image">>[(k % 2) + 1],
   counts |-> Few(k), hashtags |-> <<>>, urls |-> <<>>]

MockBatch(username, botlike, limit, jitters) ==
  [source |-> "mock", username |-> username, botlike |-> botlike, post_limit |-> limit,
   timezone |-> "UTC", followers_count |-> 50, rows |-> [k \in 1..6 |-> Draw(jitters[k], k)]]

MockBatches ==
  {MockBatch("news_bot", TRUE, limit, jitters) : limit \in {5, 6, 7}, jitters \in [1..6 -> {-1, 0, 1}]}
  \cup {MockBatch(name, FALSE, 7, [k \in 1..6 |-> jitter]) :
           name \in {"sample_user", "empty_demo", "protected_demo"}, jitter \in {-1, 40}}

AllBatches ==
  MockBatches
  \cup {Batch(f, times) : f \in {"plain", "copies", "odd"}, times \in AllTimelines}
  \cup {Batch("tweets", times) : times \in {t \in AllTimelines : Len(t) <= MaxPosts}}
  \cup {Batch("broken", times) : times \in Multisets({1, 2}, 4)}
  \cup {Batch("mixed", HalfHours(Busy))}
=============================================================================
