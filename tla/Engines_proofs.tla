--------------------------- MODULE Engines_proofs ---------------------------
(***************************************************************************)
(* What the sources give is what the engines expect, and what each engine  *)
(* promises of the figures it makes of any posts.                           *)
(***************************************************************************)
EXTENDS PostSources, Engines, PatternScore, Posts_proofs

(* Posts as the engines take them *)
PostOK(p) ==
  /\ p.created_at \in Int
  /\ p.post_type \in PostTypes /\ p.media_type \in MediaTypes
  /\ p.counts \in [Counts -> Nat]
  /\ IsSeq(p.hashtags) /\ IsSeq(p.urls)

PostsOK(posts) == IsSeq(posts) /\ \A k \in DOMAIN posts : PostOK(posts[k])

(* A function on 1..m is a sequence of its values *)
LEMMA FunctionIsSeq ==
  ASSUME NEW m \in Nat, NEW f, f = [k \in 1..m |-> f[k]]
  PROVE  IsSeq(f) /\ DOMAIN f = 1..m /\ Len(f) = m
<1>1. DOMAIN f = 1..m OBVIOUS
<1>2. \A k \in 1..m : f[k] \in Range(f) BY <1>1 DEF Range
<1>3. f \in Seq(Range(f)) /\ Len(f) = m BY <1>1, <1>2
<1> QED BY <1>1, <1>3 DEF IsSeq

(* The numbers of a sequence's elements *)
LEMMA SeqDomain ==
  ASSUME NEW f, IsSeq(f)
  PROVE  /\ Len(f) \in Nat /\ DOMAIN f = 1..Len(f) /\ IsFiniteSet(DOMAIN f) /\ Size(f) = Len(f)
         /\ f = [k \in 1..Len(f) |-> f[k]]
<1>1. Len(f) \in Nat /\ DOMAIN f = 1..Len(f) /\ f = [k \in 1..Len(f) |-> f[k]] BY DEF IsSeq
<1> QED BY <1>1, SizeOfSequence

-----------------------------------------------------------------------------
(* What a file's row becomes, once nothing is wrong with it *)
LEMMA ImportedPostOK ==
  ASSUME NEW row, IsFileRow(row), Problem(row) = None
  PROVE  PostOK(ImportedPost(row))
<1> DEFINE p == ImportedPost(row)
           urls == OrElse(row.urls, UrlsIn[row.text])
<1>1. row.text # "" /\ row.created_at # None /\ \A c \in Counts : row.counts[c] # Inf
  <2>1. "VALIDATION_ERROR" # None /\ "INTERNAL_ERROR" # None
    BY SourcesAssumption DEF SourcesAssumption
  <2>2. row.text # "" /\ row.created_at # None BY <2>1 DEF Problem
  <2>3. CASE \E c \in Counts : row.counts[c] = Inf BY <2>1, <2>2, <2>3 DEF Problem
  <2> QED BY <2>2, <2>3
<1>2. p.created_at \in Int BY <1>1 DEF ImportedPost, IsFileRow
<1>3. p.post_type \in PostTypes /\ p.media_type \in MediaTypes
  BY DEF ImportedPost, choice, PostTypes, MediaTypes
<1>4. p.counts \in [Counts -> Nat]
  <2>1. \A c \in Counts : to_int(row.counts[c]) \in Nat
    <3> SUFFICES ASSUME NEW c \in Counts PROVE to_int(row.counts[c]) \in Nat
      OBVIOUS
    <3>1. row.counts[c] = Junk \/ row.counts[c] \in Int BY <1>1 DEF IsFileRow
    <3>2. ASSUME NEW v \in Int PROVE Max({0, v}) \in Nat BY MaxMinOfTwo
    <3> QED BY <3>1, <3>2 DEF to_int
  <2> QED BY <2>1 DEF ImportedPost
<1>5. IsSeq(p.hashtags) /\ IsSeq(p.urls) BY DEF ImportedPost, OrElse, IsFileRow, IsText
<1> QED BY <1>2, <1>3, <1>4, <1>5 DEF PostOK

(* The posts of a file *)
LEMMA ImportOK ==
  ASSUME NEW rows, IsSeq(rows), \A k \in DOMAIN rows : IsFileRow(rows[k])
  PROVE  PostsOK(parse_imported_posts(rows).posts)
<1> DEFINE bad == {k \in DOMAIN rows : Problem(rows[k]) # None}
           ps  == [k \in DOMAIN rows |-> ImportedPost(rows[k])]
<1>1. PostsOK(<<>>)
  <2>1. IsSeq(<<>>) /\ DOMAIN <<>> = {} BY DEF IsSeq, Range
  <2> QED BY <2>1 DEF PostsOK
<1>2. bad = {} => PostsOK(ps)
  <2> SUFFICES ASSUME bad = {} PROVE PostsOK(ps)
    OBVIOUS
  <2>1. \A k \in DOMAIN rows : PostOK(ps[k]) BY ImportedPostOK
  <2>2. Len(rows) \in Nat /\ ps = [k \in 1..Len(rows) |-> ps[k]] BY SeqDomain
  <2> HIDE DEF ps
  <2>3. IsSeq(ps) /\ DOMAIN ps = DOMAIN rows BY <2>2, FunctionIsSeq, SeqDomain
  <2> QED BY <2>1, <2>3 DEF PostsOK
<1>3. \/ parse_imported_posts(rows).posts = <<>>
      \/ bad = {} /\ parse_imported_posts(rows).posts = ps
  <2>1. CASE rows = <<>> BY <2>1 DEF parse_imported_posts
  <2>2. CASE rows # <<>> /\ bad # {} BY <2>2 DEF parse_imported_posts
  <2>3. CASE rows # <<>> /\ bad = {} BY <2>3 DEF parse_imported_posts
  <2> QED BY <2>1, <2>2, <2>3
<1> QED BY <1>1, <1>2, <1>3

(* The posts of the X API *)
LEMMA TweetsOK ==
  ASSUME NEW rows, IsSeq(rows), \A k \in DOMAIN rows : IsTweet(rows[k])
  PROVE  PostsOK(map_tweets(rows).posts)
<1> DEFINE ps == [k \in DOMAIN rows |-> map_tweet(rows[k])]
<1>1. ASSUME NEW raw, IsTweet(raw) PROVE PostOK(map_tweet(raw))
  <2> DEFINE p == map_tweet(raw)
  <2>1. p.created_at \in Int BY <1>1, SourcesAssumption DEF map_tweet, IsTweet, SourcesAssumption
  <2>2. p.post_type \in PostTypes BY DEF map_tweet, classify_type, PostTypes
  <2>3. p.media_type \in MediaTypes BY DEF map_tweet, classify_media, MediaTypes
  <2>4. p.counts \in [Counts -> Nat] /\ IsSeq(p.hashtags) /\ IsSeq(p.urls)
    BY <1>1 DEF map_tweet, IsTweet
  <2> QED BY <2>1, <2>2, <2>3, <2>4 DEF PostOK
<1>2. \A k \in DOMAIN rows : PostOK(ps[k]) BY <1>1
<1>3. Len(rows) \in Nat /\ ps = [k \in 1..Len(rows) |-> ps[k]] BY SeqDomain
<1>4. map_tweets(rows).posts = ps BY DEF map_tweets
<1> HIDE DEF ps
<1>5. IsSeq(ps) /\ DOMAIN ps = DOMAIN rows BY <1>3, FunctionIsSeq, SeqDomain
<1> QED BY <1>2, <1>4, <1>5 DEF PostsOK

(* What mock_posts says of the times it makes *)
MockTimes(at, m, draws, botlike) ==
  at = [k \in 0..m |-> IF k = 0 THEN Now ELSE at[k - 1] - mock_gap(draws[k], botlike, at[k - 1])]

(* There are such times, and they are numbers *)
LEMMA TimesExist ==
  ASSUME NEW m \in Nat, NEW draws, \A k \in 1..m : IsDraw(draws[k]), NEW botlike
  PROVE  \E at : MockTimes(at, m, draws, botlike) /\ \A k \in 0..m : at[k] \in Int
<1> DEFINE next(at, k) == IF k = 0 THEN Now ELSE at[k - 1] - mock_gap(draws[k], botlike, at[k - 1])
           G == {l \in Nat : l <= m => \E at : \A k \in 0..l : at[k] = next(at, k) /\ at[k] \in Int}
<1>1. \A k \in 1..m : \A x \in Int : mock_gap(draws[k], botlike, x) \in Int
  <2> SUFFICES ASSUME NEW k \in 1..m, NEW x \in Int PROVE mock_gap(draws[k], botlike, x) \in Int
    OBVIOUS
  <2>1. draws[k].base \in Int /\ draws[k].jitter \in Int /\ draws[k].night \in Int BY DEF IsDraw
  <2>2. Hour \in Int BY PostsAssumption DEF PostsAssumption
  <2> QED BY <2>1, <2>2 DEF mock_gap
<1>2. 0 \in G
  <2>1. \A k \in 0..0 : [x \in {0} |-> Now][k] = next([x \in {0} |-> Now], k)
                        /\ [x \in {0} |-> Now][k] \in Int
    BY SourcesAssumption DEF SourcesAssumption
  <2> QED BY <2>1
<1>3. ASSUME NEW l \in Nat, l \in G PROVE l + 1 \in G
  <2> SUFFICES ASSUME l + 1 <= m
               PROVE  \E at : \A k \in 0..(l + 1) : at[k] = next(at, k) /\ at[k] \in Int
    OBVIOUS
  <2>1. PICK at : \A k \in 0..l : at[k] = next(at, k) /\ at[k] \in Int BY <1>3
  <2> DEFINE on == [k \in 0..(l + 1) |-> IF k = l + 1 THEN next(at, k) ELSE at[k]]
  <2>2. ASSUME NEW k \in 0..(l + 1) PROVE on[k] = next(on, k) /\ on[k] \in Int
    <3>1. CASE k = 0 BY <2>1, <3>1
    <3>2. CASE k # 0 /\ k <= l
      <4>1. k \in 0..l /\ k - 1 \in 0..l BY <3>2
      <4>2. on[k] = at[k] /\ on[k - 1] = at[k - 1] BY <4>1
      <4> QED BY <2>1, <3>2, <4>1, <4>2
    <3>3. CASE k = l + 1
      <4>1. on[k] = next(at, k) /\ on[k - 1] = at[k - 1] /\ k - 1 \in 0..l BY <3>3
      <4>2. k \in 1..m /\ at[k - 1] \in Int BY <2>1, <3>3, <4>1
      <4>3. mock_gap(draws[k], botlike, at[k - 1]) \in Int BY <1>1, <4>2
      <4> QED BY <3>3, <4>1, <4>2, <4>3
    <3> QED BY <3>1, <3>2, <3>3
  <2> HIDE DEF on, next
  <2> QED BY <2>2
<1> HIDE DEF G
<1>4. m \in G BY <1>2, <1>3, NumberInduction
<1>5. PICK at : \A k \in 0..m : at[k] = next(at, k) /\ at[k] \in Int BY <1>4 DEF G
<1> DEFINE on == [k \in 0..m |-> at[k]]
<1>6. ASSUME NEW k \in 0..m PROVE on[k] = next(on, k) /\ on[k] \in Int
  <2>1. k # 0 => k - 1 \in 0..m /\ on[k - 1] = at[k - 1] OBVIOUS
  <2> QED BY <1>5, <2>1
<1>7. on = [k \in 0..m |-> next(on, k)] BY <1>6
<1>8. MockTimes(on, m, draws, botlike) BY <1>7 DEF MockTimes
<1> HIDE DEF on
<1> QED BY <1>6, <1>8

(* ps are posts made of draws at the times at[1], ..., at[m] *)
MadeOf(ps, m, at, draws, botlike) ==
  /\ m \in Nat /\ \A k \in 1..m : k \in DOMAIN draws
  /\ \A k \in 0..m : at[k] \in Int
  /\ \A k \in 1..m : at[k] = at[k - 1] - mock_gap(draws[k], botlike, at[k - 1])
  /\ ps = <<>> \/ ps = [k \in 1..m |-> mock_post(draws[k], at[k])]

(* The mock provider's posts are *)
LEMMA MockMakes ==
  ASSUME NEW draws, IsSeq(draws), \A k \in DOMAIN draws : IsDraw(draws[k]),
         NEW limit \in Nat, NEW botlike, NEW username
  PROVE  \E m, at : MadeOf(mock_posts(username, botlike, limit, draws).posts, m, at, draws, botlike)
<1> DEFINE m == IF username = "empty_demo" THEN 0 ELSE Min({limit, Len(draws)})
           P(f) == f = [k \in 0..m |-> IF k = 0 THEN Now
                                       ELSE f[k - 1] - mock_gap(draws[k], botlike, f[k - 1])]
           at == CHOOSE f : P(f)
           ps == [k \in 1..m |-> mock_post(draws[k], at[k])]
<1>1. mock_posts(username, botlike, limit, draws).posts = IF mock_error(username) # None THEN <<>> ELSE ps
  BY DEF mock_posts
<1>2. m \in Nat /\ \A k \in 1..m : k \in DOMAIN draws
  <2>1. Len(draws) \in Nat /\ DOMAIN draws = 1..Len(draws) BY SeqDomain
  <2>2. Min({limit, Len(draws)}) = IF limit <= Len(draws) THEN limit ELSE Len(draws)
    BY <2>1, MaxMinOfTwo
  <2>3. m \in Nat /\ m <= Len(draws) BY <2>1, <2>2
  <2> HIDE DEF m
  <2> QED BY <2>1, <2>3
<1>3. P(at) /\ \A k \in 0..m : at[k] \in Int
  <2> HIDE DEF m
  <2>1. PICK f : P(f) /\ \A k \in 0..m : f[k] \in Int
    <3>1. \A k \in 1..m : IsDraw(draws[k]) BY <1>2
    <3>2. PICK g : MockTimes(g, m, draws, botlike) /\ \A k \in 0..m : g[k] \in Int
      BY <1>2, <3>1, TimesExist
    <3>3. P(g) BY <3>2 DEF MockTimes
    <3> QED BY <3>2, <3>3
  <2>2. P(at) BY <2>1
  <2> HIDE DEF at
  <2> DEFINE G == {l \in Nat : l <= m => at[l] = f[l]}
  <2>3. 0 \in G
    <3>1. at[0] = Now /\ f[0] = Now BY <1>2, <2>1, <2>2
    <3> QED BY <3>1
  <2>4. ASSUME NEW l \in Nat, l \in G PROVE l + 1 \in G
    <3> SUFFICES ASSUME l + 1 <= m PROVE at[l + 1] = f[l + 1]
      OBVIOUS
    <3> DEFINE z == l + 1
    <3>1. at[z - 1] = f[z - 1] /\ z \in 0..m /\ z # 0 BY <1>2, <2>4
    <3> HIDE DEF z
    <3>2. at[z] = at[z - 1] - mock_gap(draws[z], botlike, at[z - 1]) BY <2>2, <3>1
    <3>3. f[z] = f[z - 1] - mock_gap(draws[z], botlike, f[z - 1]) BY <2>1, <3>1
    <3> QED BY <3>1, <3>2, <3>3 DEF z
  <2> HIDE DEF G, P
  <2>5. Nat \subseteq G BY <2>3, <2>4, NumberInduction
  <2>6. \A k \in 0..m : at[k] = f[k] BY <1>2, <2>5 DEF G
  <2> QED BY <2>1, <2>2, <2>6
<1>4. \A k \in 1..m : at[k] = at[k - 1] - mock_gap(draws[k], botlike, at[k - 1])
  <2> SUFFICES ASSUME NEW k \in 1..m PROVE at[k] = at[k - 1] - mock_gap(draws[k], botlike, at[k - 1])
    OBVIOUS
  <2> HIDE DEF m
  <2>1. k \in 0..m /\ k # 0 BY <1>2
  <2>2. at = [l \in 0..m |-> IF l = 0 THEN Now ELSE at[l - 1] - mock_gap(draws[l], botlike, at[l - 1])]
    BY <1>3
  <2> HIDE DEF at
  <2> QED BY <2>1, <2>2
<1> HIDE DEF m, at, P
<1>5. MadeOf(mock_posts(username, botlike, limit, draws).posts, m, at, draws, botlike)
  BY <1>1, <1>2, <1>3, <1>4 DEF MadeOf
<1> QED BY <1>5

(* ... and posts as the engines take them *)
LEMMA MockOK ==
  ASSUME NEW draws, IsSeq(draws), \A k \in DOMAIN draws : IsDraw(draws[k]),
         NEW limit \in Nat, NEW botlike, NEW username
  PROVE  PostsOK(mock_posts(username, botlike, limit, draws).posts)
<1> DEFINE ps == mock_posts(username, botlike, limit, draws).posts
<1>1. PICK m, at : MadeOf(ps, m, at, draws, botlike) BY MockMakes
<1>0. SUFFICES PostsOK(ps) OBVIOUS
<1> HIDE DEF ps
<1>2. CASE ps = <<>>
  <2>1. IsSeq(<<>>) /\ DOMAIN <<>> = {} BY DEF IsSeq, Range
  <2> QED BY <1>2, <2>1 DEF PostsOK
<1>3. CASE ps = [k \in 1..m |-> mock_post(draws[k], at[k])]
  <2>1. m \in Nat BY <1>1 DEF MadeOf
  <2>2. ps = [k \in 1..m |-> ps[k]] BY <1>3
  <2>3. IsSeq(ps) /\ DOMAIN ps = 1..m BY <2>1, <2>2, FunctionIsSeq
  <2>4. ASSUME NEW k \in 1..m PROVE PostOK(ps[k])
    <3>1. IsDraw(draws[k]) BY <1>1 DEF MadeOf
    <3>2. at[k] \in Int BY <1>1 DEF MadeOf
    <3>3. ps[k] = mock_post(draws[k], at[k]) BY <1>3
    <3> QED BY <3>1, <3>2, <3>3 DEF IsDraw, IsText, PostOK, mock_post, OrElse
  <2> QED BY <2>3, <2>4 DEF PostsOK
<1>4. ps = <<>> \/ ps = [k \in 1..m |-> mock_post(draws[k], at[k])] BY <1>1 DEF MadeOf
<1> QED BY <1>2, <1>3, <1>4

(* A bot posts once an hour, give or take a twentieth *)
LEMMA BotTimes ==
  ASSUME NEW ps, NEW m, NEW at, NEW draws, MadeOf(ps, m, at, draws, TRUE), ps # <<>>,
         \A k \in 1..m : IsBotDraw(draws[k])
  PROVE  /\ m \in Nat /\ DOMAIN ps = 1..m
         /\ \A k \in 1..m : ps[k].created_at \in Int
         /\ \A k \in 1..m : k + 1 <= m =>
              20 * (ps[k].created_at - ps[k + 1].created_at - Hour) \in -Hour..Hour
<1>1. m \in Nat /\ ps = [k \in 1..m |-> mock_post(draws[k], at[k])] BY DEF MadeOf
<1>2. \A k \in 1..m : ps[k].created_at = at[k] BY <1>1 DEF mock_post
<1>3. \A k \in 1..m : at[k] \in Int BY <1>1 DEF MadeOf
<1>4. ASSUME NEW k \in 1..m, k + 1 <= m
      PROVE  20 * (ps[k].created_at - ps[k + 1].created_at - Hour) \in -Hour..Hour
  <2> DEFINE l == k + 1
             x == draws[l].jitter
  <2>1. l \in 1..m /\ l - 1 = k BY <1>1, <1>4
  <2> HIDE DEF l
  <2>2. at[l] = at[k] - mock_gap(draws[l], TRUE, at[k]) BY <2>1 DEF MadeOf
  <2>3. mock_gap(draws[l], TRUE, at[k]) = Hour + x BY DEF mock_gap
  <2>4. x \in Int /\ 20 * x \in -Hour..Hour BY <2>1 DEF IsBotDraw, IsDraw
  <2>5. at[k] \in Int /\ at[l] \in Int /\ Hour \in Int
    BY <1>3, <2>1, PostsAssumption DEF PostsAssumption
  <2> HIDE DEF x
  <2>6. at[k] - at[l] - Hour = x
    <3>1. at[l] = at[k] - (Hour + x) BY <2>2, <2>3
    <3> QED BY <2>4, <2>5, <3>1
  <2>7. ps[k].created_at = at[k] /\ ps[l].created_at = at[l] BY <1>2, <2>1
  <2> QED BY <2>4, <2>6, <2>7 DEF l
<1> QED BY <1>1, <1>2, <1>3, <1>4

-----------------------------------------------------------------------------
(* The sentiment figures are functions of the posts that are analysed *)
SentimentOf(analyzed) ==
  LET score(p) == Compound[p.text]
      days     == [k \in DOMAIN analyzed |-> DateOf(analyzed[k].created_at)]
      by_tag   == Counter(Hashtags(analyzed))
      scored   == Size(analyzed) >= MIN_ANALYZABLE
  IN
  [counts  |-> [l \in {"positive", "neutral", "negative"} |->
                  CountWhere(analyzed, LAMBDA p : classify(score(p)) = l)],
   trend   |-> IF scored THEN Counter(days) ELSE <<>>,
   average |-> IF scored THEN Round(100 * SumOf(analyzed, score), Size(analyzed)) ELSE None,
   by_hashtag |-> IF scored THEN RestrictValues(by_tag, LAMBDA uses : uses >= 2) ELSE <<>>]

(* ... and of nothing else *)
LEMMA SentimentFields ==
  ASSUME NEW ps
  PROVE  /\ SentimentMetrics(ps).counts     = SentimentOf(Analyzed(ps)).counts
         /\ SentimentMetrics(ps).trend      = SentimentOf(Analyzed(ps)).trend
         /\ SentimentMetrics(ps).average    = SentimentOf(Analyzed(ps)).average
         /\ SentimentMetrics(ps).by_hashtag = SentimentOf(Analyzed(ps)).by_hashtag
         /\ SentimentMetrics(ps).analyzed_count = Size(Analyzed(ps))
         /\ SentimentMetrics(ps).skipped_unsupported = Size(ps) - Size(Analyzed(ps))
         /\ SentimentMetrics(ps).available = (Size(Analyzed(ps)) >= MIN_ANALYZABLE)
<1>1. SentimentMetrics(ps).counts = SentimentOf(Analyzed(ps)).counts
  BY DEF SentimentMetrics, SentimentOf
<1>2. SentimentMetrics(ps).trend = SentimentOf(Analyzed(ps)).trend
  BY DEF SentimentMetrics, SentimentOf
<1>3. SentimentMetrics(ps).average = SentimentOf(Analyzed(ps)).average
  BY DEF SentimentMetrics, SentimentOf
<1>4. SentimentMetrics(ps).by_hashtag = SentimentOf(Analyzed(ps)).by_hashtag
  BY DEF SentimentMetrics, SentimentOf
<1>5. SentimentMetrics(ps).analyzed_count = Size(Analyzed(ps)) BY DEF SentimentMetrics
<1>6. SentimentMetrics(ps).skipped_unsupported = Size(ps) - Size(Analyzed(ps))
  BY DEF SentimentMetrics
<1>7. SentimentMetrics(ps).available = (Size(Analyzed(ps)) >= MIN_ANALYZABLE)
  BY DEF SentimentMetrics
<1> QED BY <1>1, <1>2, <1>3, <1>4, <1>5, <1>6, <1>7

(* When no post is in a supported language, none is analysed *)
LEMMA UnsupportedMeansNone ==
  ASSUME NEW ps, IsFiniteSet(DOMAIN ps), SentimentMetrics(ps).reason = "unsupported_language"
  PROVE  Size(Analyzed(ps)) = 0
<1> DEFINE a == Analyzed(ps)
<1>1. DOMAIN a \in SUBSET DOMAIN ps BY DEF Analyzed, RestrictValues, Restrict
<1>2. IsFiniteSet(DOMAIN a) /\ Size(a) \in Nat /\ Size(ps) \in Nat
  BY <1>1, FS_Subset, SizeType
<1>3. SentimentMetrics(ps).reason =
        CASE Size(a) >= MIN_ANALYZABLE -> None
          [] ~(Size(a) >= MIN_ANALYZABLE) /\ Size(ps) - Size(a) >= Size(ps) -> "unsupported_language"
          [] OTHER -> "insufficient_english_posts"
  BY DEF SentimentMetrics
<1> HIDE DEF a
<1>4. CASE Size(a) >= MIN_ANALYZABLE
  BY <1>3, <1>4, EnginesAssumption DEF EnginesAssumption
<1>5. CASE ~(Size(a) >= MIN_ANALYZABLE)
  <2>1. Size(ps) - Size(a) >= Size(ps) BY <1>3, <1>5
  <2> QED BY <1>2, <2>1 DEF a
<1> QED BY <1>4, <1>5

(* The English posts alone are those that are analysed *)
LEMMA EnglishAlone ==
  ASSUME NEW ps
  PROVE  Analyzed(RestrictValues(ps, LAMBDA p : "en" \in {p.lang} \/ (p.lang = None /\ DetectedLang[p.text] = "en")))
           = Analyzed(ps)
<1> DEFINE English(p) == "en" \in {p.lang} \/ (p.lang = None /\ DetectedLang[p.text] = "en")
           A == {k \in DOMAIN ps : detect_lang(ps[k]) \in SUPPORTED_LANGUAGES}
           E == {k \in DOMAIN ps : English(ps[k])}
           alone == [k \in E |-> ps[k]]
<1>1. \A p : detect_lang(p) \in SUPPORTED_LANGUAGES <=> English(p)
  BY EnginesAssumption DEF EnginesAssumption, detect_lang, SUPPORTED_LANGUAGES
<1>2. RestrictValues(ps, LAMBDA p : "en" \in {p.lang} \/ (p.lang = None /\ DetectedLang[p.text] = "en")) = alone
  BY DEF RestrictValues, Restrict
<1>3. Analyzed(ps) = [k \in A |-> ps[k]] BY DEF Analyzed, RestrictValues, Restrict
<1>4. Analyzed(alone) = [k \in {l \in E : detect_lang(alone[l]) \in SUPPORTED_LANGUAGES} |-> alone[k]]
  BY DEF Analyzed, RestrictValues, Restrict
<1> HIDE DEF English
<1>5. A = E BY <1>1
<1>6. {l \in E : detect_lang(alone[l]) \in SUPPORTED_LANGUAGES} = E BY <1>1
<1>7. Analyzed(alone) = [k \in E |-> ps[k]] BY <1>4, <1>6
<1> QED BY <1>2, <1>3, <1>5, <1>7

-----------------------------------------------------------------------------
(* A counter's counts *)
LEMMA CounterType ==
  ASSUME NEW f, IsFiniteSet(DOMAIN f)
  PROVE  /\ DOMAIN Counter(f) = Range(f) /\ IsFiniteSet(Range(f))
         /\ \A x \in Range(f) : /\ Counter(f)[x] = Cardinality({k \in DOMAIN f : f[k] = x})
                                /\ Counter(f)[x] \in Nat
<1>1. IsFiniteSet(Range(f)) BY FiniteRange
<1>2. \A x \in Range(f) : Counter(f)[x] = Cardinality({k \in DOMAIN f : f[k] = x})
  BY DEF Counter, CountWhere
<1>3. DOMAIN Counter(f) = Range(f) BY DEF Counter
<1>4. \A x : Cardinality({k \in DOMAIN f : f[k] = x}) \in Nat
  <2> SUFFICES ASSUME NEW x PROVE Cardinality({k \in DOMAIN f : f[k] = x}) \in Nat
    OBVIOUS
  <2>1. IsFiniteSet({k \in DOMAIN f : f[k] = x}) BY FS_Subset
  <2> QED BY <2>1, FS_CardinalityType
<1> QED BY <1>1, <1>2, <1>3, <1>4

(* The top of finitely many numbers *)
LEMMA TopType ==
  ASSUME NEW c, IsFiniteSet(DOMAIN c), \A x \in DOMAIN c : c[x] \in Nat
  PROVE  Top(c) \in Nat /\ \A x \in DOMAIN c : c[x] <= Top(c)
<1> DEFINE S == {0} \cup Range(c)
<1>1. IsFiniteSet(Range(c)) BY FiniteRange
<1>2. IsFiniteSet(S) BY <1>1, FS_AddElement, FS_EmptySet, FS_Union, FS_Singleton
<1>3. S \in SUBSET Int /\ S # {} /\ \A y \in S : y \in Nat BY DEF Range
<1>4. Top(c) = Max(S) BY DEF Top
<1>5. \A x \in DOMAIN c : c[x] \in S BY DEF Range
<1> HIDE DEF S
<1>6. Max(S) \in S /\ \A y \in S : y <= Max(S) BY <1>2, <1>3, GreatestIsIn
<1> QED BY <1>3, <1>4, <1>5, <1>6

(* The uses of tags and links are finitely many *)
LEMMA UsesFinite ==
  ASSUME NEW S, IsFiniteSet(S), NEW d, \A k \in S : IsFiniteSet(d[k])
  PROVE  IsFiniteSet(UNION {{k} \X d[k] : k \in S})
<1> DEFINE h == [k \in S |-> {k} \X d[k]]
           U == {h[k] : k \in S}
<1>1. IsFiniteSet(U)
  <2> HIDE DEF h
  <2> QED BY FiniteImage
<1>2. \A k \in S : IsFiniteSet({k} \X d[k])
  <2> SUFFICES ASSUME NEW k \in S PROVE IsFiniteSet({k} \X d[k])
    OBVIOUS
  <2>1. IsFiniteSet({k}) BY FS_Singleton
  <2> QED BY <2>1, FS_Product
<1>3. \A u \in U : IsFiniteSet(u) BY <1>2
<1>4. U = {{k} \X d[k] : k \in S} OBVIOUS
<1> HIDE DEF U, h
<1>5. IsFiniteSet(UNION U) BY <1>1, <1>3, FS_UNION
<1> QED BY <1>4, <1>5

(* The content engine's counters *)
LEMMA HashtagUses ==
  ASSUME NEW ps, IsFiniteSet(DOMAIN ps), \A k \in DOMAIN ps : IsSeq(ps[k].hashtags)
  PROVE  IsFiniteSet(DOMAIN Hashtags(ps))
<1> DEFINE d == [k \in DOMAIN ps |-> DOMAIN ps[k].hashtags]
<1>1. \A k \in DOMAIN ps : IsFiniteSet(d[k]) BY SeqDomain
<1>2. IsFiniteSet(UNION {{k} \X d[k] : k \in DOMAIN ps})
  <2> HIDE DEF d
  <2> QED BY <1>1, UsesFinite
<1>3. UNION {{k} \X d[k] : k \in DOMAIN ps} = UNION {{k} \X DOMAIN ps[k].hashtags : k \in DOMAIN ps}
  OBVIOUS
<1>4. DOMAIN Hashtags(ps) = UNION {{k} \X DOMAIN ps[k].hashtags : k \in DOMAIN ps}
  BY DEF Hashtags
<1> QED BY <1>2, <1>3, <1>4

(* Links likewise *)
LEMMA DomainUses ==
  ASSUME NEW ps, IsFiniteSet(DOMAIN ps), \A k \in DOMAIN ps : IsSeq(ps[k].urls)
  PROVE  IsFiniteSet(DOMAIN Domains(ps))
<1> DEFINE d == [k \in DOMAIN ps |-> DOMAIN ps[k].urls]
           U == UNION {{k} \X DOMAIN ps[k].urls : k \in DOMAIN ps}
<1>1. \A k \in DOMAIN ps : IsFiniteSet(d[k]) BY SeqDomain
<1>2. IsFiniteSet(UNION {{k} \X d[k] : k \in DOMAIN ps})
  <2> HIDE DEF d
  <2> QED BY <1>1, UsesFinite
<1>3. UNION {{k} \X d[k] : k \in DOMAIN ps} = U OBVIOUS
<1>4. DOMAIN Domains(ps) \in SUBSET U
  BY DEF Domains, RestrictValues, Restrict
<1> QED BY <1>2, <1>3, <1>4, FS_Subset

(* The figures of the content engine *)
LEMMA ContentFields ==
  ASSUME NEW ps, PostsOK(ps), Len(ps) > 0
  PROVE  LET content == ContentMetrics(ps) IN
         /\ content.post_count = Size(ps) /\ content.media_usage = MediaUsage(ps)
         /\ content.hashtags = Counter(Hashtags(ps))
         /\ content.duplicate_ratio \in Int
         /\ Top(content.domains) \in Nat /\ Top(content.hashtags) \in Nat
<1> DEFINE content == ContentMetrics(ps)
           groups == DuplicateGroups(ps)
           texts == [k \in DOMAIN ps |-> Normalized[ps[k].text]]
<1>1. IsFiniteSet(DOMAIN ps) /\ Size(ps) = Len(ps) /\ Size(ps) \in Nat \ {0}
  BY SeqDomain DEF PostsOK
<1>2. Top(Counter(Hashtags(ps))) \in Nat
  <2>1. IsFiniteSet(DOMAIN Hashtags(ps)) BY <1>1, HashtagUses DEF PostsOK, PostOK
  <2> QED BY <2>1, CounterType, TopType
<1>3. Top(Counter(Domains(ps))) \in Nat
  <2>1. IsFiniteSet(DOMAIN Domains(ps)) BY <1>1, DomainUses DEF PostsOK, PostOK
  <2> QED BY <2>1, CounterType, TopType
<1>4. Total(groups) - Cardinality(DOMAIN groups) \in Int
  <2>1. IsFiniteSet(DOMAIN texts) BY <1>1
  <2>2. /\ DOMAIN groups \in SUBSET DOMAIN Counter(texts)
        /\ \A t \in DOMAIN groups : groups[t] = Counter(texts)[t]
    BY DEF DuplicateGroups
  <2> HIDE DEF groups, texts
  <2>6. /\ IsFiniteSet(DOMAIN Counter(texts))
        /\ \A t \in DOMAIN Counter(texts) : Counter(texts)[t] \in Nat
    BY <2>1, CounterType
  <2>3. IsFiniteSet(DOMAIN groups) /\ \A t \in DOMAIN groups : groups[t] \in Int
    <3>1. IsFiniteSet(DOMAIN groups) BY <2>2, <2>6, FS_Subset
    <3>2. \A t \in DOMAIN groups : groups[t] \in Int BY <2>2, <2>6
    <3> QED BY <3>1, <3>2
  <2>4. Total(groups) \in Int BY <2>3, SumType, TotalIs
  <2>5. Cardinality(DOMAIN groups) \in Nat BY <2>3, FS_CardinalityType
  <2> QED BY <2>4, <2>5
<1>5. content.duplicate_ratio = Round(1000 * (Total(groups) - Cardinality(DOMAIN groups)), Size(ps))
  BY DEF ContentMetrics
<1>6. content.duplicate_ratio \in Int
  <2> HIDE DEF groups, content
  <2> QED BY <1>1, <1>4, <1>5, RoundNear
<1>7. /\ content.post_count = Size(ps) /\ content.media_usage = MediaUsage(ps)
      /\ content.hashtags = Counter(Hashtags(ps)) /\ content.domains = Counter(Domains(ps))
  BY DEF ContentMetrics
<1> QED BY <1>2, <1>3, <1>6, <1>7

-----------------------------------------------------------------------------
(* A share of its maximum is at most that, and what clamping and rounding   *)
(* leave of the fraction                                                    *)
LEMMA ShareWithin ==
  ASSUME NEW max \in Nat, NEW a \in Int, NEW b \in Nat \ {0}
  PROVE  /\ Share(max, a, b) \in 0..max /\ Clamp(a, 0, b) \in 0..b
         /\ Clamp(a, 0, b) = IF a < 0 THEN 0 ELSE IF a > b THEN b ELSE a
         /\ 2 * (b * Share(max, a, b) - max * Clamp(a, 0, b)) \in -b..b
<1> DEFINE c == Clamp(a, 0, b)
<1>1. c \in 0..b /\ c = IF a < 0 THEN 0 ELSE IF a > b THEN b ELSE a BY ClampIs
<1> HIDE DEF c
<1>2. max * c \in 0..(max * b)
  <2>1. max * c >= 0 BY <1>1
  <2>2. max * c <= max * b BY <1>1
  <2> QED BY <1>1, <2>1, <2>2
<1>3. max * c \in Int BY <1>2
<1>4. Round(max * c, b) \in 0..max /\ 2 * (b * Round(max * c, b) - max * c) \in -b..b
  BY <1>2, <1>3, RoundWithin, RoundNear
<1>5. Share(max, a, b) = Round(max * c, b) BY DEF Share, c
<1> QED BY <1>1, <1>4, <1>5 DEF c

(* The days of a report, and its share of days with a post *)
LEMMA ActiveRatioWithin ==
  ASSUME NEW active \in Nat, NEW total \in Nat \ {0}
  PROVE  ActiveDayRatio(active, total) \in 0..1000
<1>1. Min({active, total}) \in 0..total BY MaxMinOfTwo
<1> DEFINE a == Min({active, total})
<1> HIDE DEF a
<1>2. a \in 0..total BY <1>1 DEF a
<1> DEFINE m == 1000
<1>3. m \in Nat /\ m * a \in 0..(m * total) BY <1>2
<1> HIDE DEF m
<1>4. Round(m * a, total) \in 0..m BY <1>3, RoundWithin
<1> QED BY <1>4 DEF ActiveDayRatio, a, m

(* The days between the first and the last of ascending times *)
LEMMA SpanType ==
  ASSUME NEW ps, PostsOK(ps), Len(ps) > 0
  PROVE  LET times == TimesOf(ps) IN
         /\ Len(times) = Len(ps) /\ Span(times) \in Nat /\ TotalDays(times) \in Nat \ {0}
         /\ TotalDays(times) = Span(times) \div Day + 1 /\ Span(times) \div Day \in Nat
         /\ \A k \in DOMAIN ps : times[1] <= ps[k].created_at /\ ps[k].created_at <= times[Len(times)]
         /\ times[1] \in Int /\ times[Len(times)] \in Int
<1> DEFINE f == [k \in DOMAIN ps |-> ps[k].created_at]
           times == Sorted(f)
<1>1. IsFiniteSet(DOMAIN ps) /\ Size(ps) = Len(ps) /\ Len(ps) \in Nat /\ DOMAIN ps = 1..Len(ps)
  BY SeqDomain DEF PostsOK
<1>2. Numbers(f) /\ Size(f) = Len(ps) /\ DOMAIN f = DOMAIN ps
  BY <1>1 DEF Numbers, PostsOK, PostOK, Size
<1>3. TimesOf(ps) = times BY DEF TimesOf
<1>4. Len(times) = Len(ps) /\ \A k \in 1..Len(ps) : times[k] \in Int
  BY <1>2, SortedAscends
<1>5. \A k \in DOMAIN ps : times[1] <= f[k] /\ f[k] <= times[Len(ps)]
  BY <1>2, SortedEnds
<1>6. \A k \in DOMAIN ps : f[k] = ps[k].created_at OBVIOUS
<1> DEFINE span == Span(times)
<1> HIDE DEF f, times
<1>7. 1 \in DOMAIN ps /\ f[1] \in Int BY <1>1, <1>2 DEF Numbers
<1>8. times[1] \in Int /\ times[Len(ps)] \in Int BY <1>1, <1>4, <1>7
<1>9. span \in Nat BY <1>4, <1>5, <1>7, <1>8 DEF Span
<1>10. span \div Day \in Nat
  <2>1. Day \in Nat \ {0} BY PostsAssumption DEF PostsAssumption, Day
  <2> QED BY <1>9, <2>1, QuotientNotNegative
<1>11. TotalDays(times) = span \div Day + 1
  <2>1. Max({1, span \div Day + 1}) = span \div Day + 1 BY <1>10, MaxMinOfTwo
  <2> QED BY <2>1 DEF TotalDays
<1>12. TotalDays(times) \in Nat \ {0} BY <1>10, <1>11
<1> QED BY <1>3, <1>4, <1>5, <1>6, <1>8, <1>9, <1>10, <1>11, <1>12

(* The local days of a report are finitely many *)
LEMMA ActiveDaysType ==
  ASSUME NEW ps, PostsOK(ps), NEW tz_name
  PROVE  /\ DOMAIN LocalTimes(ps, tz_name) = DOMAIN ps
         /\ \A k \in DOMAIN ps : LocalTimes(ps, tz_name)[k] \in Int
         /\ ActiveDays(ps, tz_name) = {DateOf(LocalTimes(ps, tz_name)[k]) : k \in DOMAIN ps}
         /\ ActiveDays(ps, tz_name) \in SUBSET Int
         /\ IsFiniteSet(ActiveDays(ps, tz_name)) /\ Cardinality(ActiveDays(ps, tz_name)) \in Nat
<1> DEFINE local == LocalTimes(ps, tz_name)
           days == [k \in DOMAIN ps |-> DateOf(local[k])]
<1>1. DOMAIN local = DOMAIN ps /\ \A k \in DOMAIN ps : local[k] = astimezone(ps[k].created_at, tz_name)
  BY DEF LocalTimes
<1>2. ASSUME NEW at \in Int PROVE astimezone(at, tz_name) \in Int
  BY <1>2, PostsAssumption DEF PostsAssumption, astimezone, resolve_tz
<1>3. \A k \in DOMAIN ps : local[k] \in Int BY <1>1, <1>2 DEF PostsOK, PostOK
<1>4. ActiveDays(ps, tz_name) = {DateOf(local[k]) : k \in DOMAIN ps}
  BY <1>1 DEF ActiveDays, Range
<1>5. {days[k] : k \in DOMAIN ps} = {DateOf(local[k]) : k \in DOMAIN ps} OBVIOUS
<1>6. IsFiniteSet({days[k] : k \in DOMAIN ps})
  <2> HIDE DEF days
  <2>1. IsFiniteSet(DOMAIN ps) BY SeqDomain DEF PostsOK
  <2> QED BY <2>1, FiniteImage
<1>7. \A at \in Int : DateOf(at) \in Int
  <2>1. Day \in Nat \ {0} BY PostsAssumption DEF PostsAssumption, Day
  <2> QED BY <2>1 DEF DateOf
<1> HIDE DEF local, days
<1>8. ActiveDays(ps, tz_name) \in SUBSET Int BY <1>3, <1>4, <1>7
<1>9. IsFiniteSet(ActiveDays(ps, tz_name)) BY <1>4, <1>5, <1>6
<1>10. Cardinality(ActiveDays(ps, tz_name)) \in Nat BY <1>9, FS_CardinalityType
<1> QED BY <1>1, <1>3, <1>4, <1>8, <1>9, <1>10 DEF local

-----------------------------------------------------------------------------
(* The distributions of the activity engine *)
ByHour(ps, tz_name) ==
  [h \in 0..23 |-> Cardinality({k \in DOMAIN ps : HourOf(LocalTimes(ps, tz_name)[k]) = h})]
ByWeekday(ps, tz_name) ==
  [d \in 0..6 |-> Cardinality({k \in DOMAIN ps : WeekdayOf(LocalTimes(ps, tz_name)[k]) = d})]
ByPostType(ps) == [t \in PostTypes |-> Cardinality({k \in DOMAIN ps : ps[k].post_type = t})]
ByMediaType(ps) == [t \in MediaTypes |-> Cardinality({k \in DOMAIN ps : ps[k].media_type = t})]

(* Those are its distributions, and media_usage is the content engine's *)
LEMMA ActivityCounts ==
  ASSUME NEW ps, NEW tz_name, NEW burst_count
  PROVE  /\ ActivityMetrics(ps, tz_name, burst_count).hourly_distribution = ByHour(ps, tz_name)
         /\ ActivityMetrics(ps, tz_name, burst_count).weekly_distribution = ByWeekday(ps, tz_name)
         /\ ActivityMetrics(ps, tz_name, burst_count).composition = ByPostType(ps)
         /\ MediaUsage(ps) = ByMediaType(ps)
<1> DEFINE of == ActivityMetrics(ps, tz_name, burst_count)
           local == LocalTimes(ps, tz_name)
<1>1. DOMAIN local = DOMAIN ps BY DEF LocalTimes
<1>2. of.hourly_distribution = [h \in 0..23 |-> CountWhere(local, LAMBDA lt : HourOf(lt) = h)]
  BY DEF ActivityMetrics
<1>3. of.weekly_distribution = [d \in 0..6 |-> CountWhere(local, LAMBDA lt : WeekdayOf(lt) = d)]
  BY DEF ActivityMetrics
<1>4. of.composition = [t \in PostTypes |-> CountWhere(ps, LAMBDA p : p.post_type = t)]
  BY DEF ActivityMetrics
<1>5. MediaUsage(ps) = ByMediaType(ps) BY DEF MediaUsage, CountWhere, ByMediaType
<1> HIDE DEF of, local
<1>6. of.hourly_distribution = ByHour(ps, tz_name) BY <1>1, <1>2 DEF CountWhere, ByHour, local
<1>7. of.weekly_distribution = ByWeekday(ps, tz_name) BY <1>1, <1>3 DEF CountWhere, ByWeekday, local
<1>8. of.composition = ByPostType(ps) BY <1>4 DEF CountWhere, ByPostType
<1> QED BY <1>5, <1>6, <1>7, <1>8 DEF of

(* What the score is computed from, whatever the posts *)
ScoredActivity(activity) ==
  /\ activity.post_count \in Nat \ {0} /\ activity.posts_per_day \in Int
  /\ activity.active_day_ratio \in 0..1000 /\ activity.composition["repost"] \in Nat

ScoredContent(content, m) ==
  /\ content.post_count = m /\ content.duplicate_ratio \in Int
  /\ Top(content.domains) \in Nat /\ Top(content.hashtags) \in Nat

(* The figures of the activity engine that the score is made of *)
LEMMA ActivityFields ==
  ASSUME NEW ps, PostsOK(ps), Len(ps) > 0, NEW tz_name, NEW burst_count
  PROVE  /\ ActivityMetrics(ps, tz_name, burst_count).active_day_ratio
              = ActiveDayRatio(Cardinality(ActiveDays(ps, tz_name)), TotalDays(TimesOf(ps)))
         /\ ActivityMetrics(ps, tz_name, burst_count).post_count = Len(ps)
         /\ ScoredActivity(ActivityMetrics(ps, tz_name, burst_count))
<1> DEFINE of == ActivityMetrics(ps, tz_name, burst_count)
           times == TimesOf(ps)
<1>0. Size(ps) = Len(ps) /\ Len(ps) \in Nat BY SeqDomain DEF PostsOK
<1>1. of.post_count = Size(ps) BY DEF ActivityMetrics
<1>2. of.posts_per_day = PostsPerDay(times) BY DEF ActivityMetrics
<1>3. of.active_day_ratio = ActiveDayRatio(Cardinality(ActiveDays(ps, tz_name)), TotalDays(times))
  BY DEF ActivityMetrics
<1>6. of.composition = [t \in PostTypes |-> CountWhere(ps, LAMBDA p : p.post_type = t)]
  BY DEF ActivityMetrics
<1> HIDE DEF of
<1>7. of.active_day_ratio \in 0..1000
  <2> DEFINE total == TotalDays(times)
             active == Cardinality(ActiveDays(ps, tz_name))
  <2>1. total \in Nat \ {0} BY SpanType
  <2>2. active \in Nat BY ActiveDaysType
  <2>3. of.active_day_ratio = ActiveDayRatio(active, total) BY <1>3
  <2> HIDE DEF total, active, times
  <2>4. ActiveDayRatio(active, total) \in 0..1000 BY <2>1, <2>2, ActiveRatioWithin, ZenonT(30)
  <2> QED BY <2>3, <2>4
<1>8. of.posts_per_day \in Int
  <2> DEFINE m == Len(times)
             s == Span(times)
             d == Max({s, Hour})
  <2>1. m \in Nat /\ s \in Nat BY SpanType, SeqDomain DEF PostsOK
  <2>2. Hour \in Nat \ {0} BY PostsAssumption DEF PostsAssumption
  <2>3. d \in Nat \ {0} BY <2>1, <2>2, MaxMinOfTwo
  <2>4. 1000 * m * Day \in Int BY <2>1, <2>2 DEF Day
  <2>5. PostsPerDay(times) = IF s = 0 THEN 1000 * m ELSE Round(1000 * m * Day, d)
    BY DEF PostsPerDay
  <2> HIDE DEF m, s, d
  <2>6. Round(1000 * m * Day, d) \in Int BY <2>3, <2>4, RoundNear
  <2> QED BY <1>2, <2>1, <2>5, <2>6
<1>9. \A t \in PostTypes : of.composition[t] \in Nat
  <2> SUFFICES ASSUME NEW t \in PostTypes PROVE Cardinality({k \in DOMAIN ps : ps[k].post_type = t}) \in Nat
    BY <1>6 DEF CountWhere
  <2>1. IsFiniteSet({k \in DOMAIN ps : ps[k].post_type = t}) BY SeqDomain, FS_Subset DEF PostsOK
  <2> QED BY <2>1, FS_CardinalityType
<1>10. "repost" \in PostTypes BY DEF PostTypes
<1> QED BY <1>0, <1>1, <1>3, <1>7, <1>8, <1>9, <1>10 DEF ScoredActivity, of

(* The hours of the day with a post *)
LEMMA ActiveHoursWithin ==
  ASSUME NEW activity
  PROVE  active_hours(activity) \in 0..24
<1> DEFINE S == {h \in 0..23 : activity.hourly_distribution[h] > 0}
<1> DEFINE last == 23
<1>0. last \in Int /\ last = 23 OBVIOUS
<1>a. last \in Int /\ last >= 0 OBVIOUS
<1> HIDE DEF last
<1>1. IsFiniteSet(0..last) /\ Cardinality(0..last) = last + 1 BY <1>a, FS_Interval
<1>2. S \in SUBSET (0..last) BY <1>0
<1> HIDE DEF S
<1>3. IsFiniteSet(S) /\ Cardinality(S) <= last + 1 BY <1>1, <1>2, FS_Subset
<1>4. Cardinality(S) \in Nat BY <1>3, FS_CardinalityType
<1> QED BY <1>0, <1>3, <1>4 DEF active_hours, S

(* The figures of posts are such *)
LEMMA FiguresScored ==
  ASSUME NEW ps, PostsOK(ps), Len(ps) > 0, NEW tz_name, NEW burst_count
  PROVE  /\ ScoredActivity(ActivityMetrics(ps, tz_name, burst_count))
         /\ ActivityMetrics(ps, tz_name, burst_count).post_count = Len(ps)
         /\ ScoredContent(ContentMetrics(ps), Len(ps))
<1> DEFINE c == ContentMetrics(ps)
<1>1. Size(ps) = Len(ps) /\ Len(ps) \in Nat BY SeqDomain DEF PostsOK
<1>3. /\ c.post_count = Size(ps) /\ c.duplicate_ratio \in Int
      /\ Top(c.domains) \in Nat /\ Top(c.hashtags) \in Nat
  BY ContentFields
<1>4. ScoredContent(c, Len(ps))
  <2> HIDE DEF c
  <2> QED BY <1>1, <1>3 DEF ScoredContent
<1> QED BY <1>4, ActivityFields

(* The coefficient of variation of the gaps between posts *)
LEMMA GapsVary ==
  ASSUME NEW ps, PostsOK(ps)
  PROVE  CV(GapsOf(TimesOf(ps))) \in Nat /\ Len(GapsOf(TimesOf(ps))) \in Nat
<1> DEFINE f == [k \in DOMAIN ps |-> ps[k].created_at]
           times == Sorted(f)
           gaps == GapsOf(times)
           m == Len(times) - 1
<1>1. IsFiniteSet(DOMAIN ps) BY SeqDomain DEF PostsOK
<1>2. Numbers(f) BY <1>1 DEF Numbers, PostsOK, PostOK
<1>3. TimesOf(ps) = times BY DEF TimesOf
<1> HIDE DEF f
<1>4. Len(times) \in Nat /\ \A k \in 1..Len(times) : times[k] \in Int BY <1>2, SortedAscends
<1> HIDE DEF times
<1>5. DOMAIN gaps = 1..m /\ \A k \in 1..m : gaps[k] = times[k + 1] - times[k] BY DEF GapsOf
<1>6. IsFiniteSet(1..m) BY <1>4, FS_Interval
<1>7. \A k \in 1..m : gaps[k] \in Int BY <1>4, <1>5
<1>8. Numbers(gaps) BY <1>5, <1>6, <1>7 DEF Numbers
<1>9. Len(gaps) \in Nat
  <2>1. CASE m >= 0
    <3>1. m \in Nat /\ gaps = [k \in 1..m |-> gaps[k]] BY <1>4, <2>1 DEF GapsOf
    <3> HIDE DEF gaps, m
    <3> QED BY <3>1, FunctionIsSeq
  <2>2. CASE m < 0
    <3>1. m \in Int /\ 1..m = 1..0 BY <1>4, <2>2
    <3>2. gaps = [k \in 1..0 |-> gaps[k]] BY <3>1 DEF GapsOf
    <3> HIDE DEF gaps, m
    <3> QED BY <3>2, FunctionIsSeq
  <2> QED BY <1>4, <2>1, <2>2
<1> QED BY <1>3, <1>8, <1>9, CVType

(* No component of the score exceeds its maximum *)
LEMMA ComponentsWithin ==
  ASSUME NEW ps, PostsOK(ps), NEW activity, ScoredActivity(activity),
         NEW content, ScoredContent(content, activity.post_count)
  PROVE  /\ score_frequency(activity) \in 0..2000 /\ score_regularity(ps) \in 0..2000
         /\ score_duplicate(content) \in 0..2000 /\ score_continuous(activity) \in 0..1500
         /\ score_repeated_links(content) \in 0..1500 /\ score_reply_repost(activity) \in 0..1000
<1>1. score_frequency(activity) \in 0..2000
  <2> DEFINE max == 2000
             a == activity.posts_per_day - 5000
             b == 45000
  <2>1. max \in Nat /\ a \in Int /\ b \in Nat \ {0} BY DEF ScoredActivity
  <2>2. score_frequency(activity) = Share(max, a, b) BY DEF score_frequency
  <2> HIDE DEF max, a, b
  <2>3. Share(max, a, b) \in 0..max BY <2>1, ShareWithin
  <2> QED BY <2>2, <2>3 DEF max
<1>2. score_regularity(ps) \in 0..2000
  <2> DEFINE gaps == GapsOf(TimesOf(ps))
             max == 2000
             a == 100 - CV(gaps)
             b == 85
  <2>1. max \in Nat /\ a \in Int /\ b \in Nat \ {0} /\ Len(gaps) \in Nat BY GapsVary
  <2>2. score_regularity(ps) = IF Len(gaps) < regularity_min_posts - 1 THEN 0 ELSE Share(max, a, b)
    BY DEF score_regularity
  <2> HIDE DEF gaps, max, a, b
  <2>3. Share(max, a, b) \in 0..max BY <2>1, ShareWithin
  <2> QED BY <2>2, <2>3 DEF max
<1>3. score_duplicate(content) \in 0..2000
  <2> DEFINE max == 2000
             a == 2 * content.duplicate_ratio
             b == 1000
  <2>1. max \in Nat /\ a \in Int /\ b \in Nat \ {0} BY DEF ScoredContent
  <2>2. score_duplicate(content) = Share(max, a, b) BY DEF score_duplicate
  <2> HIDE DEF max, a, b
  <2>3. Share(max, a, b) \in 0..max BY <2>1, ShareWithin
  <2> QED BY <2>2, <2>3 DEF max
<1>4. score_continuous(activity) \in 0..1500
  <2> DEFINE r == activity.active_day_ratio
             h == active_hours(activity)
             c == 24 * r + 1000 * h
             a == 1500 * c
             m == 1500
             b == 48000
  <2>1. r \in 0..1000 /\ h \in 0..24 BY ActiveHoursWithin DEF ScoredActivity
  <2>2. score_continuous(activity) = Round(a, b) BY DEF score_continuous
  <2> HIDE DEF r, h
  <2> DEFINE days == 24 * r
             hours == 1000 * h
  <2>8. days \in Int /\ 0 <= days /\ days <= 24000 BY <2>1
  <2>9. hours \in Int /\ 0 <= hours /\ hours <= 24000 BY <2>1
  <2>10. c = days + hours OBVIOUS
  <2> HIDE DEF days, hours, c
  <2>3. c \in Int /\ 0 <= c /\ c <= 48000 BY <2>8, <2>9, <2>10
  <2>4. a \in Int /\ 0 <= a /\ a <= 72000000 BY <2>3
  <2>7. m \in Nat /\ b \in Nat \ {0} /\ m * b = 72000000 OBVIOUS
  <2> HIDE DEF a, m, b
  <2>5. a \in 0..(m * b) BY <2>4, <2>7
  <2>6. Round(a, b) \in 0..m BY <2>5, <2>7, RoundWithin
  <2> QED BY <2>2, <2>6 DEF m
<1>5. score_repeated_links(content) \in 0..1500
  <2> DEFINE max == 1500
             a == 2 * Max({Top(content.domains), Top(content.hashtags)})
             b == content.post_count
  <2>1. max \in Nat /\ a \in Int /\ b \in Nat \ {0}
    BY MaxMinOfTwo DEF ScoredActivity, ScoredContent
  <2>2. score_repeated_links(content) = Share(max, a, b) BY DEF score_repeated_links
  <2> HIDE DEF max, a, b
  <2>3. Share(max, a, b) \in 0..max BY <2>1, ShareWithin
  <2> QED BY <2>2, <2>3 DEF max
<1>6. score_reply_repost(activity) \in 0..1000
  <2> DEFINE max == 1000
             a == 10 * activity.composition["repost"] - 2 * activity.post_count
             b == 5 * activity.post_count
  <2>1. max \in Nat /\ a \in Int /\ b \in Nat \ {0} BY DEF ScoredActivity
  <2>2. score_reply_repost(activity) = Share(max, a, b) BY DEF score_reply_repost
  <2> HIDE DEF max, a, b
  <2>3. Share(max, a, b) \in 0..max BY <2>1, ShareWithin
  <2> QED BY <2>2, <2>3 DEF max
<1> QED BY <1>1, <1>2, <1>3, <1>4, <1>5, <1>6

-----------------------------------------------------------------------------
(* The sum of a record of one number for each component *)
LEMMA SixComponents ==
  ASSUME NEW c, \A x \in DOMAIN max_points : c[x] \in Int
  PROVE  SumOver(c, DOMAIN max_points) =
           c["posting_frequency"] + c["regular_intervals"] + c["duplicate_content"]
             + c["continuous_daily_activity"] + c["repeated_links_hashtags"]
             + c["reply_repost_concentration"]
<1> DEFINE s0 == {}
           s1 == s0 \cup {"posting_frequency"}
           s2 == s1 \cup {"regular_intervals"}
           s3 == s2 \cup {"duplicate_content"}
           s4 == s3 \cup {"continuous_daily_activity"}
           s5 == s4 \cup {"repeated_links_hashtags"}
           s6 == s5 \cup {"reply_repost_concentration"}
<1>1. DOMAIN max_points = s6 BY DEF max_points
<1>3. /\ "posting_frequency" \notin s0
      /\ "regular_intervals" \notin s1 /\ "duplicate_content" \notin s2
      /\ "continuous_daily_activity" \notin s3 /\ "repeated_links_hashtags" \notin s4
      /\ "reply_repost_concentration" \notin s5
  OBVIOUS
<1>4. \A x \in s6 : c[x] \in Int BY <1>1
<1>5. /\ IsFiniteSet(s0) /\ SumOver(c, s0) = 0
      /\ \A x \in s1 : c[x] \in Int
      /\ \A x \in s2 : c[x] \in Int
      /\ \A x \in s3 : c[x] \in Int
      /\ \A x \in s4 : c[x] \in Int
      /\ \A x \in s5 : c[x] \in Int
  BY <1>4, FS_EmptySet, SumEmpty
<1> HIDE DEF s0
<1>6. SumOver(c, s1) = c["posting_frequency"] + SumOver(c, s0) /\ IsFiniteSet(s1)
  BY <1>3, <1>5, SumAdd, FS_AddElement
<1> HIDE DEF s1
<1>7. SumOver(c, s2) = c["regular_intervals"] + SumOver(c, s1) /\ IsFiniteSet(s2)
  BY <1>3, <1>5, <1>6, SumAdd, FS_AddElement
<1> HIDE DEF s2
<1>8. SumOver(c, s3) = c["duplicate_content"] + SumOver(c, s2) /\ IsFiniteSet(s3)
  BY <1>3, <1>5, <1>7, SumAdd, FS_AddElement
<1> HIDE DEF s3
<1>9. SumOver(c, s4) = c["continuous_daily_activity"] + SumOver(c, s3) /\ IsFiniteSet(s4)
  BY <1>3, <1>5, <1>8, SumAdd, FS_AddElement
<1> HIDE DEF s4
<1>10. SumOver(c, s5) = c["repeated_links_hashtags"] + SumOver(c, s4) /\ IsFiniteSet(s5)
  BY <1>3, <1>5, <1>9, SumAdd, FS_AddElement
<1> HIDE DEF s5
<1>11. SumOver(c, s6) = c["reply_repost_concentration"] + SumOver(c, s5)
  BY <1>3, <1>4, <1>10, SumAdd
<1>12. /\ c["posting_frequency"] \in Int /\ c["regular_intervals"] \in Int
       /\ c["duplicate_content"] \in Int /\ c["continuous_daily_activity"] \in Int
       /\ c["repeated_links_hashtags"] \in Int /\ c["reply_repost_concentration"] \in Int
  BY DEF max_points
<1> HIDE DEF s6
<1> QED BY <1>1, <1>5, <1>6, <1>7, <1>8, <1>9, <1>10, <1>11, <1>12

(* The components of the score, and the score *)
LEMMA ScoreOfComponents ==
  ASSUME NEW ps, PostsOK(ps), NEW activity, ScoredActivity(activity),
         NEW content, ScoredContent(content, activity.post_count)
  PROVE  LET patterns == PatternMetrics(ps, activity, content) IN
         /\ DOMAIN patterns.components = DOMAIN max_points
         /\ \A c \in DOMAIN max_points : patterns.components[c] \in 0..max_points[c]
         /\ 2 * (100 * patterns.automation_pattern_score - Total(patterns.components)) \in -100..100
<1> DEFINE patterns == PatternMetrics(ps, activity, content)
           c == components(ps, activity, content)
           sum == Total(c)
<1>1. patterns.components = c /\ patterns.automation_pattern_score = Round(Clamp(sum, 0, 10000), 100)
  BY DEF PatternMetrics
<1>2. /\ DOMAIN c = DOMAIN max_points
      /\ c["posting_frequency"] = score_frequency(activity)
      /\ c["regular_intervals"] = score_regularity(ps)
      /\ c["duplicate_content"] = score_duplicate(content)
      /\ c["continuous_daily_activity"] = score_continuous(activity)
      /\ c["repeated_links_hashtags"] = score_repeated_links(content)
      /\ c["reply_repost_concentration"] = score_reply_repost(activity)
  BY DEF components, max_points
<1> HIDE DEF c, patterns
<1>3. /\ c["posting_frequency"] \in 0..2000 /\ c["regular_intervals"] \in 0..2000
      /\ c["duplicate_content"] \in 0..2000 /\ c["continuous_daily_activity"] \in 0..1500
      /\ c["repeated_links_hashtags"] \in 0..1500 /\ c["reply_repost_concentration"] \in 0..1000
  BY <1>2, ComponentsWithin, SMTT(30)
<1>4. \A x \in DOMAIN max_points : c[x] \in 0..max_points[x]
  <2>1. \A x \in DOMAIN max_points :
          x \in {"posting_frequency", "regular_intervals", "duplicate_content",
                 "continuous_daily_activity", "repeated_links_hashtags", "reply_repost_concentration"}
    BY DEF max_points
  <2>2. /\ max_points["posting_frequency"] = 2000 /\ max_points["regular_intervals"] = 2000
        /\ max_points["duplicate_content"] = 2000 /\ max_points["continuous_daily_activity"] = 1500
        /\ max_points["repeated_links_hashtags"] = 1500
        /\ max_points["reply_repost_concentration"] = 1000
    BY DEF max_points
  <2> DEFINE six == {"posting_frequency", "regular_intervals", "duplicate_content",
                     "continuous_daily_activity", "repeated_links_hashtags",
                     "reply_repost_concentration"}
  <2>3. /\ c["posting_frequency"] \in 0..max_points["posting_frequency"]
        /\ c["regular_intervals"] \in 0..max_points["regular_intervals"]
        /\ c["duplicate_content"] \in 0..max_points["duplicate_content"]
        /\ c["continuous_daily_activity"] \in 0..max_points["continuous_daily_activity"]
        /\ c["repeated_links_hashtags"] \in 0..max_points["repeated_links_hashtags"]
        /\ c["reply_repost_concentration"] \in 0..max_points["reply_repost_concentration"]
    BY <1>3, <2>2, SMTT(30)
  <2>4. \A x \in six : c[x] \in 0..max_points[x]
    BY <2>3, Zenon
  <2> QED BY <2>1, <2>4
<1>a. \A x \in DOMAIN max_points : c[x] \in Int
  <2>1. \A x \in DOMAIN max_points : max_points[x] \in Nat
    BY DEF max_points
  <2>2. \A y, m : m \in Nat /\ y \in 0..m => y \in Int OBVIOUS
  <2> QED BY <1>4, <2>1, <2>2, Zenon
<1>5. sum = c["posting_frequency"] + c["regular_intervals"] + c["duplicate_content"]
              + c["continuous_daily_activity"] + c["repeated_links_hashtags"]
              + c["reply_repost_concentration"]
  BY <1>2, <1>a, SixComponents, TotalIs
<1> HIDE DEF sum
<1>6. sum \in 0..10000
  <2> DEFINE p1 == c["posting_frequency"]
             p2 == c["regular_intervals"]
             p3 == c["duplicate_content"]
             p4 == c["continuous_daily_activity"]
             p5 == c["repeated_links_hashtags"]
             p6 == c["reply_repost_concentration"]
  <2>1. /\ p1 \in 0..2000 /\ p2 \in 0..2000 /\ p3 \in 0..2000
        /\ p4 \in 0..1500 /\ p5 \in 0..1500 /\ p6 \in 0..1000
        /\ sum = p1 + p2 + p3 + p4 + p5 + p6
    BY <1>3, <1>5, SMTT(30)
  <2> HIDE DEF p1, p2, p3, p4, p5, p6
  <2> QED BY <2>1, SMTT(30)
<1> DEFINE low == 0
           high == 10000
           b == 100
<1>7. low \in Int /\ high \in Int /\ low <= high /\ sum \in low..high /\ b \in Nat \ {0} BY <1>6
<1>8. patterns.automation_pattern_score = Round(Clamp(sum, low, high), b) BY <1>1
<1> HIDE DEF low, high, b
<1>9. Clamp(sum, low, high) = sum /\ sum \in Int BY <1>7, ClampIs
<1>10. 2 * (b * Round(sum, b) - sum) \in -b..b BY <1>7, <1>9, RoundNear
<1>11. 2 * (100 * patterns.automation_pattern_score - sum) \in -100..100
  BY <1>8, <1>9, <1>10 DEF b
<1> QED BY <1>1, <1>2, <1>4, <1>11 DEF sum, patterns

-----------------------------------------------------------------------------
(* Rounding reaches an even number from half a step below it on: a tie goes *)
(* to the even neighbour                                                    *)
LEMMA RoundReaches ==
  ASSUME NEW a \in Int, NEW b \in Nat \ {0}, NEW k \in Int, k % 2 = 0
  PROVE  Round(a, b) >= k <=> 2 * a >= 2 * (b * k) - b
<1> DEFINE q == a \div b
           r == a % b
           low == b * q
           high == b * k
<1>1. q \in Int /\ r \in 0..(b - 1) /\ a = low + r BY Division
<1>2. Round(a, b) = IF 2 * r > b \/ (2 * r = b /\ q % 2 = 1) THEN q + 1 ELSE q
  BY DEF Round
<1> HIDE DEF q, r
<1>3. low \in Int /\ high \in Int BY <1>1
<1>4. CASE q >= k
  <2>1. low >= high BY <1>1, <1>4
  <2> HIDE DEF low, high
  <2>2. Round(a, b) >= k BY <1>1, <1>2, <1>4
  <2> QED BY <1>1, <1>3, <2>1, <2>2 DEF high
<1>5. CASE q <= k - 2
  <2>1. low <= b * (k - 2) BY <1>1, <1>5
  <2>2. b * (k - 2) = high - 2 * b OBVIOUS
  <2> HIDE DEF low, high
  <2>3. Round(a, b) < k BY <1>1, <1>2, <1>5
  <2>4. 2 * a < 2 * high - b BY <1>1, <1>3, <2>1, <2>2
  <2> QED BY <1>1, <1>2, <1>3, <2>3, <2>4 DEF high
<1>6. CASE q = k - 1
  <2>1. low = high - b BY <1>6
  <2>2. q % 2 = 1 BY <1>6
  <2> HIDE DEF low, high
  <2>3. Round(a, b) >= k <=> 2 * r >= b BY <1>1, <1>2, <1>6, <2>2
  <2>4. 2 * a >= 2 * high - b <=> 2 * r >= b BY <1>1, <1>3, <2>1
  <2> QED BY <2>3, <2>4 DEF high
<1> QED BY <1>1, <1>4, <1>5, <1>6

(* ... so from there on a share reaches it *)
LEMMA ShareReaches ==
  ASSUME NEW max \in Nat, NEW a \in Int, NEW b \in Nat \ {0}, NEW k \in Int, k % 2 = 0
  PROVE  Share(max, a, b) >= k <=> 2 * (max * Clamp(a, 0, b)) >= 2 * (b * k) - b
<1> DEFINE c == max * Clamp(a, 0, b)
<1>1. c \in Int BY ShareWithin
<1>2. Share(max, a, b) = Round(c, b) BY DEF Share
<1> HIDE DEF c
<1>3. Round(c, b) >= k <=> 2 * c >= 2 * (b * k) - b BY <1>1, RoundReaches
<1> QED BY <1>2, <1>3 DEF c

-----------------------------------------------------------------------------
(* What the presence of an indicator says *)
LEMMA IndicatorsMean ==
  ASSUME NEW activity, NEW content
  PROVE  LET present(key) == key \in indicators(activity, content) IN
         /\ present("high_frequency") <=> activity.posts_per_day >= 20000
         /\ present("duplicate_posts") <=> content.duplicate_ratio > 100
         /\ present("high_repost_ratio") <=> 2 * activity.composition["repost"] > activity.post_count
         /\ present("repeated_links") <=> 10 * Top(content.domains) > 3 * activity.post_count
         /\ present("repeated_hashtags") <=> 10 * Top(content.hashtags) > 3 * activity.post_count
         /\ present("long_continuous_window") <=> activity.active_day_ratio >= 900
         /\ present("round_the_clock") <=> active_hours(activity) >= 20
<1> DEFINE present == indicators(activity, content)
           m == activity.post_count
           when(key, c) == IF c THEN {key} ELSE {}
           c1 == activity.posts_per_day >= 20000
           c2 == activity.daily_count_cv # None /\ activity.daily_count_cv < 30
           c3 == active_hours(activity) >= 20
           c4 == content.duplicate_ratio > 100
           c5 == 10 * Top(content.domains) > 3 * m
           c6 == 10 * Top(content.hashtags) > 3 * m
           c7 == 2 * activity.composition["repost"] > m
           c8 == 10 * activity.composition["reply"] > 7 * m
           c9 == activity.burst_count > 0
           c10 == activity.active_day_ratio >= 900
<1> DEFINE w1 == when("high_frequency", c1)
           w2 == when("regular_intervals", c2)
           w3 == when("round_the_clock", c3)
           w4 == when("duplicate_posts", c4)
           w5 == when("repeated_links", c5)
           w6 == when("repeated_hashtags", c6)
           w7 == when("high_repost_ratio", c7)
           w8 == when("high_reply_ratio", c8)
           w9 == when("posting_bursts", c9)
           w10 == when("long_continuous_window", c10)
<1>1. present = UNION {w1, w2, w3, w4, w5, w6, w7, w8, w9, w10}
  BY DEF indicators
<1> HIDE DEF present, c1, c2, c3, c4, c5, c6, c7, c8, c9, c10
<1>2. \A key : key \in present <=>
        \/ key \in w1 \/ key \in w2 \/ key \in w3 \/ key \in w4 \/ key \in w5
        \/ key \in w6 \/ key \in w7 \/ key \in w8 \/ key \in w9 \/ key \in w10
  <2> HIDE DEF w1, w2, w3, w4, w5, w6, w7, w8, w9, w10
  <2> QED BY <1>1
<1>a. /\ w1 = IF c1 THEN {"high_frequency"} ELSE {}
      /\ w2 = IF c2 THEN {"regular_intervals"} ELSE {}
      /\ w3 = IF c3 THEN {"round_the_clock"} ELSE {}
      /\ w4 = IF c4 THEN {"duplicate_posts"} ELSE {}
      /\ w5 = IF c5 THEN {"repeated_links"} ELSE {}
      /\ w6 = IF c6 THEN {"repeated_hashtags"} ELSE {}
      /\ w7 = IF c7 THEN {"high_repost_ratio"} ELSE {}
      /\ w8 = IF c8 THEN {"high_reply_ratio"} ELSE {}
      /\ w9 = IF c9 THEN {"posting_bursts"} ELSE {}
      /\ w10 = IF c10 THEN {"long_continuous_window"} ELSE {}
  BY Zenon
<1> HIDE DEF w1, w2, w3, w4, w5, w6, w7, w8, w9, w10
<1>3. /\ "high_frequency" \in present <=> c1
      /\ "round_the_clock" \in present <=> c3
      /\ "duplicate_posts" \in present <=> c4
      /\ "repeated_links" \in present <=> c5
      /\ "repeated_hashtags" \in present <=> c6
      /\ "high_repost_ratio" \in present <=> c7
      /\ "long_continuous_window" \in present <=> c10
  BY <1>2, <1>a
<1>4. "high_frequency" \in present <=> activity.posts_per_day >= 20000 BY <1>3 DEF c1
<1>5. "round_the_clock" \in present <=> active_hours(activity) >= 20 BY <1>3 DEF c3
<1>6. "duplicate_posts" \in present <=> content.duplicate_ratio > 100 BY <1>3 DEF c4
<1>7. "repeated_links" \in present <=> 10 * Top(content.domains) > 3 * activity.post_count
  BY <1>3 DEF c5
<1>8. "repeated_hashtags" \in present <=> 10 * Top(content.hashtags) > 3 * activity.post_count
  BY <1>3 DEF c6
<1>9. "high_repost_ratio" \in present <=> 2 * activity.composition["repost"] > activity.post_count
  BY <1>3 DEF c7
<1>10. "long_continuous_window" \in present <=> activity.active_day_ratio >= 900 BY <1>3 DEF c10
<1> QED BY <1>4, <1>5, <1>6, <1>7, <1>8, <1>9, <1>10 DEF present

(* 40 % of the points of frequency take 22.989 posts a day *)
LEMMA FrequencySignal ==
  ASSUME NEW activity, ScoredActivity(activity)
  PROVE  10 * score_frequency(activity) >= 4 * 2000 <=> activity.posts_per_day >= 22989
<1> DEFINE max == 2000
           a == activity.posts_per_day - 5000
           b == 45000
           k == 800
           c == Clamp(a, 0, b)
           s == Share(max, a, b)
<1>1. /\ max \in Nat /\ a \in Int /\ b \in Nat \ {0} /\ k \in Int /\ k % 2 = 0
      /\ max = 2000 /\ b = 45000 /\ k = 800 /\ a = activity.posts_per_day - 5000
      /\ activity.posts_per_day \in Int
  BY DEF ScoredActivity
<1>2. score_frequency(activity) = s BY DEF score_frequency
<1> HIDE DEF max, a, b, k
<1>3. s \in Int /\ c \in Int /\ c = IF a < 0 THEN 0 ELSE IF a > b THEN b ELSE a
  BY <1>1, ShareWithin
<1>4. s >= k <=> 2 * (max * c) >= 2 * (b * k) - b BY <1>1, ShareReaches
<1> HIDE DEF s, c
<1>5. 2 * (max * c) = 4000 * c /\ 2 * (b * k) - b = 71955000 BY <1>1, <1>3
<1> QED BY <1>1, <1>2, <1>3, <1>4, <1>5

(* ... of duplicates, a ratio of 0.2 *)
LEMMA DuplicatesSignal ==
  ASSUME NEW content, content.duplicate_ratio \in Int
  PROVE  10 * score_duplicate(content) >= 4 * 2000 <=> content.duplicate_ratio >= 200
<1> DEFINE max == 2000
           a == 2 * content.duplicate_ratio
           b == 1000
           k == 800
           c == Clamp(a, 0, b)
           s == Share(max, a, b)
<1>1. /\ max \in Nat /\ a \in Int /\ b \in Nat \ {0} /\ k \in Int /\ k % 2 = 0
      /\ max = 2000 /\ b = 1000 /\ k = 800 /\ a = 2 * content.duplicate_ratio
  OBVIOUS
<1>2. score_duplicate(content) = s BY DEF score_duplicate
<1> HIDE DEF max, a, b, k
<1>3. s \in Int /\ c \in Int /\ c = IF a < 0 THEN 0 ELSE IF a > b THEN b ELSE a
  BY <1>1, ShareWithin
<1>4. s >= k <=> 2 * (max * c) >= 2 * (b * k) - b BY <1>1, ShareReaches
<1> HIDE DEF s, c
<1>5. 2 * (max * c) = 4000 * c /\ 2 * (b * k) - b = 1599000 BY <1>1, <1>3
<1> QED BY <1>1, <1>2, <1>3, <1>4, <1>5

(* ... of reposts, a share of 0.4 but for rounding *)
LEMMA RepostsSignal ==
  ASSUME NEW activity, ScoredActivity(activity)
  PROVE  10 * score_reply_repost(activity) >= 4 * 1000
           <=> 4000 * activity.composition["repost"] >= 1599 * activity.post_count
<1> DEFINE r == activity.composition["repost"]
           m == activity.post_count
           max == 1000
           a == 10 * r - 2 * m
           b == 5 * m
           k == 400
           c == Clamp(a, 0, b)
           s == Share(max, a, b)
<1>1. /\ max \in Nat /\ a \in Int /\ b \in Nat \ {0} /\ k \in Int /\ k % 2 = 0
      /\ max = 1000 /\ b = 5 * m /\ k = 400 /\ a = 10 * r - 2 * m
      /\ m \in Nat \ {0} /\ r \in Nat
  BY DEF ScoredActivity
<1>2. score_reply_repost(activity) = s BY DEF score_reply_repost
<1> HIDE DEF max, a, b, k, r, m
<1>3. s \in Int /\ c \in Int /\ c = IF a < 0 THEN 0 ELSE IF a > b THEN b ELSE a
  BY <1>1, ShareWithin
<1>4. s >= k <=> 2 * (max * c) >= 2 * (b * k) - b BY <1>1, ShareReaches
<1> HIDE DEF s, c
<1>5. 2 * (max * c) = 2000 * c /\ 2 * (b * k) - b = 3995 * m BY <1>1, <1>3
<1>6. 2000 * c >= 3995 * m <=> 4000 * r >= 1599 * m BY <1>1, <1>3
<1>7. 10 * s >= 4 * 1000 <=> 4000 * r >= 1599 * m BY <1>1, <1>3, <1>4, <1>5, <1>6
<1> QED BY <1>2, <1>7 DEF r, m

(* ... of tags and links, a share of 0.2 but for rounding *)
LEMMA LinksSignal ==
  ASSUME NEW content, NEW m \in Nat \ {0}, ScoredContent(content, m)
  PROVE  LET most == Max({Top(content.domains), Top(content.hashtags)}) IN
         /\ most \in Nat
         /\ 10 * most > 3 * m <=>
              10 * Top(content.domains) > 3 * m \/ 10 * Top(content.hashtags) > 3 * m
         /\ 10 * score_repeated_links(content) >= 4 * 1500 <=> 6000 * most >= 1199 * m
<1> DEFINE d == Top(content.domains)
           h == Top(content.hashtags)
           t == Max({d, h})
           max == 1500
           a == 2 * t
           b == m
           k == 600
           c == Clamp(a, 0, b)
           s == Share(max, a, b)
<1>1. score_repeated_links(content) = s BY DEF score_repeated_links, ScoredContent
<1>2. d \in Nat /\ h \in Nat BY DEF ScoredContent
<1> HIDE DEF d, h
<1>3. t = IF d >= h THEN d ELSE h BY <1>2, MaxMinOfTwo
<1> HIDE DEF t
<1>4. t \in Nat /\ (10 * t > 3 * m <=> 10 * d > 3 * m \/ 10 * h > 3 * m) BY <1>2, <1>3
<1>5. /\ max \in Nat /\ a \in Int /\ b \in Nat \ {0} /\ k \in Int /\ k % 2 = 0
      /\ max = 1500 /\ b = m /\ k = 600 /\ a = 2 * t
  BY <1>4
<1> HIDE DEF max, a, b, k
<1>6. s \in Int /\ c \in Int /\ c = IF a < 0 THEN 0 ELSE IF a > b THEN b ELSE a
  BY <1>5, ShareWithin
<1>7. s >= k <=> 2 * (max * c) >= 2 * (b * k) - b BY <1>5, ShareReaches
<1> HIDE DEF s, c
<1>8. 2 * (max * c) = 3000 * c /\ 2 * (b * k) - b = 1199 * m BY <1>5, <1>6
<1>9. 3000 * c >= 1199 * m <=> 6000 * t >= 1199 * m BY <1>4, <1>5, <1>6
<1>10. 10 * s >= 4 * 1500 <=> 6000 * t >= 1199 * m BY <1>5, <1>6, <1>7, <1>8, <1>9
<1> QED BY <1>1, <1>4, <1>10 DEF t, d, h

(* ... of days and hours covered, 0.4 in the mean but for rounding *)
LEMMA WindowsSignal ==
  ASSUME NEW activity, ScoredActivity(activity)
  PROVE  10 * score_continuous(activity) >= 4 * 1500
           <=> 24 * activity.active_day_ratio + 1000 * active_hours(activity) >= 19184
<1> DEFINE r == activity.active_day_ratio
           h == active_hours(activity)
           c == 24 * r + 1000 * h
           a == 1500 * c
           b == 48000
           k == 600
           s == Round(a, b)
<1>1. r \in 0..1000 /\ h \in 0..24 BY ActiveHoursWithin DEF ScoredActivity
<1>2. score_continuous(activity) = s BY DEF score_continuous
<1> HIDE DEF r, h
<1>3. c \in Nat BY <1>1
<1> HIDE DEF c
<1>4. a \in Int /\ b \in Nat \ {0} /\ k \in Int /\ k % 2 = 0 /\ a = 1500 * c /\ b = 48000 /\ k = 600
  BY <1>3
<1> HIDE DEF a, b, k
<1>5. s \in Int
  <2>1. Round(a, b) \in Int BY <1>4, RoundNear
  <2> QED BY <2>1
<1>a. s >= k <=> 2 * a >= 2 * (b * k) - b
  <2>1. Round(a, b) >= k <=> 2 * a >= 2 * (b * k) - b BY <1>4, RoundReaches
  <2> QED BY <2>1
<1> HIDE DEF s
<1>6. 2 * (b * k) - b = 57552000 BY <1>4
<1>7. 10 * s >= 4 * 1500 <=> c >= 19184 BY <1>3, <1>4, <1>5, <1>a, <1>6
<1> QED BY <1>2, <1>7 DEF c, r, h

-----------------------------------------------------------------------------
(* The signals of a score are the components with 40 % of their points *)
LEMMA SignalsMean ==
  ASSUME NEW ps, NEW activity, NEW content
  PROVE  LET patterns == PatternMetrics(ps, activity, content) IN
         /\ patterns.indicators = indicators(activity, content)
         /\ "posting_frequency" \in patterns.signals_triggered
              <=> 10 * score_frequency(activity) >= 4 * 2000
         /\ "duplicate_content" \in patterns.signals_triggered
              <=> 10 * score_duplicate(content) >= 4 * 2000
         /\ "continuous_daily_activity" \in patterns.signals_triggered
              <=> 10 * score_continuous(activity) >= 4 * 1500
         /\ "repeated_links_hashtags" \in patterns.signals_triggered
              <=> 10 * score_repeated_links(content) >= 4 * 1500
         /\ "reply_repost_concentration" \in patterns.signals_triggered
              <=> 10 * score_reply_repost(activity) >= 4 * 1000
  BY DEF PatternMetrics, components, max_points

-----------------------------------------------------------------------------
(* A few things are finitely many *)
LEMMA FewFinite ==
  ASSUME NEW a, NEW b, NEW c, NEW d, NEW e, NEW f
  PROVE  /\ IsFiniteSet({a, b, c}) /\ IsFiniteSet({a, b, c, d})
         /\ IsFiniteSet({a, b, c, d, e, f})
<1>1. IsFiniteSet({a}) BY FS_Singleton
<1>2. IsFiniteSet({a} \cup {b}) BY <1>1, FS_AddElement
<1>3. IsFiniteSet(({a} \cup {b}) \cup {c}) BY <1>2, FS_AddElement
<1>4. IsFiniteSet((({a} \cup {b}) \cup {c}) \cup {d}) BY <1>3, FS_AddElement
<1>5. IsFiniteSet(((({a} \cup {b}) \cup {c}) \cup {d}) \cup {e}) BY <1>4, FS_AddElement
<1>6. IsFiniteSet((((({a} \cup {b}) \cup {c}) \cup {d}) \cup {e}) \cup {f}) BY <1>5, FS_AddElement
<1>7. /\ {a, b, c} = ({a} \cup {b}) \cup {c}
      /\ {a, b, c, d} = (({a} \cup {b}) \cup {c}) \cup {d}
      /\ {a, b, c, d, e, f} = (((({a} \cup {b}) \cup {c}) \cup {d}) \cup {e}) \cup {f}
  OBVIOUS
<1> QED BY <1>3, <1>4, <1>6, <1>7

(* A distribution of things over the values they have counts each of them *)
LEMMA DistributionTotal ==
  ASSUME NEW S, IsFiniteSet(S), NEW T, IsFiniteSet(T), NEW h, \A x \in S : h[x] \in T,
         NEW d, DOMAIN d = T, \A t \in T : d[t] = Cardinality({x \in S : h[x] = t})
  PROVE  Total(d) = Cardinality(S)
BY CountOfFibres, TotalIs

(* The hour of the day and the day of the week *)
LEMMA ClockWithin ==
  ASSUME NEW lt \in Int
  PROVE  HourOf(lt) \in 0..23 /\ WeekdayOf(lt) \in 0..6
<1>1. Hour \in Nat \ {0} /\ Day \in Nat \ {0} BY PostsAssumption DEF PostsAssumption, Day
<1>2. lt \div Hour \in Int /\ lt \div Day \in Int BY <1>1
<1> QED BY <1>2 DEF HourOf, WeekdayOf

(* Every post has its place in each distribution *)
LEMMA PostsCounted ==
  ASSUME NEW ps, PostsOK(ps), NEW tz_name, NEW burst_count
  PROVE  /\ Total(ActivityMetrics(ps, tz_name, burst_count).hourly_distribution) = Len(ps)
         /\ Total(ActivityMetrics(ps, tz_name, burst_count).weekly_distribution) = Len(ps)
         /\ Total(ActivityMetrics(ps, tz_name, burst_count).composition) = Len(ps)
         /\ Total(MediaUsage(ps)) = Len(ps)
<1> DEFINE of == ActivityMetrics(ps, tz_name, burst_count)
           local == LocalTimes(ps, tz_name)
           S == DOMAIN ps
           hours == 0..23
           days == 0..6
           hour == [k \in S |-> HourOf(local[k])]
           day == [k \in S |-> WeekdayOf(local[k])]
           type == [k \in S |-> ps[k].post_type]
           medium == [k \in S |-> ps[k].media_type]
           hourly == of.hourly_distribution
           weekly == of.weekly_distribution
           composition == of.composition
           usage == MediaUsage(ps)
<1>1. IsFiniteSet(S) /\ Cardinality(S) = Len(ps) BY SeqDomain DEF PostsOK, Size
<1>2. IsFiniteSet(hours) /\ IsFiniteSet(days)
  <2>1. \A m \in Nat : IsFiniteSet(0..m) BY FS_Interval
  <2> QED BY <2>1
<1>3. IsFiniteSet(PostTypes) /\ IsFiniteSet(MediaTypes)
  BY FewFinite DEF PostTypes, MediaTypes
<1>4. \A k \in S : local[k] \in Int BY ActiveDaysType
<1>5. /\ hourly = ByHour(ps, tz_name) /\ weekly = ByWeekday(ps, tz_name)
      /\ composition = ByPostType(ps) /\ usage = ByMediaType(ps)
  BY ActivityCounts
<1> HIDE DEF of, usage, hourly, weekly, composition
<1>6. /\ hourly = [h \in 0..23 |-> Cardinality({k \in DOMAIN ps : HourOf(local[k]) = h})]
      /\ weekly = [d \in 0..6 |-> Cardinality({k \in DOMAIN ps : WeekdayOf(local[k]) = d})]
      /\ composition = [t \in PostTypes |-> Cardinality({k \in DOMAIN ps : ps[k].post_type = t})]
      /\ usage = [t \in MediaTypes |-> Cardinality({k \in DOMAIN ps : ps[k].media_type = t})]
  BY <1>5 DEF ByHour, ByWeekday, ByPostType, ByMediaType
<1> HIDE DEF local
<1>8. Total(hourly) = Cardinality(S)
  <2>1. DOMAIN hourly = hours BY <1>6
  <2>2. \A k \in S : hour[k] \in hours BY <1>4, ClockWithin
  <2>3. \A h \in hours : hourly[h] = Cardinality({k \in S : hour[k] = h})
    <3>1. \A h : {k \in S : hour[k] = h} = {k \in DOMAIN ps : HourOf(local[k]) = h} OBVIOUS
    <3> HIDE DEF hour
    <3> QED BY <1>6, <3>1
  <2> HIDE DEF hour, S, days, hours
  <2> QED BY <1>1, <1>2, <2>1, <2>2, <2>3, DistributionTotal
<1>9. Total(weekly) = Cardinality(S)
  <2>1. DOMAIN weekly = days BY <1>6
  <2>2. \A k \in S : day[k] \in days BY <1>4, ClockWithin
  <2>3. \A h \in days : weekly[h] = Cardinality({k \in S : day[k] = h})
    <3>1. \A h : {k \in S : day[k] = h} = {k \in DOMAIN ps : WeekdayOf(local[k]) = h} OBVIOUS
    <3> HIDE DEF day
    <3> QED BY <1>6, <3>1
  <2> HIDE DEF day, S, days, hours
  <2> QED BY <1>1, <1>2, <2>1, <2>2, <2>3, DistributionTotal
<1>10. Total(composition) = Cardinality(S)
  <2>1. DOMAIN composition = PostTypes BY <1>6
  <2>2. \A k \in S : type[k] \in PostTypes BY DEF PostsOK, PostOK
  <2>3. \A h \in PostTypes : composition[h] = Cardinality({k \in S : type[k] = h})
    <3>1. \A h : {k \in S : type[k] = h} = {k \in DOMAIN ps : ps[k].post_type = h} OBVIOUS
    <3> HIDE DEF type
    <3> QED BY <1>6, <3>1
  <2> HIDE DEF type, S
  <2> QED BY <1>1, <1>3, <2>1, <2>2, <2>3, DistributionTotal
<1>11. Total(usage) = Cardinality(S)
  <2>1. DOMAIN usage = MediaTypes BY <1>6
  <2>2. \A k \in S : medium[k] \in MediaTypes BY DEF PostsOK, PostOK
  <2>3. \A h \in MediaTypes : usage[h] = Cardinality({k \in S : medium[k] = h})
    <3>1. \A h : {k \in S : medium[k] = h} = {k \in DOMAIN ps : ps[k].media_type = h} OBVIOUS
    <3> HIDE DEF medium
    <3> QED BY <1>6, <3>1
  <2> HIDE DEF medium, S
  <2> QED BY <1>1, <1>3, <2>1, <2>2, <2>3, DistributionTotal
<1> QED BY <1>1, <1>8, <1>9, <1>10, <1>11 DEF of, hourly, weekly, composition, usage

(* ... and every post that is analysed in each of the sentiment's *)
LEMMA AnalyzedCounted ==
  ASSUME NEW ps, IsFiniteSet(DOMAIN ps)
  PROVE  /\ Total(SentimentMetrics(ps).counts) = Size(Analyzed(ps))
         /\ SentimentMetrics(ps).available => Total(SentimentMetrics(ps).trend) = Size(Analyzed(ps))
<1> DEFINE a == Analyzed(ps)
           S == DOMAIN a
           Label(k) == classify(Compound[a[k].text])
           label == [k \in S |-> Label(k)]
           labels == {"positive", "neutral", "negative"}
           days == [k \in DOMAIN a |-> DateOf(a[k].created_at)]
           counts == SentimentMetrics(ps).counts
           trend == SentimentMetrics(ps).trend
<1>1. IsFiniteSet(S) /\ Size(a) = Cardinality(S)
  <2>1. S \in SUBSET DOMAIN ps BY DEF Analyzed, RestrictValues, Restrict
  <2> QED BY <2>1, FS_Subset DEF Size
<1>2. counts = [l \in labels |-> Cardinality({k \in S : Label(k) = l})]
  BY SentimentFields DEF SentimentOf, CountWhere
<1>3. SentimentMetrics(ps).available => trend = Counter(days)
  BY SentimentFields DEF SentimentOf
<1>4. \A k \in S : label[k] \in labels BY DEF classify
<1> HIDE DEF a, counts, trend
<1>5. Total(counts) = Cardinality(S)
  <2>1. DOMAIN counts = labels BY <1>2
  <2>2. IsFiniteSet(labels) BY FewFinite
  <2>3. \A l \in labels : counts[l] = Cardinality({k \in S : label[k] = l})
    <3>1. \A l : {k \in S : label[k] = l} = {k \in S : Label(k) = l} OBVIOUS
    <3> HIDE DEF label, Label
    <3> QED BY <1>2, <3>1
  <2> HIDE DEF label, S, labels
  <2> QED BY <1>1, <1>4, <2>1, <2>2, <2>3, DistributionTotal
<1>6. Total(Counter(days)) = Cardinality(S)
  <2>1. DOMAIN days = S OBVIOUS
  <2> HIDE DEF days, S
  <2>2. /\ DOMAIN Counter(days) = Range(days) /\ IsFiniteSet(Range(days))
        /\ \A x \in Range(days) : Counter(days)[x] = Cardinality({k \in S : days[k] = x})
    BY <1>1, <2>1, CounterType
  <2>3. \A k \in S : days[k] \in Range(days) BY <2>1 DEF Range
  <2> DEFINE T == Range(days)
             d == Counter(days)
  <2> HIDE DEF T, d
  <2> QED BY <1>1, <2>2, <2>3, DistributionTotal DEF T, d
<1> QED BY <1>1, <1>3, <1>5, <1>6 DEF counts, trend, a

-----------------------------------------------------------------------------
(* u is the averages of w over the parts of S that h makes, times the sizes *)
(* of the parts                                                             *)
Averaged(S, T, h, w, count, part, mean, u) ==
  /\ IsFiniteSet(S) /\ IsFiniteSet(T)
  /\ \A x \in S : h[x] \in T
  /\ \A x \in S : w[x] \in Int
  /\ \A t \in T : count[t] = Cardinality({x \in S : h[x] = t})
  /\ \A t \in T : part[t] = SumOver(w, {x \in S : h[x] = t})
  /\ \A t \in T : mean[t] = IF count[t] = 0 THEN 0 ELSE Round(100 * part[t], count[t])
  /\ \A t \in T : u[t] = mean[t] * count[t]

(* Averages over parts, each rounded, times the sizes of the parts, are the *)
(* sum over the whole up to half a unit for each of its elements             *)
LEMMA MeansAgree ==
  ASSUME NEW S, NEW T, NEW h, NEW w, NEW count, NEW part, NEW mean, NEW u,
         Averaged(S, T, h, w, count, part, mean, u)
  PROVE  2 * (SumOver(u, T) - 100 * SumOver(w, S)) \in -Cardinality(S)..Cardinality(S)
<1>a. /\ IsFiniteSet(S) /\ IsFiniteSet(T)
      /\ \A x \in S : h[x] \in T
      /\ \A x \in S : w[x] \in Int
  BY DEF Averaged
<1>b. /\ \A t \in T : count[t] = Cardinality({x \in S : h[x] = t})
      /\ \A t \in T : part[t] = SumOver(w, {x \in S : h[x] = t})
      /\ \A t \in T : mean[t] = IF count[t] = 0 THEN 0 ELSE Round(100 * part[t], count[t])
      /\ \A t \in T : u[t] = mean[t] * count[t]
  BY DEF Averaged
<1> USE <1>a, <1>b
<1> DEFINE two == 2
           many == 200
           twice == [t \in T |-> two * u[t]]
           scaled == [t \in T |-> many * part[t]]
           above == [t \in T |-> scaled[t] + count[t]]
           below == [t \in T |-> twice[t] + count[t]]
<1>1. \A t \in T : /\ count[t] \in Nat /\ part[t] \in Int
                   /\ count[t] = 0 => part[t] = 0
  <2> SUFFICES ASSUME NEW t \in T
               PROVE  count[t] \in Nat /\ part[t] \in Int /\ (count[t] = 0 => part[t] = 0)
    OBVIOUS
  <2> DEFINE F == {x \in S : h[x] = t}
  <2>1. IsFiniteSet(F) /\ \A x \in F : w[x] \in Int BY FS_Subset
  <2>2. count[t] = Cardinality(F) /\ part[t] = SumOver(w, F) OBVIOUS
  <2> HIDE DEF F
  <2>3. count[t] \in Nat /\ part[t] \in Int BY <2>1, <2>2, FS_CardinalityType, SumType
  <2>4. count[t] = 0 => F = {} BY <2>1, <2>2, FS_EmptySet
  <2> QED BY <2>2, <2>3, <2>4, SumEmpty
<1>2. \A t \in T : /\ u[t] \in Int
                   /\ 2 * u[t] <= 200 * part[t] + count[t]
                   /\ 200 * part[t] <= 2 * u[t] + count[t]
  <2> SUFFICES ASSUME NEW t \in T
               PROVE  /\ u[t] \in Int
                      /\ 2 * u[t] <= 200 * part[t] + count[t]
                      /\ 200 * part[t] <= 2 * u[t] + count[t]
    OBVIOUS
  <2> DEFINE b == count[t]
             a == 100 * part[t]
             r == Round(a, b)
  <2>1. b \in Nat /\ part[t] \in Int /\ a \in Int BY <1>1
  <2>2. CASE b = 0
    <3>1. u[t] = 0 /\ part[t] = 0 BY <1>1, <2>2
    <3> QED BY <2>2, <3>1
  <2>3. CASE b # 0
    <3>1. u[t] = r * b BY <2>3
    <3> HIDE DEF r
    <3>2. r \in Int /\ 2 * (b * r - a) \in -b..b
      <4> HIDE DEF a, b
      <4> QED BY <2>1, <2>3, RoundNear DEF r
    <3>3. r * b = b * r /\ b * r \in Int
      <4> HIDE DEF b
      <4> QED BY <2>1, <3>2
    <3> DEFINE v == b * r
    <3>4. u[t] = v /\ v \in Int /\ 2 * (v - a) \in -b..b BY <3>1, <3>2, <3>3
    <3> HIDE DEF v
    <3> QED BY <2>1, <3>4
  <2> QED BY <2>2, <2>3
<1>3. two \in Int /\ many \in Int /\ two = 2 /\ many = 200 OBVIOUS
<1> HIDE DEF two, many
<1>4. SumOver(twice, T) = two * SumOver(u, T)
  <2>1. \A t \in T : u[t] \in Int /\ twice[t] = two * u[t] BY <1>2
  <2> HIDE DEF twice
  <2> QED BY <1>3, <2>1, SumTimes
<1>5. SumOver(scaled, T) = many * SumOver(part, T)
  <2>1. \A t \in T : part[t] \in Int /\ scaled[t] = many * part[t] BY <1>1
  <2> HIDE DEF scaled
  <2> QED BY <1>3, <2>1, SumTimes
<1>6. SumOver(part, T) = SumOver(w, S) BY SumOfFibres
<1>7. SumOver(count, T) = Cardinality(S) BY CountOfFibres, SMTT(30)
<1>8. \A t \in T : /\ twice[t] \in Int /\ scaled[t] \in Int /\ count[t] \in Int
                   /\ above[t] \in Int /\ below[t] \in Int
                   /\ above[t] = scaled[t] + count[t] /\ below[t] = twice[t] + count[t]
                   /\ twice[t] <= above[t] /\ scaled[t] <= below[t]
  BY <1>1, <1>2, <1>3
<1>9. SumOver(u, T) \in Int /\ SumOver(w, S) \in Int /\ Cardinality(S) \in Nat
  BY <1>2, SumType, FS_CardinalityType
<1> HIDE DEF twice, scaled, above, below
<1>10. SumOver(above, T) = SumOver(scaled, T) + SumOver(count, T)
  <2>1. \A t \in T : scaled[t] \in Int /\ count[t] \in Int /\ above[t] = scaled[t] + count[t] BY <1>8
  <2> QED BY <2>1, SumPlus
<1>11. SumOver(below, T) = SumOver(twice, T) + SumOver(count, T)
  <2>1. \A t \in T : twice[t] \in Int /\ count[t] \in Int /\ below[t] = twice[t] + count[t] BY <1>8
  <2> QED BY <2>1, SumPlus
<1>12. SumOver(twice, T) <= SumOver(above, T)
  <2>1. \A t \in T : twice[t] \in Int /\ above[t] \in Int /\ twice[t] <= above[t] BY <1>8
  <2> QED BY <2>1, SumAtMost
<1>13. SumOver(scaled, T) <= SumOver(below, T)
  <2>1. \A t \in T : scaled[t] \in Int /\ below[t] \in Int /\ scaled[t] <= below[t] BY <1>8
  <2> QED BY <2>1, SumAtMost
<1> DEFINE U == SumOver(u, T)
           W == SumOver(w, S)
           M == Cardinality(S)
<1>14. /\ U \in Int /\ W \in Int /\ M \in Nat
       /\ 2 * U <= 200 * W + M /\ 200 * W <= 2 * U + M
  BY <1>3, <1>4, <1>5, <1>6, <1>7, <1>9, <1>10, <1>11, <1>12, <1>13
<1> HIDE DEF U, W, M
<1>15. 2 * (U - 100 * W) \in -M..M BY <1>14
<1> QED BY <1>15 DEF U, W, M

-----------------------------------------------------------------------------
(* The engagement of the posts *)
Engagements(ps) == [k \in DOMAIN ps |-> engagement_of(ps[k])]

MeanOver(ps, F) ==
  IF Cardinality(F) = 0 THEN 0 ELSE Round(100 * SumOver(Engagements(ps), F), Cardinality(F))

(* It is a number *)
LEMMA EngagementType ==
  ASSUME NEW ps, PostsOK(ps)
  PROVE  /\ DOMAIN Engagements(ps) = DOMAIN ps
         /\ \A k \in DOMAIN ps : /\ Engagements(ps)[k] = SumOver(ps[k].counts, Counts)
                                 /\ Engagements(ps)[k] \in Nat
                                 /\ \A c \in Counts : ps[k].counts[c] \in Int
         /\ IsFiniteSet(Counts)
<1>1. IsFiniteSet(Counts) BY FewFinite DEF Counts
<1>2. DOMAIN Engagements(ps) = DOMAIN ps BY DEF Engagements
<1>3. ASSUME NEW k \in DOMAIN ps
      PROVE  /\ Engagements(ps)[k] = SumOver(ps[k].counts, Counts)
             /\ Engagements(ps)[k] \in Nat
             /\ \A c \in Counts : ps[k].counts[c] \in Int
  <2> DEFINE n == ps[k].counts
  <2>1. n \in [Counts -> Nat] BY <1>3 DEF PostsOK, PostOK
  <2>2. Engagements(ps)[k] = Total(n) BY <1>3 DEF Engagements, engagement_of
  <2> HIDE DEF n
  <2>3. Total(n) = SumOver(n, Counts) BY <2>1, TotalIs
  <2>4. \A c \in Counts : n[c] \in Nat /\ n[c] \in Int BY <2>1
  <2>5. SumOver(n, Counts) \in Nat BY <1>1, <2>4, SumOfNaturals
  <2> QED BY <2>2, <2>3, <2>4, <2>5 DEF n
<1> QED BY <1>1, <1>2, <1>3

(* The average over the posts that a filter leaves *)
LEMMA MeanOfPart ==
  ASSUME NEW ps, PostsOK(ps), NEW F \in SUBSET DOMAIN ps, NEW in, in = [k \in F |-> ps[k]]
  PROVE  (IF Size(in) = 0 THEN 0 ELSE Round(100 * SumOf(in, engagement_of), Size(in)))
           = MeanOver(ps, F)
<1> DEFINE e == [k \in DOMAIN in |-> engagement_of(in[k])]
<1>1. DOMAIN in = F /\ Size(in) = Cardinality(F) BY DEF Size
<1>2. SumOf(in, engagement_of) = Total(e) BY DEF SumOf
<1>3. IsFiniteSet(F) BY SeqDomain, FS_Subset DEF PostsOK
<1>4. \A k \in F : e[k] \in Int /\ e[k] = Engagements(ps)[k]
  <2>1. \A k \in F : e[k] = Engagements(ps)[k] BY <1>1 DEF Engagements
  <2>2. \A k \in F : Engagements(ps)[k] \in Int BY EngagementType
  <2> QED BY <2>1, <2>2
<1>5. DOMAIN e = F BY <1>1
<1> HIDE DEF e
<1>6. Total(e) = SumOver(Engagements(ps), F) BY <1>3, <1>4, <1>5, SumSame, TotalIs
<1> QED BY <1>1, <1>2, <1>6 DEF MeanOver

MeansByHour(ps, tz_name) ==
  [h \in 0..23 |-> MeanOver(ps, {k \in DOMAIN ps : HourOf(LocalTimes(ps, tz_name)[k]) = h})]
MeansByWeekday(ps, tz_name) ==
  [d \in 0..6 |-> MeanOver(ps, {k \in DOMAIN ps : WeekdayOf(LocalTimes(ps, tz_name)[k]) = d})]
MeansByType(ps) ==
  [t \in {ps[k].media_type : k \in DOMAIN ps} |->
     MeanOver(ps, {k \in DOMAIN ps : ps[k].media_type = t})]

(* The hour and the weekday that the engagement engine finds for a post are *)
(* those of the activity engine, and so are the parts it takes averages of  *)
LEMMA EngagementParts ==
  ASSUME NEW ps, PostsOK(ps), NEW followers, NEW tz_name
  PROVE  /\ EngagementMetrics(ps, followers, tz_name).by_hour = MeansByHour(ps, tz_name)
         /\ EngagementMetrics(ps, followers, tz_name).by_weekday = MeansByWeekday(ps, tz_name)
         /\ EngagementMetrics(ps, followers, tz_name).by_type = MeansByType(ps)
<1> DEFINE of == EngagementMetrics(ps, followers, tz_name)
           hour(k) == HourOf(LocalTimes(ps, tz_name)[k])
           day(k)  == WeekdayOf(LocalTimes(ps, tz_name)[k])
<1>1. \A k \in DOMAIN ps : EngagementTime(ps[k], tz_name) = LocalTimes(ps, tz_name)[k]
  BY DEF EngagementTime, LocalTimes
<1>2. ASSUME NEW h
      PROVE  MeanWhere(ps, LAMBDA p : HourOf(EngagementTime(p, tz_name)) = h)
               = MeanOver(ps, {k \in DOMAIN ps : hour(k) = h})
  <2> DEFINE F == {k \in DOMAIN ps : hour(k) = h}
             in == RestrictValues(ps, LAMBDA p : HourOf(EngagementTime(p, tz_name)) = h)
  <2>1. in = [k \in F |-> ps[k]] BY <1>1 DEF RestrictValues, Restrict
  <2>2. F \in SUBSET DOMAIN ps OBVIOUS
  <2>3. MeanWhere(ps, LAMBDA p : HourOf(EngagementTime(p, tz_name)) = h)
          = IF Size(in) = 0 THEN 0 ELSE Round(100 * SumOf(in, engagement_of), Size(in))
    BY DEF MeanWhere
  <2> HIDE DEF F, in
  <2> QED BY <2>1, <2>2, <2>3, MeanOfPart DEF F
<1>3. ASSUME NEW d
      PROVE  MeanWhere(ps, LAMBDA p : WeekdayOf(EngagementTime(p, tz_name)) = d)
               = MeanOver(ps, {k \in DOMAIN ps : day(k) = d})
  <2> DEFINE F == {k \in DOMAIN ps : day(k) = d}
             in == RestrictValues(ps, LAMBDA p : WeekdayOf(EngagementTime(p, tz_name)) = d)
  <2>1. in = [k \in F |-> ps[k]] BY <1>1 DEF RestrictValues, Restrict
  <2>2. F \in SUBSET DOMAIN ps OBVIOUS
  <2>3. MeanWhere(ps, LAMBDA p : WeekdayOf(EngagementTime(p, tz_name)) = d)
          = IF Size(in) = 0 THEN 0 ELSE Round(100 * SumOf(in, engagement_of), Size(in))
    BY DEF MeanWhere
  <2> HIDE DEF F, in
  <2> QED BY <2>1, <2>2, <2>3, MeanOfPart DEF F
<1>4. ASSUME NEW t
      PROVE  MeanWhere(ps, LAMBDA p : p.media_type = t)
               = MeanOver(ps, {k \in DOMAIN ps : ps[k].media_type = t})
  <2> DEFINE F == {k \in DOMAIN ps : ps[k].media_type = t}
             in == RestrictValues(ps, LAMBDA p : p.media_type = t)
  <2>1. in = [k \in F |-> ps[k]] BY DEF RestrictValues, Restrict
  <2>2. F \in SUBSET DOMAIN ps OBVIOUS
  <2>3. MeanWhere(ps, LAMBDA p : p.media_type = t)
          = IF Size(in) = 0 THEN 0 ELSE Round(100 * SumOf(in, engagement_of), Size(in))
    BY DEF MeanWhere
  <2> HIDE DEF F, in
  <2> QED BY <2>1, <2>2, <2>3, MeanOfPart DEF F
<1>5. /\ of.by_hour = [h \in 0..23 |-> MeanWhere(ps, LAMBDA p : HourOf(EngagementTime(p, tz_name)) = h)]
      /\ of.by_weekday = [d \in 0..6 |-> MeanWhere(ps, LAMBDA p : WeekdayOf(EngagementTime(p, tz_name)) = d)]
      /\ of.by_type = [t \in {ps[k].media_type : k \in DOMAIN ps} |->
                         MeanWhere(ps, LAMBDA p : p.media_type = t)]
  BY DEF EngagementMetrics
<1> HIDE DEF of
<1>6. of.by_hour = MeansByHour(ps, tz_name) BY <1>2, <1>5, ZenonT(30) DEF MeansByHour
<1>7. of.by_weekday = MeansByWeekday(ps, tz_name) BY <1>3, <1>5, ZenonT(30) DEF MeansByWeekday
<1>8. of.by_type = MeansByType(ps) BY <1>4, <1>5, ZenonT(30) DEF MeansByType
<1> QED BY <1>6, <1>7, <1>8 DEF of

(* h sorts the posts into T, and the averages and the counts go by it *)
SortedBy(ps, T, h, mean, count) ==
  /\ IsFiniteSet(T)
  /\ \A k \in DOMAIN ps : h[k] \in T
  /\ DOMAIN mean = T
  /\ \A t \in T : mean[t] = MeanOver(ps, {k \in DOMAIN ps : h[k] = t})
  /\ \A t \in T : count[t] = Cardinality({k \in DOMAIN ps : h[k] = t})

(* Averages over the posts with the same value of h, times how many there are *)
LEMMA AveragesTimesCounts ==
  ASSUME NEW ps, PostsOK(ps), NEW T, NEW h, NEW mean, NEW count, SortedBy(ps, T, h, mean, count)
  PROVE  2 * (Total([t \in DOMAIN mean |-> mean[t] * count[t]]) - 100 * Total(Engagements(ps)))
           \in -Len(ps)..Len(ps)
<1> USE DEF SortedBy
<1> DEFINE S == DOMAIN ps
           w == Engagements(ps)
           part == [t \in T |-> SumOver(w, {k \in S : h[k] = t})]
           u == [t \in DOMAIN mean |-> mean[t] * count[t]]
<1>1. IsFiniteSet(S) /\ Cardinality(S) = Len(ps) BY SeqDomain DEF PostsOK, Size
<1>2. DOMAIN w = S /\ \A k \in S : w[k] \in Int BY EngagementType
<1>3. \A t \in T : part[t] = SumOver(w, {k \in S : h[k] = t}) OBVIOUS
<1>4. \A t \in T : mean[t] = IF count[t] = 0 THEN 0 ELSE Round(100 * part[t], count[t])
  BY DEF MeanOver
<1>5. DOMAIN u = T /\ \A t \in T : u[t] = mean[t] * count[t] OBVIOUS
<1> HIDE DEF S, w, part, u
<1>6. \A k \in S : h[k] \in T BY DEF S
<1>7. \A t \in T : count[t] = Cardinality({k \in S : h[k] = t}) BY DEF S
<1>8. 2 * (SumOver(u, T) - 100 * SumOver(w, S)) \in -Cardinality(S)..Cardinality(S)
  <2>1. IsFiniteSet(T) OBVIOUS
  <2>2. Averaged(S, T, h, w, count, part, mean, u)
    BY <1>1, <1>2, <1>3, <1>4, <1>5, <1>6, <1>7, <2>1 DEF Averaged
  <2> QED BY <2>2, MeansAgree
<1>9. Total(u) = SumOver(u, T) /\ Total(w) = SumOver(w, S) BY <1>2, <1>5, TotalIs
<1>10. 2 * (Total(u) - 100 * Total(w)) \in -Len(ps)..Len(ps) BY <1>1, <1>8, <1>9
<1> QED BY <1>10 DEF u, w

(* Two engines, one total *)
LEMMA EnginesMeet ==
  ASSUME NEW ps, PostsOK(ps), NEW followers, NEW tz_name,
         NEW of, of = EngagementMetrics(ps, followers, tz_name)
  PROVE  /\ 2 * (Total([x \in DOMAIN of.by_hour |-> of.by_hour[x] * ByHour(ps, tz_name)[x]])
                   - 100 * of.total_engagement) \in -Len(ps)..Len(ps)
         /\ 2 * (Total([x \in DOMAIN of.by_weekday |-> of.by_weekday[x] * ByWeekday(ps, tz_name)[x]])
                   - 100 * of.total_engagement) \in -Len(ps)..Len(ps)
         /\ 2 * (Total([x \in DOMAIN of.by_type |-> of.by_type[x] * ByMediaType(ps)[x]])
                   - 100 * of.total_engagement) \in -Len(ps)..Len(ps)
         /\ of.total_engagement = Total(of.totals)
<1> DEFINE S == DOMAIN ps
           local == LocalTimes(ps, tz_name)
           hours == 0..23
           days == 0..6
           types == {ps[k].media_type : k \in S}
           hour == [k \in S |-> HourOf(local[k])]
           day == [k \in S |-> WeekdayOf(local[k])]
           medium == [k \in S |-> ps[k].media_type]
           mh == MeansByHour(ps, tz_name)
           md == MeansByWeekday(ps, tz_name)
           mt == MeansByType(ps)
           ch == ByHour(ps, tz_name)
           cd == ByWeekday(ps, tz_name)
           ct == ByMediaType(ps)
<1>1. of.by_hour = mh /\ of.by_weekday = md /\ of.by_type = mt BY EngagementParts
<1>2. of.total_engagement = Total(Engagements(ps)) BY DEF EngagementMetrics, SumOf, Engagements
<1>3. of.totals = [c \in Counts |-> SumOf(ps, LAMBDA p : p.counts[c])] BY DEF EngagementMetrics
<1>4. IsFiniteSet(hours) /\ IsFiniteSet(days) /\ IsFiniteSet(types)
  <2>1. \A m \in Nat : IsFiniteSet(0..m) BY FS_Interval
  <2>2. types \in SUBSET MediaTypes BY DEF PostsOK, PostOK
  <2>3. IsFiniteSet(MediaTypes) BY FewFinite DEF MediaTypes
  <2> QED BY <2>1, <2>2, <2>3, FS_Subset
<1>5. \A k \in S : hour[k] \in hours /\ day[k] \in days /\ medium[k] \in types
  <2>1. \A k \in S : local[k] \in Int BY ActiveDaysType
  <2> QED BY <2>1, ClockWithin
<1>6. DOMAIN mh = hours /\ DOMAIN md = days /\ DOMAIN mt = types
  BY DEF MeansByHour, MeansByWeekday, MeansByType
<1>7. /\ \A t \in hours : mh[t] = MeanOver(ps, {k \in DOMAIN ps : hour[k] = t})
      /\ \A t \in hours : ch[t] = Cardinality({k \in DOMAIN ps : hour[k] = t})
  <2>1. \A t : {k \in DOMAIN ps : hour[k] = t} = {k \in DOMAIN ps : HourOf(local[k]) = t} OBVIOUS
  <2> HIDE DEF hour
  <2> QED BY <2>1 DEF MeansByHour, ByHour
<1>8. /\ \A t \in days : md[t] = MeanOver(ps, {k \in DOMAIN ps : day[k] = t})
      /\ \A t \in days : cd[t] = Cardinality({k \in DOMAIN ps : day[k] = t})
  <2>1. \A t : {k \in DOMAIN ps : day[k] = t} = {k \in DOMAIN ps : WeekdayOf(local[k]) = t} OBVIOUS
  <2> HIDE DEF day
  <2> QED BY <2>1 DEF MeansByWeekday, ByWeekday
<1>9. /\ \A t \in types : mt[t] = MeanOver(ps, {k \in DOMAIN ps : medium[k] = t})
      /\ \A t \in types : ct[t] = Cardinality({k \in DOMAIN ps : medium[k] = t})
  <2>1. \A t : {k \in DOMAIN ps : medium[k] = t} = {k \in DOMAIN ps : ps[k].media_type = t} OBVIOUS
  <2>2. types \in SUBSET MediaTypes BY DEF PostsOK, PostOK
  <2> HIDE DEF medium
  <2> QED BY <2>1, <2>2 DEF MeansByType, ByMediaType
<1> DEFINE uh == [x \in DOMAIN mh |-> mh[x] * ch[x]]
           ud == [x \in DOMAIN md |-> md[x] * cd[x]]
           ut == [x \in DOMAIN mt |-> mt[x] * ct[x]]
           total == Total(Engagements(ps))
<1> HIDE DEF hours, days, types, hour, day, medium, mh, md, mt, ch, cd, ct
<1>10. 2 * (Total(uh) - 100 * total) \in -Len(ps)..Len(ps)
  <2>1. SortedBy(ps, hours, hour, mh, ch) BY <1>4, <1>5, <1>6, <1>7 DEF SortedBy
  <2> QED BY <2>1, AveragesTimesCounts
<1>11. 2 * (Total(ud) - 100 * total) \in -Len(ps)..Len(ps)
  <2>1. SortedBy(ps, days, day, md, cd) BY <1>4, <1>5, <1>6, <1>8 DEF SortedBy
  <2> QED BY <2>1, AveragesTimesCounts
<1>12. 2 * (Total(ut) - 100 * total) \in -Len(ps)..Len(ps)
  <2>1. SortedBy(ps, types, medium, mt, ct) BY <1>4, <1>5, <1>6, <1>9 DEF SortedBy
  <2> QED BY <2>1, AveragesTimesCounts
<1>13. Total(of.totals) = total
  <2> DEFINE w == [k \in S |-> ps[k].counts]
             a == Engagements(ps)
             b == of.totals
  <2>1. IsFiniteSet(S) /\ IsFiniteSet(Counts) BY SeqDomain, EngagementType DEF PostsOK
  <2>2. \A k \in S : \A c \in Counts : w[k][c] \in Int BY EngagementType
  <2>3. \A k \in S : a[k] = SumOver(w[k], Counts) BY EngagementType
  <2>4. \A c \in Counts : b[c] = SumOver([k \in S |-> w[k][c]], S)
    <3> SUFFICES ASSUME NEW c \in Counts PROVE b[c] = SumOver([k \in S |-> w[k][c]], S)
      OBVIOUS
    <3>1. b[c] = Total([k \in S |-> ps[k].counts[c]]) BY <1>3 DEF SumOf
    <3>2. [k \in S |-> ps[k].counts[c]] = [k \in S |-> w[k][c]] OBVIOUS
    <3> DEFINE f == [k \in S |-> w[k][c]]
    <3>3. DOMAIN f = S OBVIOUS
    <3> HIDE DEF f
    <3>4. Total(f) = SumOver(f, S) BY <3>3, TotalIs
    <3> QED BY <3>1, <3>2, <3>4 DEF f
  <2>5. DOMAIN b = Counts /\ DOMAIN a = S BY <1>3, EngagementType
  <2> HIDE DEF w, a, b, S
  <2>6. SumOver(a, S) = SumOver(b, Counts)
    <3>1. Margins(S, Counts, w, a, b) BY <2>1, <2>2, <2>3, <2>4 DEF Margins
    <3> QED BY <3>1, SumSwap
  <2>7. Total(a) = SumOver(a, S) /\ Total(b) = SumOver(b, Counts) BY <2>5, TotalIs
  <2> QED BY <2>6, <2>7 DEF a, b
<1> QED BY <1>1, <1>2, <1>10, <1>11, <1>12, <1>13 DEF ch, cd, ct

-----------------------------------------------------------------------------
(* Quotients of two numbers are as far apart as their difference is long *)
LEMMA QuotientsApart ==
  ASSUME NEW a \in Int, NEW b \in Int, NEW d \in Nat \ {0}
  PROVE  /\ (b \div d) - (a \div d) \in Int /\ (b - a) \div d \in Int
         /\ (b \div d) - (a \div d) >= (b - a) \div d
         /\ (b \div d) - (a \div d) <= (b - a) \div d + 1
<1> DEFINE c == b - a
           qa == a \div d
           qb == b \div d
           qc == c \div d
           ra == a % d
           rb == b % d
           rc == c % d
           x == qb - qa - qc
<1>0. c \in Int OBVIOUS
<1>1. /\ qa \in Int /\ ra \in 0..(d - 1) /\ a = d * qa + ra
      /\ qb \in Int /\ rb \in 0..(d - 1) /\ b = d * qb + rb
  BY Division
<1>2. qc \in Int /\ rc \in 0..(d - 1) /\ c = d * qc + rc
  <2> HIDE DEF c
  <2> QED BY <1>0, Division
<1>3. c = b - a OBVIOUS
<1> HIDE DEF c, qa, qb, qc, ra, rb, rc
<1>4. x \in Int BY <1>1, <1>2
<1>5. d * x = d * qb - d * qa - d * qc BY <1>1, <1>2
<1> DEFINE p == d * x
<1>6. p \in Int /\ p > -d /\ p < 2 * d
  <2>1. d * qa \in Int /\ d * qb \in Int /\ d * qc \in Int BY <1>1, <1>2
  <2> DEFINE pa == d * qa
             pb == d * qb
             pc == d * qc
  <2>2. p = pb - pa - pc BY <1>5
  <2>3. a = pa + ra /\ b = pb + rb /\ c = pc + rc BY <1>1, <1>2
  <2>4. pa \in Int /\ pb \in Int /\ pc \in Int BY <2>1
  <2>5. ra \in 0..(d - 1) /\ rb \in 0..(d - 1) /\ rc \in 0..(d - 1) BY <1>1, <1>2
  <2> HIDE DEF pa, pb, pc, p, x
  <2> QED BY <1>0, <1>3, <2>2, <2>3, <2>4, <2>5
<1>7. x >= 0
  <2> SUFFICES ASSUME x <= -1 PROVE FALSE BY <1>4
  <2> HIDE DEF x
  <2>1. d * x <= d * (-1) BY <1>4
  <2> QED BY <1>6, <2>1
<1>8. x <= 1
  <2> SUFFICES ASSUME x >= 2 PROVE FALSE BY <1>4
  <2> HIDE DEF x
  <2>1. d * x >= d * 2 BY <1>4
  <2> QED BY <1>6, <2>1
<1>9. qb - qa >= qc /\ qb - qa <= qc + 1 BY <1>1, <1>2, <1>7, <1>8
<1> QED BY <1>1, <1>2, <1>9 DEF qa, qb, qc, c

(* ... so that they are in the same order *)
LEMMA QuotientsOrdered ==
  ASSUME NEW a \in Int, NEW b \in Int, a <= b, NEW d \in Nat \ {0}
  PROVE  a \div d <= b \div d /\ a \div d \in Int /\ b \div d \in Int
<1> DEFINE c == b - a
<1>1. c \in Nat OBVIOUS
<1>2. (b \div d) - (a \div d) >= c \div d BY QuotientsApart
<1> HIDE DEF c
<1>3. c \div d \in Nat BY <1>1, QuotientNotNegative
<1>4. a \div d \in Int /\ b \div d \in Int BY Division
<1> QED BY <1>2, <1>3, <1>4

(* One unit more *)
LEMMA QuotientShifts ==
  ASSUME NEW a \in Int, NEW d \in Nat \ {0}
  PROVE  (a + d) \div d = a \div d + 1 /\ (a - d) \div d = a \div d - 1 /\ a \div d \in Int
<1>1. ASSUME NEW b \in Int, NEW c \in Int, c = b + d PROVE c \div d = b \div d + 1
  <2> DEFINE qb == b \div d
             qc == c \div d
             rb == b % d
             rc == c % d
  <2>1. /\ qb \in Int /\ rb \in 0..(d - 1) /\ b = d * qb + rb
        /\ qc \in Int /\ rc \in 0..(d - 1) /\ c = d * qc + rc
    BY <1>1, Division
  <2> HIDE DEF qb, qc, rb, rc
  <2> DEFINE x == qc - qb
  <2>2. d * x = d * qc - d * qb /\ x \in Int BY <2>1
  <2> DEFINE p == d * x
  <2>3. p \in Int /\ p > 0 /\ p < 2 * d
    <3> DEFINE pb == d * qb
               pc == d * qc
    <3>1. pb \in Int /\ pc \in Int /\ p = pc - pb /\ b = pb + rb /\ c = pc + rc BY <2>1, <2>2
    <3> HIDE DEF pb, pc, p, x
    <3> QED BY <1>1, <2>1, <3>1
  <2>4. x >= 1
    <3> SUFFICES ASSUME x <= 0 PROVE FALSE BY <2>2
    <3> HIDE DEF x
    <3>1. d * x <= d * 0 BY <2>2
    <3> QED BY <2>3, <3>1
  <2>5. x <= 1
    <3> SUFFICES ASSUME x >= 2 PROVE FALSE BY <2>2
    <3> HIDE DEF x
    <3>1. d * x >= d * 2 BY <2>2
    <3> QED BY <2>3, <3>1
  <2> QED BY <2>1, <2>4, <2>5 DEF qb, qc
<1>2. (a + d) \div d = a \div d + 1
  <2> DEFINE c == a + d
  <2>1. c \in Int /\ c = a + d OBVIOUS
  <2> HIDE DEF c
  <2>2. c \div d = a \div d + 1 BY <1>1, <2>1
  <2> QED BY <2>2 DEF c
<1> DEFINE b == a - d
<1>3. b \in Int /\ a = b + d OBVIOUS
<1> HIDE DEF b
<1>4. a \div d = b \div d + 1 BY <1>1, <1>3
<1>5. b \div d \in Int /\ a \div d \in Int BY <1>3, Division
<1> QED BY <1>2, <1>4, <1>5 DEF b

-----------------------------------------------------------------------------
(* The clocks of a zone *)
LEMMA ZoneShift ==
  ASSUME NEW tz_name
  PROVE  LET tz == resolve_tz(tz_name) IN
         /\ tz.switch \in Int /\ tz.before \in Int /\ tz.after \in Int
         /\ tz.after - tz.before <= Day /\ tz.before - tz.after <= Day
         /\ Day \in Nat \ {0}
<1> DEFINE tz == resolve_tz(tz_name)
<1>1. Hour \in Nat \ {0} BY PostsAssumption DEF PostsAssumption
<1>2. \E z \in DOMAIN Zones : tz = Zones[z] BY PostsAssumption DEF PostsAssumption, resolve_tz
<1> HIDE DEF tz
<1>3. /\ tz \in [switch : Int, before : Int, after : Int]
      /\ tz.after - tz.before \in -24 * Hour .. 24 * Hour
  BY <1>2, PostsAssumption DEF PostsAssumption
<1>4. tz.switch \in Int /\ tz.before \in Int /\ tz.after \in Int BY <1>3
<1>5. tz.after - tz.before >= -24 * Hour /\ tz.after - tz.before <= 24 * Hour BY <1>1, <1>3, <1>4
<1> QED BY <1>1, <1>4, <1>5 DEF tz, Day

Moved(tz_name) == resolve_tz(tz_name).after - resolve_tz(tz_name).before

(* Local times are as far apart as times of UTC, or a change of the clocks  *)
(* lies between them                                                         *)
LEMMA LocalApart ==
  ASSUME NEW s \in Int, NEW t \in Int, s <= t, NEW tz_name
  PROVE  /\ astimezone(s, tz_name) \in Int /\ astimezone(t, tz_name) \in Int
         /\ \/ astimezone(t, tz_name) - astimezone(s, tz_name) = t - s
            \/ /\ astimezone(t, tz_name) - astimezone(s, tz_name) = t - s + Moved(tz_name)
               /\ s < t
<1> DEFINE sw == resolve_tz(tz_name).switch
           bef == resolve_tz(tz_name).before
           aft == resolve_tz(tz_name).after
           ls == astimezone(s, tz_name)
           lt == astimezone(t, tz_name)
<1>1. sw \in Int /\ bef \in Int /\ aft \in Int BY ZoneShift
<1>2. /\ ls = s + (IF s < sw THEN bef ELSE aft)
      /\ lt = t + (IF t < sw THEN bef ELSE aft)
  BY DEF astimezone
<1>3. Moved(tz_name) = aft - bef BY DEF Moved
<1> HIDE DEF sw, bef, aft, ls, lt
<1>4. CASE s < sw /\ t < sw
  <2>1. ls \in Int /\ lt \in Int /\ lt - ls = t - s BY <1>1, <1>2, <1>4
  <2> QED BY <2>1 DEF ls, lt
<1>5. CASE s < sw /\ ~(t < sw)
  <2>1. ls \in Int /\ lt \in Int /\ lt - ls = t - s + Moved(tz_name) /\ s < t
    BY <1>1, <1>2, <1>3, <1>5
  <2> QED BY <2>1 DEF ls, lt
<1>6. CASE ~(s < sw)
  <2>1. ls \in Int /\ lt \in Int /\ lt - ls = t - s BY <1>1, <1>2, <1>6
  <2> QED BY <2>1 DEF ls, lt
<1> QED BY <1>4, <1>5, <1>6

(* The first and the last time are those of posts *)
LEMMA EndsArePosts ==
  ASSUME NEW ps, PostsOK(ps), Len(ps) > 0
  PROVE  \E first, last \in DOMAIN ps :
           /\ Span(TimesOf(ps)) = ps[last].created_at - ps[first].created_at
           /\ \A k \in DOMAIN ps : /\ ps[first].created_at <= ps[k].created_at
                                   /\ ps[k].created_at <= ps[last].created_at
<1> DEFINE f == [k \in DOMAIN ps |-> ps[k].created_at]
           times == Sorted(f)
           m == Len(ps)
<1>1. IsFiniteSet(DOMAIN ps) /\ Size(ps) = m /\ m \in Nat /\ DOMAIN ps = 1..m
  BY SeqDomain DEF PostsOK
<1>2. Numbers(f) /\ Size(f) = m /\ DOMAIN f = DOMAIN ps
  BY <1>1 DEF Numbers, PostsOK, PostOK, Size
<1>3. TimesOf(ps) = times BY DEF TimesOf
<1>4. \A k \in DOMAIN ps : f[k] = ps[k].created_at OBVIOUS
<1>5. 1 \in 1..Size(f) /\ Size(f) \in 1..Size(f) BY <1>1, <1>2
<1> HIDE DEF f
<1>6. Len(times) = m BY <1>2, SortedAscends
<1>7. Ranked(f, 1, times[1]) /\ Ranked(f, Size(f), times[Size(f)]) BY <1>2, <1>5, SortedRanks
<1>8. times[1] \in Range(f) /\ times[m] \in Range(f) BY <1>2, <1>7 DEF Ranked
<1>9. \A k \in DOMAIN f : times[1] <= f[k] /\ f[k] <= times[m] BY <1>2, SortedEnds
<1> HIDE DEF times
<1>10. PICK first \in DOMAIN f, last \in DOMAIN f : times[1] = f[first] /\ times[m] = f[last]
  BY <1>8 DEF Range
<1>11. Span(TimesOf(ps)) = f[last] - f[first] BY <1>3, <1>6, <1>10 DEF Span
<1> QED BY <1>2, <1>4, <1>9, <1>10, <1>11

(* The calendar days from the first to the last with a post, against the    *)
(* days of 24 hours from the first post to the last                         *)
LEMMA DaysSpan ==
  ASSUME NEW ps, PostsOK(ps), Len(ps) > 0, NEW tz_name,
         NEW days, days = ActiveDays(ps, tz_name),
         NEW whole, whole = Span(TimesOf(ps)) \div Day
  PROVE  /\ Max(days) \in Int /\ Min(days) \in Int /\ whole \in Nat
         /\ Max(days) - Min(days) <= whole + (IF Moved(tz_name) > 0 THEN 2 ELSE 1)
         /\ Max(days) - Min(days) >= whole - 1
<1> DEFINE at == [k \in DOMAIN ps |-> ps[k].created_at]
           local == [k \in DOMAIN ps |-> astimezone(at[k], tz_name)]
           span == Span(TimesOf(ps))
           D == Day
<1>1. PICK first \in DOMAIN ps, last \in DOMAIN ps :
        /\ span = at[last] - at[first]
        /\ \A k \in DOMAIN ps : at[first] <= at[k] /\ at[k] <= at[last]
  BY EndsArePosts
<1>2. \A k \in DOMAIN ps : at[k] \in Int /\ local[k] \in Int
  <2>1. \A k \in DOMAIN ps : at[k] \in Int BY DEF PostsOK, PostOK
  <2> HIDE DEF at
  <2>2. ASSUME NEW t \in Int PROVE astimezone(t, tz_name) \in Int
    BY LocalApart
  <2> QED BY <2>1, <2>2
<1>3. Moved(tz_name) \in Int /\ Moved(tz_name) <= D /\ Moved(tz_name) >= -D /\ D \in Nat \ {0}
  BY ZoneShift DEF Moved
<1>4. /\ days = {DateOf(local[k]) : k \in DOMAIN ps} /\ days \in SUBSET Int /\ IsFiniteSet(days)
  <2>1. \A k \in DOMAIN ps : LocalTimes(ps, tz_name)[k] = local[k] BY DEF LocalTimes
  <2>2. ActiveDays(ps, tz_name) = {DateOf(LocalTimes(ps, tz_name)[k]) : k \in DOMAIN ps}
        /\ ActiveDays(ps, tz_name) \in SUBSET Int /\ IsFiniteSet(ActiveDays(ps, tz_name))
    BY ActiveDaysType
  <2> HIDE DEF local
  <2> QED BY <2>1, <2>2
<1>5. \A k \in DOMAIN ps : local[k] = astimezone(at[k], tz_name) OBVIOUS
<1> HIDE DEF at, local, span
<1>6. days # {} BY <1>4
<1>7. /\ Max(days) \in days /\ Min(days) \in days
      /\ \A d \in days : d <= Max(days) /\ Min(days) <= d
  BY <1>4, <1>6, GreatestIsIn, LeastIsIn
<1>8. PICK k \in DOMAIN ps, l \in DOMAIN ps : Max(days) = DateOf(local[k]) /\ Min(days) = DateOf(local[l])
  BY <1>4, <1>7
<1>9. span \in Nat BY <1>1, <1>2
<1>10. whole \in Nat /\ whole = span \div D BY <1>3, <1>9, QuotientNotNegative DEF span
<1> DEFINE gap == local[k] - local[l]
           low == local[last] - local[first]
<1>11. gap \in Int /\ Max(days) - Min(days) <= gap \div D + 1
  <2> DEFINE x == local[k]
             y == local[l]
  <2>1. x \in Int /\ y \in Int /\ Max(days) = x \div D /\ Min(days) = y \div D BY <1>2, <1>8 DEF DateOf
  <2> HIDE DEF x, y, D
  <2>2. (x \div D) - (y \div D) <= (x - y) \div D + 1 BY <1>3, <2>1, QuotientsApart
  <2> QED BY <2>1, <2>2 DEF x, y
<1>12. low \in Int /\ Max(days) - Min(days) >= low \div D
  <2>1. DateOf(local[last]) \in days /\ DateOf(local[first]) \in days BY <1>4
  <2>2. DateOf(local[last]) - DateOf(local[first]) >= low \div D /\ low \div D \in Int
    <3> DEFINE x == local[last]
               y == local[first]
    <3>1. x \in Int /\ y \in Int /\ DateOf(local[last]) = x \div D /\ DateOf(local[first]) = y \div D
      BY <1>2 DEF DateOf
    <3> HIDE DEF x, y, D
    <3>2. (x \div D) - (y \div D) >= (x - y) \div D /\ (x - y) \div D \in Int
      BY <1>3, <3>1, QuotientsApart
    <3> QED BY <3>1, <3>2 DEF x, y
  <2>3. DateOf(local[last]) <= Max(days) /\ Min(days) <= DateOf(local[first]) BY <1>7, <2>1
  <2>4. Max(days) \in Int /\ Min(days) \in Int /\ DateOf(local[last]) \in Int /\ DateOf(local[first]) \in Int
    BY <1>4, <1>7, <2>1
  <2> HIDE DEF low, D
  <2> QED BY <1>2, <2>2, <2>3, <2>4 DEF low
<1>13. low >= span - D
  <2>1. at[first] \in Int /\ at[last] \in Int /\ at[first] <= at[last] BY <1>1, <1>2
  <2>2. low = at[last] - at[first] \/ low = at[last] - at[first] + Moved(tz_name)
    <3>1. local[last] = astimezone(at[last], tz_name) /\ local[first] = astimezone(at[first], tz_name)
      BY <1>5
    <3>2. \/ astimezone(at[last], tz_name) - astimezone(at[first], tz_name) = at[last] - at[first]
          \/ astimezone(at[last], tz_name) - astimezone(at[first], tz_name)
               = at[last] - at[first] + Moved(tz_name)
      BY <2>1, LocalApart
    <3> QED BY <3>1, <3>2, Zenon
  <2> HIDE DEF low, D
  <2> QED BY <1>1, <1>3, <2>1, <2>2
<1>14. low \div D >= whole - 1
  <2> DEFINE less == span - D
  <2>1. less \div D = whole - 1 /\ less \in Int
    <3> HIDE DEF D
    <3>1. span \in Int /\ D \in Nat \ {0} BY <1>3, <1>9
    <3>2. (span - D) \div D = span \div D - 1 BY <3>1, QuotientShifts, Zenon
    <3>3. less \div D = whole - 1 BY <1>10, <3>2, Zenon
    <3>4. less \in Int BY <3>1
    <3> QED BY <3>3, <3>4, Zenon
  <2>2. less <= low BY <1>13
  <2> HIDE DEF less, low, D
  <2>3. low \in Int BY <1>12
  <2> QED BY <1>3, <2>1, <2>2, <2>3, QuotientsOrdered
<1>15. gap <= span + (IF Moved(tz_name) > 0 THEN D ELSE 0) \/ gap <= D - 1
  <2>1. at[k] \in Int /\ at[l] \in Int /\ at[k] - at[l] <= span BY <1>1, <1>2
  <2>2. CASE at[l] <= at[k]
    <3>1. gap = at[k] - at[l] \/ gap = at[k] - at[l] + Moved(tz_name)
      <4>1. local[k] = astimezone(at[k], tz_name) /\ local[l] = astimezone(at[l], tz_name) BY <1>5
      <4> QED BY <2>1, <2>2, <4>1, LocalApart, ZenonT(30)
    <3> HIDE DEF gap, D
    <3> QED BY <1>3, <1>9, <2>1, <3>1
  <2>3. CASE at[k] < at[l]
    <3> DEFINE back == local[l] - local[k]
    <3>1. back = at[l] - at[k] \/ back = at[l] - at[k] + Moved(tz_name)
      <4>1. local[k] = astimezone(at[k], tz_name) /\ local[l] = astimezone(at[l], tz_name) BY <1>5
      <4>2. at[k] <= at[l] BY <2>1, <2>3
      <4>3. \/ astimezone(at[l], tz_name) - astimezone(at[k], tz_name) = at[l] - at[k]
            \/ astimezone(at[l], tz_name) - astimezone(at[k], tz_name) = at[l] - at[k] + Moved(tz_name)
        BY <2>1, <4>2, LocalApart
      <4> QED BY <4>1, <4>3, Zenon
    <3>2. gap = -back /\ back \in Int BY <1>2
    <3> HIDE DEF gap, back, D
    <3> QED BY <1>3, <2>1, <2>3, <3>1, <3>2
  <2> QED BY <2>1, <2>2, <2>3
<1>16. gap \div D <= whole + (IF Moved(tz_name) > 0 THEN 1 ELSE 0)
  <2> HIDE DEF gap
  <2>1. gap \in Int /\ D \in Nat \ {0} BY <1>3, <1>11
  <2>2. CASE gap <= D - 1
    <3> DEFINE top == D - 1
    <3>1. top \in Int /\ top \div D = 0
      <4>1. top \in Int BY <2>1
      <4> QED BY <2>1
    <3> HIDE DEF top, D
    <3>2. gap <= top BY <2>2 DEF top
    <3>3. gap \div D <= 0 /\ gap \div D \in Int BY <2>1, <3>1, <3>2, QuotientsOrdered
    <3> QED BY <1>10, <3>3
  <2>3. CASE gap <= span /\ ~(gap <= D - 1)
    <3> HIDE DEF D
    <3>1. gap \div D <= whole /\ gap \div D \in Int BY <1>9, <1>10, <2>1, <2>3, QuotientsOrdered
    <3> QED BY <1>10, <3>1
  <2>4. CASE Moved(tz_name) > 0 /\ gap <= span + D
    <3> DEFINE more == span + D
    <3>1. more \div D = whole + 1 /\ more \in Int
      <4> HIDE DEF D
      <4>1. span \in Int /\ D \in Nat \ {0} BY <1>3, <1>9
      <4>2. (span + D) \div D = span \div D + 1 BY <4>1, QuotientShifts, Zenon
      <4>3. more \div D = whole + 1 BY <1>10, <4>2, Zenon
      <4>4. more \in Int BY <4>1
      <4> QED BY <4>3, <4>4, Zenon
    <3>2. gap <= more BY <2>4
    <3> HIDE DEF more, D
    <3>3. gap \div D <= more \div D BY <2>1, <3>1, <3>2, QuotientsOrdered
    <3> QED BY <2>4, <3>1, <3>3
  <2> HIDE DEF D
  <2>5. span + 0 = span BY <1>9
  <2> QED BY <1>15, <2>2, <2>3, <2>4, <2>5
<1>17. Max(days) \in Int /\ Min(days) \in Int BY <1>4, <1>7
<1>18. gap \div D \in Int /\ low \div D \in Int
  <2> HIDE DEF gap, low, D
  <2> QED BY <1>3, <1>11, <1>12, Division
<1> HIDE DEF gap, low, D
<1>19. Max(days) - Min(days) >= whole - 1 BY <1>10, <1>12, <1>14, <1>17, <1>18
<1>20. Max(days) - Min(days) <= whole + (IF Moved(tz_name) > 0 THEN 2 ELSE 1)
  BY <1>10, <1>11, <1>16, <1>17, <1>18
<1> QED BY <1>10, <1>17, <1>19, <1>20

(* A full ratio leaves out one day in 2000 at most, which its rounding hides *)
LEMMA FullRatio ==
  ASSUME NEW active \in Nat, NEW total \in Nat \ {0}, ActiveDayRatio(active, total) = 1000
  PROVE  total - active <= total \div 2000 /\ total \div 2000 \in Nat
<1> DEFINE a == Min({active, total})
           m == 1000
           d == 2000
           q == total \div d
           r == total % d
           s == Round(m * a, total)
<1>1. a \in 0..total /\ total - active <= total - a
  <2>1. a = IF active <= total THEN active ELSE total BY MaxMinOfTwo
  <2> HIDE DEF a
  <2> QED BY <2>1
<1>2. s = 1000 BY DEF ActiveDayRatio
<1>3. m \in Nat /\ d \in Nat \ {0} /\ m = 1000 /\ d = 2000 OBVIOUS
<1> HIDE DEF a, m, d
<1>4. q \in Int /\ q \in Nat /\ r \in 0..(d - 1) /\ total = d * q + r
  <2>1. total \in Int /\ total \in Nat OBVIOUS
  <2>a. d \in Nat \ {0} BY <1>3
  <2>2. q \in Int /\ r \in 0..(d - 1) /\ total = d * q + r BY <2>a, <2>1, Division, Zenon
  <2>3. q \in Nat BY <1>3, <2>1, QuotientNotNegative
  <2> QED BY <2>2, <2>3
<1>5. m * a \in Int BY <1>1, <1>3
<1> DEFINE ma == m * a
<1>6. ma \in Int /\ ma = 1000 * a BY <1>1, <1>3
<1>7. s \in Int /\ 2 * (total * s - ma) \in -total..total
  <2> HIDE DEF ma
  <2> QED BY <1>6, RoundNear DEF ma
<1> HIDE DEF ma, s, q, r
<1>8. total * s = 1000 * total BY <1>2
<1>9. 2000 * (total - a) <= total
  <2> DEFINE ts == total * s
  <2>1. ts = 1000 * total /\ 2 * (ts - ma) \in -total..total BY <1>7, <1>8
  <2> HIDE DEF ts
  <2> QED BY <1>1, <1>6, <2>1
<1>10. total = 2000 * q + r /\ r < 2000 /\ r \in Int BY <1>3, <1>4
<1>11. total - a <= q BY <1>1, <1>4, <1>9, <1>10
<1>12. total - active <= q BY <1>1, <1>4, <1>11
<1> QED BY <1>3, <1>4, <1>12 DEF q

(* What the ratio of active days says of the calendar *)
LEMMA CalendarNear ==
  ASSUME NEW ps, PostsOK(ps), Len(ps) > 0, NEW tz_name,
         NEW days, days = ActiveDays(ps, tz_name),
         NEW total, total = TotalDays(TimesOf(ps)),
         NEW ratio, ratio = ActiveDayRatio(Cardinality(days), total)
  PROVE  /\ ratio = 1000 =>
              Max(days) - Min(days) + 1 - Cardinality(days)
                <= (IF Moved(tz_name) > 0 THEN 2 ELSE 1) + total \div 2000
         /\ Max(days) - Min(days) + 1 - Cardinality(days) = 0 => Cardinality(days) >= total - 1
<1> DEFINE whole == Span(TimesOf(ps)) \div Day
           reach == Max(days) - Min(days)
           active == Cardinality(days)
           hidden == IF Moved(tz_name) > 0 THEN 2 ELSE 1
           missed == total \div 2000
<1>1. total = whole + 1 /\ total \in Nat \ {0} BY SpanType
<1>2. active \in Nat BY ActiveDaysType
<1>3. /\ Max(days) \in Int /\ Min(days) \in Int /\ whole \in Nat
      /\ reach <= whole + hidden /\ reach >= whole - 1
  BY DaysSpan
<1>4. hidden \in Int OBVIOUS
<1>5. ratio = 1000 => total - active <= missed /\ missed \in Nat BY <1>1, <1>2, FullRatio
<1>6. reach \in Int BY <1>3
<1> HIDE DEF whole, reach, active, hidden, missed
<1>7. ratio = 1000 => reach + 1 - active <= hidden + missed BY <1>1, <1>2, <1>3, <1>4, <1>5, <1>6
<1>8. reach + 1 - active = 0 => active >= total - 1 BY <1>1, <1>2, <1>3, <1>6
<1> QED BY <1>7, <1>8 DEF reach, active, hidden, missed

-----------------------------------------------------------------------------
(* What is left of a post's text, and its tags in lower case *)
TextOf(ps, k) == Normalized[ps[k].text]
TagsOf(ps, k) == [h \in DOMAIN ps[k].hashtags |-> Lower[ps[k].hashtags[h]]]

(* Posts that have a tag, and those that repeat what an earlier one says *)
WithTag(ps, tag) == {k \in DOMAIN ps : tag \in ToSet(TagsOf(ps, k))}
Redundant(ps) ==
  {k \in DOMAIN ps : TextOf(ps, k) # "" /\ \E l \in 1..(k - 1) : TextOf(ps, l) = TextOf(ps, k)}

(* Two of a kind are more than one *)
LEMMA TwoAreMany ==
  ASSUME NEW S, IsFiniteSet(S), NEW x \in S, NEW y \in S, x # y
  PROVE  Cardinality(S) > 1
<1>1. IsFiniteSet({x}) /\ Cardinality({x}) = 1 BY FS_Singleton
<1>2. IsFiniteSet({x} \cup {y}) /\ Cardinality({x} \cup {y}) = 2
  <2>1. y \notin {x} OBVIOUS
  <2> QED BY <1>1, <2>1, FS_AddElement
<1>3. {x} \cup {y} \in SUBSET S OBVIOUS
<1>4. Cardinality({x} \cup {y}) <= Cardinality(S) BY <1>3, FS_Subset
<1>5. Cardinality(S) \in Nat BY FS_CardinalityType
<1> QED BY <1>2, <1>4, <1>5

(* The groups of equal texts, less one of each, are the redundant posts *)
LEMMA RedundantTexts ==
  ASSUME NEW ps, PostsOK(ps)
  PROVE  Total(DuplicateGroups(ps)) - Cardinality(DOMAIN DuplicateGroups(ps))
           = Cardinality(Redundant(ps))
<1> DEFINE g == [k \in DOMAIN ps |-> Normalized[ps[k].text]]
           c == Counter(g)
           G == DOMAIN DuplicateGroups(ps)
           d == DuplicateGroups(ps)
           S == Redundant(ps)
           e == [t \in G |-> d[t] - 1]
           ones == [t \in G |-> 1]
           F(t) == {k \in DOMAIN g : g[k] = t}
<1>1. /\ Len(ps) \in Nat /\ DOMAIN ps = 1..Len(ps) /\ IsFiniteSet(DOMAIN ps)
  BY SeqDomain DEF PostsOK
<1>2. DOMAIN g = DOMAIN ps OBVIOUS
<1>3. /\ S = {k \in DOMAIN ps : g[k] # "" /\ \E l \in 1..(k - 1) : g[l] = g[k]}
  <2>1. \A k \in DOMAIN ps : g[k] = TextOf(ps, k) BY DEF TextOf
  <2>2. \A k \in DOMAIN ps : \A l \in 1..(k - 1) : l \in DOMAIN ps BY <1>1
  <2> HIDE DEF g
  <2> QED BY <2>1, <2>2 DEF Redundant
<1>4. /\ G = {x \in DOMAIN c : c[x] > 1 /\ x # ""} /\ \A t \in G : d[t] = c[t]
  BY DEF DuplicateGroups
<1> HIDE DEF g, G, d, S
<1>5. /\ DOMAIN c = Range(g) /\ IsFiniteSet(Range(g))
      /\ \A t \in Range(g) : c[t] = Cardinality(F(t)) /\ c[t] \in Nat
  BY <1>1, <1>2, CounterType
<1> HIDE DEF c
<1>6. IsFiniteSet(G) /\ G \subseteq Range(g) BY <1>4, <1>5, FS_Subset
<1>7. IsFiniteSet(S) BY <1>1, <1>3, FS_Subset
<1>8. ASSUME NEW k \in S PROVE g[k] \in G
  <2>1. PICK l \in 1..(k - 1) : g[l] = g[k] BY <1>3
  <2>2. k \in 1..Len(ps) /\ l \in 1..Len(ps) /\ k # l
    <3>1. k \in DOMAIN ps BY <1>3
    <3>2. k \in 1..Len(ps) BY <1>1, <3>1
    <3> QED BY <1>1, <3>2
  <2>3. k \in F(g[k]) /\ l \in F(g[k]) /\ IsFiniteSet(F(g[k]))
    <3>1. F(g[k]) \in SUBSET DOMAIN ps BY <1>2
    <3> QED BY <1>1, <1>2, <2>1, <2>2, <3>1, FS_Subset
  <2>4. Cardinality(F(g[k])) > 1 BY <2>2, <2>3, TwoAreMany
  <2>5. g[k] \in Range(g) BY <1>1, <1>2, <2>2 DEF Range
  <2> QED BY <1>3, <1>4, <1>5, <2>4, <2>5
<1>9. ASSUME NEW t \in G PROVE e[t] = Cardinality({k \in S : g[k] = t}) /\ d[t] \in Int
  <2> DEFINE first == Min(F(t))
  <2>1. F(t) \in SUBSET DOMAIN ps BY <1>2
  <2>2. IsFiniteSet(F(t)) BY <1>1, <2>1, FS_Subset
  <2>3. d[t] = Cardinality(F(t)) /\ d[t] \in Nat BY <1>4, <1>5, <1>6
  <2>4. F(t) # {} BY <1>6, <2>1 DEF Range
  <2>5. F(t) \in SUBSET Int BY <1>1, <2>1
  <2>6. first \in F(t) /\ \A k \in F(t) : first <= k BY <2>2, <2>4, <2>5, LeastIsIn
  <2> HIDE DEF first
  <2>7. {k \in S : g[k] = t} = F(t) \ {first}
    <3>1. ASSUME NEW k \in S, g[k] = t PROVE k \in F(t) /\ k # first
      <4>1. PICK l \in 1..(k - 1) : g[l] = g[k] BY <1>3
      <4>2. k \in 1..Len(ps) /\ l \in 1..Len(ps) /\ l < k
        <5>1. k \in DOMAIN ps BY <1>3
        <5>2. k \in 1..Len(ps) BY <1>1, <5>1
        <5> QED BY <1>1, <5>2
      <4>3. l \in F(t) /\ k \in F(t) BY <1>1, <1>2, <3>1, <4>1, <4>2
      <4> QED BY <1>1, <2>5, <2>6, <4>2, <4>3
    <3>2. ASSUME NEW k \in F(t), k # first PROVE k \in S /\ g[k] = t
      <4>1. first \in 1..Len(ps) /\ k \in 1..Len(ps) /\ g[first] = t /\ g[k] = t
        BY <1>1, <1>2, <2>6
      <4>2. first <= k BY <2>6
      <4>3. first \in 1..(k - 1) BY <3>2, <4>1, <4>2
      <4>4. t # "" BY <1>4
      <4> QED BY <1>1, <1>3, <4>1, <4>3, <4>4
    <3> QED BY <3>1, <3>2
  <2>8. Cardinality(F(t) \ {first}) = Cardinality(F(t)) - 1 BY <2>2, <2>6, FS_RemoveElement
  <2>9. e[t] = d[t] - 1 OBVIOUS
  <2> HIDE DEF e
  <2> QED BY <2>3, <2>7, <2>8, <2>9
<1>10. SumOver(e, G) = Cardinality(S) BY <1>6, <1>7, <1>8, <1>9, CountOfFibres
<1>11. SumOver(ones, G) = Cardinality(G) BY <1>6, SumOfOnes
<1>12. SumOver(d, G) = SumOver(e, G) + SumOver(ones, G)
  <2>1. \A t \in G : e[t] \in Int /\ ones[t] \in Int /\ d[t] = e[t] + ones[t]
    <3>1. \A t \in G : d[t] \in Int BY <1>9
    <3>2. \A t \in G : e[t] = d[t] - 1 /\ ones[t] = 1 OBVIOUS
    <3> HIDE DEF e, ones
    <3> QED BY <3>1, <3>2
  <2> HIDE DEF e, ones
  <2> QED BY <1>6, <2>1, SumPlus
<1>13. Total(d) = SumOver(d, G) BY TotalIs DEF G, d
<1>14. Cardinality(S) \in Nat /\ Cardinality(G) \in Nat BY <1>6, <1>7, FS_CardinalityType
<1> QED BY <1>10, <1>11, <1>12, <1>13, <1>14 DEF d, G, S

(* A tag counts once at least for each post that has it, and only a post    *)
(* that repeats a tag makes it count more                                   *)
LEMMA TagsCounted ==
  ASSUME NEW ps, PostsOK(ps), NEW tag \in Range(Hashtags(ps))
  PROVE  /\ Counter(Hashtags(ps))[tag] >= Cardinality(WithTag(ps, tag))
         /\ Counter(Hashtags(ps))[tag] > Cardinality(WithTag(ps, tag)) =>
              \E k \in WithTag(ps, tag) : Len(TagsOf(ps, k)) > Cardinality(ToSet(TagsOf(ps, k)))
<1> DEFINE uses == Hashtags(ps)
           A == {u \in DOMAIN uses : uses[u] = tag}
           W == WithTag(ps, tag)
           post == [u \in A |-> u[1]]
<1>1. IsFiniteSet(DOMAIN ps) BY SeqDomain DEF PostsOK
<1>2. \A k \in DOMAIN ps : IsSeq(ps[k].hashtags) BY DEF PostsOK, PostOK
<1>3. IsFiniteSet(DOMAIN uses) BY <1>1, <1>2, HashtagUses
<1>4. Counter(uses)[tag] = Cardinality(A) BY <1>3, CounterType
<1>5. A \in SUBSET DOMAIN uses OBVIOUS
<1>6. IsFiniteSet(A) BY <1>3, <1>5, FS_Subset
<1>7. /\ \A u \in DOMAIN uses : /\ u[1] \in DOMAIN ps /\ u[2] \in DOMAIN ps[u[1]].hashtags
                                /\ u = <<u[1], u[2]>>
                                /\ uses[u] = TagsOf(ps, u[1])[u[2]]
      /\ \A k \in DOMAIN ps : \A h \in DOMAIN ps[k].hashtags : <<k, h>> \in DOMAIN uses
  BY DEF Hashtags, TagsOf
<1>8. \A k \in DOMAIN ps : DOMAIN TagsOf(ps, k) = DOMAIN ps[k].hashtags BY DEF TagsOf
<1> HIDE DEF uses
<1>9. post \in Surjection(A, W)
  <2>1. \A u \in A : u[1] \in W BY <1>7, <1>8 DEF WithTag, ToSet
  <2>2. \A k \in W : \E u \in A : u[1] = k
    <3> TAKE k \in W
    <3>1. PICK h \in DOMAIN TagsOf(ps, k) : TagsOf(ps, k)[h] = tag BY DEF WithTag, ToSet
    <3>2. k \in DOMAIN ps /\ <<k, h>> \in DOMAIN uses BY <1>7, <1>8, <3>1 DEF WithTag
    <3>3. uses[<<k, h>>] = tag BY <1>7, <3>1, <3>2
    <3> QED BY <3>2, <3>3
  <2> HIDE DEF A, W
  <2> QED BY <2>1, <2>2 DEF Surjection
<1>10. Cardinality(W) <= Cardinality(A) /\ (Cardinality(W) = Cardinality(A) => post \in Injection(A, W))
       /\ IsFiniteSet(W)
  BY <1>6, <1>9, FS_Surjection
<1>11. Cardinality(W) \in Nat /\ Cardinality(A) \in Nat BY <1>6, <1>10, FS_CardinalityType
<1>12. ASSUME Cardinality(A) > Cardinality(W)
       PROVE  \E k \in W : Len(TagsOf(ps, k)) > Cardinality(ToSet(TagsOf(ps, k)))
  <2>1. PICK u, v \in A : u # v /\ u[1] = v[1]
    <3>1. \E u, v \in A : u # v /\ post[u] = post[v]
      <4>1. W # {}
        <5>1. A # {} BY <1>12, <1>11, <1>6, FS_EmptySet
        <5> QED BY <1>9, <5>1 DEF Surjection
      <4> SUFFICES ASSUME Cardinality(A) # Cardinality(W), \A u, v \in A : post[u] = post[v] => u = v
                   PROVE  FALSE
        BY <1>11, <1>12
      <4> HIDE DEF post, A, W
      <4>2. post \in Injection(A, W) BY <1>9 DEF Injection, IsInjective, Surjection
      <4> QED BY <1>6, <1>9, <4>2, FS_Surjection
    <3> QED BY <3>1
  <2> DEFINE k == u[1]
             tags == TagsOf(ps, u[1])
  <2>2. k \in W BY <1>9 DEF Surjection
  <2>3. k \in DOMAIN ps BY <1>7
  <2>4. /\ u[2] \in DOMAIN tags /\ v[2] \in DOMAIN tags /\ u[2] # v[2]
        /\ tags[u[2]] = tag /\ tags[v[2]] = tag
    BY <1>7, <1>8, <2>1
  <2>5. /\ Len(tags) \in Nat /\ DOMAIN tags = 1..Len(tags)
    <3>1. /\ Len(ps[k].hashtags) \in Nat /\ DOMAIN ps[k].hashtags = 1..Len(ps[k].hashtags)
      BY <1>2, <2>3, SeqDomain
    <3>2. tags = [h \in 1..Len(ps[k].hashtags) |-> tags[h]] BY <3>1 DEF TagsOf
    <3> HIDE DEF tags
    <3> QED BY <3>1, <3>2, FunctionIsSeq
  <2>6. IsFiniteSet(DOMAIN tags) /\ Cardinality(DOMAIN tags) = Len(tags)
    BY <2>5, SizeOfSequence DEF Size
  <2>7. tags \in Surjection(DOMAIN tags, ToSet(tags))
    <3>1. tags = [h \in DOMAIN tags |-> tags[h]] BY DEF TagsOf
    <3> HIDE DEF tags
    <3> QED BY <3>1 DEF Surjection, ToSet
  <2> HIDE DEF tags
  <2>8. tags \notin Injection(DOMAIN tags, ToSet(tags)) BY <2>4 DEF Injection, IsInjective
  <2>9. /\ Cardinality(ToSet(tags)) <= Len(tags) /\ Cardinality(ToSet(tags)) # Len(tags)
        /\ IsFiniteSet(ToSet(tags))
    BY <2>6, <2>7, <2>8, FS_Surjection
  <2>10. Cardinality(ToSet(tags)) \in Nat BY <2>9, FS_CardinalityType
  <2>11. Len(tags) > Cardinality(ToSet(tags)) BY <2>5, <2>9, <2>10
  <2> QED BY <2>2, <2>11 DEF tags
<1> QED BY <1>4, <1>10, <1>11, <1>12 DEF uses

-----------------------------------------------------------------------------
(* The gaps between a bot's posts, once these are in order *)
LEMMA BotGaps ==
  ASSUME NEW ps, NEW m, NEW at, NEW draws, MadeOf(ps, m, at, draws, TRUE), ps # <<>>,
         \A k \in 1..m : IsBotDraw(draws[k]), m > 1
  PROVE  /\ m \in Nat /\ Len(GapsOf(TimesOf(ps))) = m - 1
         /\ DOMAIN GapsOf(TimesOf(ps)) = 1..(m - 1)
         /\ \A k \in 1..(m - 1) :
              /\ GapsOf(TimesOf(ps))[k] \in Int
              /\ 20 * (GapsOf(TimesOf(ps))[k] - Hour) \in -Hour..Hour
<1> DEFINE f == [k \in DOMAIN ps |-> ps[k].created_at]
           times == Sorted(f)
           gaps == GapsOf(times)
<1>1. /\ m \in Nat /\ DOMAIN ps = 1..m
      /\ \A k \in 1..m : ps[k].created_at \in Int
      /\ \A k \in 1..m : k + 1 <= m =>
           20 * (ps[k].created_at - ps[k + 1].created_at - Hour) \in -Hour..Hour
  BY BotTimes
<1>2. /\ DOMAIN f = 1..m /\ \A k \in 1..m : f[k] \in Int
      /\ \A k \in 1..m : k + 1 <= m => 20 * (f[k] - f[k + 1] - Hour) \in -Hour..Hour
  <2>1. \A k \in 1..m : f[k] = ps[k].created_at BY <1>1
  <2>2. \A k \in 1..m : k + 1 <= m => k + 1 \in 1..m BY <1>1
  <2>3. DOMAIN f = 1..m BY <1>1
  <2> HIDE DEF f
  <2> QED BY <1>1, <2>1, <2>2, <2>3
<1>3. TimesOf(ps) = times BY DEF TimesOf
<1> HIDE DEF f
<1>4. Numbers(f) /\ Size(f) = m BY <1>1, <1>2, SizeOfSequence DEF Numbers
<1>5. Hour \in Nat \ {0} BY PostsAssumption DEF PostsAssumption
<1>6. \A k \in 1..m : k + 1 <= m => f[k + 1] < f[k]
  <2> SUFFICES ASSUME NEW k \in 1..m, k + 1 <= m PROVE f[k + 1] < f[k]
    OBVIOUS
  <2>1. k + 1 \in 1..m BY <1>1
  <2>2. f[k] \in Int /\ f[k + 1] \in Int /\ 20 * (f[k] - f[k + 1] - Hour) \in -Hour..Hour
    BY <1>2, <2>1
  <2> QED BY <1>5, <2>2
<1>7. \A k, l \in 1..m : k < l => f[l] < f[k] BY <1>1, <1>2, <1>6, StepsDescend
<1>8. \A k \in 1..m : times[k] = f[m + 1 - k] BY <1>1, <1>2, <1>4, <1>7, SortedReverses
<1>9. Len(times) = m BY <1>4, SortedAscends
<1> HIDE DEF times
<1>10. DOMAIN gaps = 1..(m - 1) /\ \A k \in 1..(m - 1) : gaps[k] = times[k + 1] - times[k]
  BY <1>9 DEF GapsOf
<1>11. Len(gaps) = m - 1
  <2>1. m - 1 \in Nat /\ gaps = [k \in 1..(m - 1) |-> gaps[k]] BY <1>1, <1>9 DEF GapsOf
  <2> HIDE DEF gaps
  <2> QED BY <2>1, FunctionIsSeq
<1>12. ASSUME NEW k \in 1..(m - 1)
       PROVE  gaps[k] \in Int /\ 20 * (gaps[k] - Hour) \in -Hour..Hour
  <2> DEFINE l == m - k
  <2>1. l \in 1..m /\ l + 1 <= m /\ l + 1 \in 1..m /\ k \in 1..m /\ k + 1 \in 1..m
        /\ m + 1 - k = l + 1 /\ m + 1 - (k + 1) = l
    BY <1>1
  <2> HIDE DEF l
  <2>2. times[k] = f[l + 1] /\ times[k + 1] = f[l] BY <1>8, <2>1
  <2>3. gaps[k] = f[l] - f[l + 1] BY <1>10, <2>2
  <2>4. f[l] \in Int /\ f[l + 1] \in Int BY <1>2, <2>1
  <2>5. 20 * (f[l] - f[l + 1] - Hour) \in -Hour..Hour BY <1>2, <2>1
  <2> HIDE DEF gaps
  <2> QED BY <2>3, <2>4, <2>5
<1> QED BY <1>1, <1>3, <1>10, <1>11, <1>12

(* A bot gets all the points there are for regularity *)
LEMMA BotsScore ==
  ASSUME NEW ps, NEW m, NEW at, NEW draws, MadeOf(ps, m, at, draws, TRUE), ps # <<>>,
         \A k \in 1..m : IsBotDraw(draws[k]), m >= regularity_min_posts
  PROVE  score_regularity(ps) = max_points["regular_intervals"]
<1> DEFINE gaps == GapsOf(TimesOf(ps))
<1>1. /\ m \in Nat /\ m >= 5 /\ Len(gaps) = m - 1 /\ DOMAIN gaps = 1..(m - 1)
      /\ \A k \in 1..(m - 1) : gaps[k] \in Int /\ 20 * (gaps[k] - Hour) \in -Hour..Hour
  <2>1. m \in Nat /\ m >= 5 BY DEF MadeOf, regularity_min_posts
  <2>2. m > 1 BY <2>1
  <2> QED BY <2>1, <2>2, BotGaps
<1>2. score_regularity(ps) = IF Len(gaps) < 5 - 1 THEN 0 ELSE Share(2000, 100 - CV(gaps), 85)
  BY DEF score_regularity, regularity_min_posts
<1> HIDE DEF gaps
<1>3. m - 1 \in Nat BY <1>1
<1>4. Numbers(gaps) /\ Size(gaps) = m - 1 BY <1>1, <1>3, SizeOfSequence DEF Numbers
<1>5. Hour \in Nat \ {0} BY PostsAssumption DEF PostsAssumption
<1>6. CV(gaps) <= 10
  <2>1. Size(gaps) > 0 BY <1>1, <1>4
  <2>2. \A k \in DOMAIN gaps : 20 * (gaps[k] - Hour) \in -Hour..Hour BY <1>1
  <2> QED BY <1>4, <1>5, <2>1, <2>2, CloseNumbersVaryLittle
<1>7. CV(gaps) \in Nat BY <1>4, CVType
<1> DEFINE x == 100 - CV(gaps)
           low == 0
           high == 85
<1>8. x \in Int /\ x > high /\ low \in Int /\ high \in Int /\ low <= high BY <1>6, <1>7
<1> HIDE DEF x, low, high
<1>9. Clamp(x, low, high) = high BY <1>8, ClampIs
<1>10. Share(2000, x, 85) = Round(2000 * 85, 85) BY <1>9 DEF Share, low, high
<1>11. Round(2000 * 85, 85) = 2000
  <2>1. (2000 * 85) \div 85 = 2000 /\ (2000 * 85) % 85 = 0 OBVIOUS
  <2> QED BY <2>1 DEF Round
<1>12. score_regularity(ps) = 2000 BY <1>1, <1>2, <1>10, <1>11 DEF x
<1> QED BY <1>12 DEF max_points

-----------------------------------------------------------------------------
(* Posts in any order, as a family *)
Family(ps) == IsFiniteSet(DOMAIN ps) /\ \A k \in DOMAIN ps : PostOK(ps[k])

(* What is computed post by post goes along *)
LEMMA AlongMap ==
  ASSUME NEW b, NEW ps, NEW qs, Along(b, ps, qs), NEW f, NEW g,
         DOMAIN f = DOMAIN ps, DOMAIN g = DOMAIN qs,
         \A x \in DOMAIN qs : g[x] = f[b[x]]
  PROVE  Along(b, f, g)
BY DEF Along

(* Posts in another order are the posts they were *)
LEMMA AlongPosts ==
  ASSUME NEW b, NEW ps, NEW qs, Along(b, ps, qs), Family(ps)
  PROVE  Family(qs)
BY AlongSize, AlongIs DEF Family

(* Their times in order do not depend on the order they come in *)
LEMMA TimesFree ==
  ASSUME NEW b, NEW ps, NEW qs, Along(b, ps, qs), Family(ps)
  PROVE  TimesOf(qs) = TimesOf(ps)
<1> DEFINE f == [k \in DOMAIN ps |-> ps[k].created_at]
           g == [k \in DOMAIN qs |-> qs[k].created_at]
<1>1. \A x \in DOMAIN qs : b[x] \in DOMAIN ps /\ qs[x] = ps[b[x]] BY AlongIs
<1>2. DOMAIN f = DOMAIN ps /\ DOMAIN g = DOMAIN qs /\ \A x \in DOMAIN qs : g[x] = f[b[x]] BY <1>1
<1>3. Numbers(f) BY DEF Numbers, Family, PostOK
<1>4. TimesOf(qs) = Sorted(g) /\ TimesOf(ps) = Sorted(f) BY DEF TimesOf
<1> HIDE DEF f, g
<1>5. Along(b, f, g) BY <1>2, AlongMap
<1> QED BY <1>3, <1>4, <1>5, AlongSorted

(* ... nor do their local times, but for their order *)
LEMMA LocalTimesFree ==
  ASSUME NEW b, NEW ps, NEW qs, Along(b, ps, qs), NEW tz_name
  PROVE  Along(b, LocalTimes(ps, tz_name), LocalTimes(qs, tz_name))
<1> DEFINE f == LocalTimes(ps, tz_name)
           g == LocalTimes(qs, tz_name)
<1>1. \A x \in DOMAIN qs : b[x] \in DOMAIN ps /\ qs[x] = ps[b[x]] BY AlongIs
<1>2. DOMAIN f = DOMAIN ps /\ DOMAIN g = DOMAIN qs /\ \A x \in DOMAIN qs : g[x] = f[b[x]]
  BY <1>1 DEF LocalTimes
<1> HIDE DEF f, g
<1>3. Along(b, f, g) BY <1>2, AlongMap
<1> QED BY <1>3 DEF f, g

(* The distributions count each post once, in whatever order *)
LEMMA CountsFree ==
  ASSUME NEW b, NEW ps, NEW qs, Along(b, ps, qs), NEW tz_name
  PROVE  /\ ByHour(qs, tz_name) = ByHour(ps, tz_name)
         /\ ByWeekday(qs, tz_name) = ByWeekday(ps, tz_name)
         /\ ByPostType(qs) = ByPostType(ps) /\ ByMediaType(qs) = ByMediaType(ps)
<1> DEFINE f == LocalTimes(ps, tz_name)
           g == LocalTimes(qs, tz_name)
<1>1. \A x \in DOMAIN qs : b[x] \in DOMAIN ps /\ qs[x] = ps[b[x]] BY AlongIs
<1>2. \A x \in DOMAIN qs : g[x] = f[b[x]]
  <2>1. Along(b, f, g) BY LocalTimesFree
  <2>2. DOMAIN g = DOMAIN qs BY DEF LocalTimes
  <2> HIDE DEF f, g
  <2> QED BY <2>1, <2>2, AlongIs
<1> HIDE DEF f, g
<1>3. ASSUME NEW h
      PROVE  Cardinality({k \in DOMAIN qs : HourOf(g[k]) = h})
               = Cardinality({k \in DOMAIN ps : HourOf(f[k]) = h})
  <2> DEFINE S == {k \in DOMAIN ps : HourOf(f[k]) = h}
             T == {k \in DOMAIN qs : HourOf(g[k]) = h}
  <2>1. Corresponds(b, ps, qs, S, T) BY <1>1, <1>2 DEF Corresponds
  <2> HIDE DEF S, T
  <2>2. Cardinality(T) = Cardinality(S) BY <2>1, AlongPart
  <2> QED BY <2>2 DEF S, T
<1>4. ASSUME NEW d
      PROVE  Cardinality({k \in DOMAIN qs : WeekdayOf(g[k]) = d})
               = Cardinality({k \in DOMAIN ps : WeekdayOf(f[k]) = d})
  <2> DEFINE S == {k \in DOMAIN ps : WeekdayOf(f[k]) = d}
             T == {k \in DOMAIN qs : WeekdayOf(g[k]) = d}
  <2>1. Corresponds(b, ps, qs, S, T) BY <1>1, <1>2 DEF Corresponds
  <2> HIDE DEF S, T
  <2>2. Cardinality(T) = Cardinality(S) BY <2>1, AlongPart
  <2> QED BY <2>2 DEF S, T
<1>5. ASSUME NEW t
      PROVE  Cardinality({k \in DOMAIN qs : qs[k].post_type = t})
               = Cardinality({k \in DOMAIN ps : ps[k].post_type = t})
  <2> DEFINE S == {k \in DOMAIN ps : ps[k].post_type = t}
             T == {k \in DOMAIN qs : qs[k].post_type = t}
  <2>1. Corresponds(b, ps, qs, S, T) BY <1>1 DEF Corresponds
  <2> HIDE DEF S, T
  <2>2. Cardinality(T) = Cardinality(S) BY <2>1, AlongPart
  <2> QED BY <2>2 DEF S, T
<1>6. ASSUME NEW t
      PROVE  Cardinality({k \in DOMAIN qs : qs[k].media_type = t})
               = Cardinality({k \in DOMAIN ps : ps[k].media_type = t})
  <2> DEFINE S == {k \in DOMAIN ps : ps[k].media_type = t}
             T == {k \in DOMAIN qs : qs[k].media_type = t}
  <2>1. Corresponds(b, ps, qs, S, T) BY <1>1 DEF Corresponds
  <2> HIDE DEF S, T
  <2>2. Cardinality(T) = Cardinality(S) BY <2>1, AlongPart
  <2> QED BY <2>2 DEF S, T
<1>7. ByHour(qs, tz_name) = ByHour(ps, tz_name) BY <1>3 DEF ByHour, f, g
<1>8. ByWeekday(qs, tz_name) = ByWeekday(ps, tz_name) BY <1>4 DEF ByWeekday, f, g
<1>9. ByPostType(qs) = ByPostType(ps) BY <1>5 DEF ByPostType
<1>10. ByMediaType(qs) = ByMediaType(ps) BY <1>6 DEF ByMediaType
<1> QED BY <1>7, <1>8, <1>9, <1>10

(* The activity figures are made of these *)
ActivityOf(size, times, hourly, weekly, composition, active, daily, burst_count) ==
  LET gaps == GapsOf(times) IN
  [post_count  |-> size,
   posts_per_day |-> PostsPerDay(times),
   hourly_distribution |-> hourly,
   weekly_distribution |-> weekly,
   most_active_hour    |-> Min({h \in 0..23 : hourly[h] = Top(hourly)}),
   most_active_weekday |-> Min({d \in 0..6 : weekly[d] = Top(weekly)}),
   composition |-> composition,
   median_gap2 |-> IF gaps = <<>> THEN None ELSE Median2(gaps),
   longest_inactive |-> IF gaps = <<>> THEN None ELSE Max(Range(gaps)),
   active_day_ratio |-> ActiveDayRatio(Cardinality(active), TotalDays(times)),
   daily_count_cv   |-> IF Cardinality(active) > 1 THEN CV(daily) ELSE None,
   burst_count |-> burst_count]

(* Posts by local date *)
Dates(ps, tz_name) ==
  [k \in DOMAIN LocalTimes(ps, tz_name) |-> DateOf(LocalTimes(ps, tz_name)[k])]

(* The activity figures do not depend on the order of the posts *)
LEMMA ActivityFree ==
  ASSUME NEW b, NEW ps, NEW qs, Along(b, ps, qs), Family(ps), NEW tz_name, NEW burst_count
  PROVE  ActivityMetrics(qs, tz_name, burst_count) = ActivityMetrics(ps, tz_name, burst_count)
<1>1. ASSUME NEW rs
      PROVE  ActivityMetrics(rs, tz_name, burst_count) =
               ActivityOf(Size(rs), TimesOf(rs), ByHour(rs, tz_name), ByWeekday(rs, tz_name),
                          ByPostType(rs), ActiveDays(rs, tz_name), Counter(Dates(rs, tz_name)),
                          burst_count)
  <2> DEFINE local == LocalTimes(rs, tz_name)
             hourly == [h \in 0..23 |-> CountWhere(local, LAMBDA lt : HourOf(lt) = h)]
             weekly == [d \in 0..6 |-> CountWhere(local, LAMBDA lt : WeekdayOf(lt) = d)]
             composition == [t \in PostTypes |-> CountWhere(rs, LAMBDA p : p.post_type = t)]
             daily == Counter([k \in DOMAIN local |-> DateOf(local[k])])
  <2>1. ActivityMetrics(rs, tz_name, burst_count) =
          ActivityOf(Size(rs), TimesOf(rs), hourly, weekly, composition, ActiveDays(rs, tz_name),
                     daily, burst_count)
    BY DEF ActivityMetrics, ActivityOf
  <2>2. hourly = ByHour(rs, tz_name) /\ weekly = ByWeekday(rs, tz_name)
    <3>1. DOMAIN local = DOMAIN rs BY DEF LocalTimes
    <3> HIDE DEF local
    <3>2. \A h : CountWhere(local, LAMBDA lt : HourOf(lt) = h)
                   = Cardinality({k \in DOMAIN rs : HourOf(local[k]) = h})
      BY <3>1 DEF CountWhere
    <3>3. \A d : CountWhere(local, LAMBDA lt : WeekdayOf(lt) = d)
                   = Cardinality({k \in DOMAIN rs : WeekdayOf(local[k]) = d})
      BY <3>1 DEF CountWhere
    <3> QED BY <3>2, <3>3 DEF ByHour, ByWeekday, local
  <2>3. composition = ByPostType(rs) BY DEF CountWhere, ByPostType
  <2>4. daily = Counter(Dates(rs, tz_name)) BY DEF Dates
  <2> HIDE DEF hourly, weekly, composition, daily
  <2> QED BY <2>1, <2>2, <2>3, <2>4
<1>2. Size(qs) = Size(ps) BY AlongSize
<1>3. TimesOf(qs) = TimesOf(ps) BY TimesFree
<1>4. /\ ByHour(qs, tz_name) = ByHour(ps, tz_name)
      /\ ByWeekday(qs, tz_name) = ByWeekday(ps, tz_name)
      /\ ByPostType(qs) = ByPostType(ps)
  BY CountsFree
<1> DEFINE f == LocalTimes(ps, tz_name)
           g == LocalTimes(qs, tz_name)
<1>5. Along(b, f, g) BY LocalTimesFree
<1>6. ActiveDays(qs, tz_name) = ActiveDays(ps, tz_name)
  <2> HIDE DEF f, g
  <2>1. Range(g) = Range(f) BY <1>5, AlongSize
  <2> QED BY <2>1 DEF ActiveDays, f, g
<1>7. Counter(Dates(qs, tz_name)) = Counter(Dates(ps, tz_name))
  <2> DEFINE c == Dates(ps, tz_name)
             d == Dates(qs, tz_name)
  <2>1. DOMAIN c = DOMAIN f /\ DOMAIN d = DOMAIN g BY DEF Dates
  <2> HIDE DEF f, g
  <2>2. \A x \in DOMAIN g : b[x] \in DOMAIN f /\ g[x] = f[b[x]] BY <1>5, AlongIs
  <2>3. \A x \in DOMAIN g : d[x] = c[b[x]] BY <2>2 DEF Dates, f, g
  <2> HIDE DEF c, d
  <2>4. Along(b, c, d) BY <1>5, <2>1, <2>3, AlongMap
  <2>5. Counter(d) = Counter(c) BY <2>4, AlongCounter
  <2> QED BY <2>5 DEF c, d
<1> QED BY <1>1, <1>2, <1>3, <1>4, <1>6, <1>7

-----------------------------------------------------------------------------
(* The uses of things that lie at the places d[k] of post k, and where      *)
(* another order has them                                                   *)
Uses(d) == UNION {{k} \X d[k] : k \in DOMAIN d}
ByUse(b, e) == [u \in Uses(e) |-> <<b[u[1]], u[2]>>]

(* A use is of a post, at a place of it *)
LEMMA UseIs ==
  ASSUME NEW d
  PROVE  /\ \A u \in Uses(d) : u[1] \in DOMAIN d /\ u[2] \in d[u[1]] /\ u = <<u[1], u[2]>>
         /\ \A k \in DOMAIN d : \A h \in d[k] : <<k, h>> \in Uses(d)
<1>1. ASSUME NEW u \in Uses(d)
      PROVE  u[1] \in DOMAIN d /\ u[2] \in d[u[1]] /\ u = <<u[1], u[2]>>
  <2>1. PICK k \in DOMAIN d : u \in {k} \X d[k] BY DEF Uses
  <2>2. u[1] = k /\ u[2] \in d[k] /\ u = <<u[1], u[2]>> BY <2>1
  <2> QED BY <2>2
<1>2. ASSUME NEW k \in DOMAIN d, NEW h \in d[k] PROVE <<k, h>> \in Uses(d)
  <2>1. <<k, h>> \in {k} \X d[k] OBVIOUS
  <2> QED BY <2>1 DEF Uses
<1> QED BY <1>1, <1>2

(* Other orders of the posts are other orders of the uses *)
LEMMA UsesAlong ==
  ASSUME NEW b, NEW d, NEW e, Along(b, d, e)
  PROVE  ByUse(b, e) \in Bijection(Uses(e), Uses(d))
<1> DEFINE c == ByUse(b, e)
<1>1. /\ \A x \in DOMAIN e : b[x] \in DOMAIN d /\ e[x] = d[b[x]]
      /\ \A x, y \in DOMAIN e : b[x] = b[y] => x = y
      /\ \A z \in DOMAIN d : \E x \in DOMAIN e : b[x] = z
  BY AlongIs
<1>2. /\ \A u \in Uses(e) : u[1] \in DOMAIN e /\ u[2] \in e[u[1]] /\ u = <<u[1], u[2]>>
      /\ \A k \in DOMAIN e : \A h \in e[k] : <<k, h>> \in Uses(e)
  BY UseIs
<1>3. /\ \A u \in Uses(d) : u[1] \in DOMAIN d /\ u[2] \in d[u[1]] /\ u = <<u[1], u[2]>>
      /\ \A k \in DOMAIN d : \A h \in d[k] : <<k, h>> \in Uses(d)
  BY UseIs
<1>4. \A u \in Uses(e) : c[u] = <<b[u[1]], u[2]>> BY DEF ByUse
<1>5. DOMAIN c = Uses(e) /\ c = [u \in Uses(e) |-> c[u]] BY DEF ByUse
<1> HIDE DEF c
<1>6. \A u \in Uses(e) : c[u] \in Uses(d) BY <1>1, <1>2, <1>3, <1>4
<1>7. c \in [Uses(e) -> Uses(d)] BY <1>5, <1>6
<1>8. ASSUME NEW u \in Uses(e), NEW v \in Uses(e), c[u] = c[v] PROVE u = v
  <2>1. b[u[1]] = b[v[1]] /\ u[2] = v[2] BY <1>4, <1>8
  <2>2. u[1] = v[1] BY <1>1, <1>2, <2>1
  <2> QED BY <1>2, <2>1, <2>2
<1>9. ASSUME NEW v \in Uses(d) PROVE \E u \in Uses(e) : c[u] = v
  <2>1. PICK x \in DOMAIN e : b[x] = v[1] BY <1>1, <1>3
  <2>2. v[2] \in e[x] BY <1>1, <1>3, <2>1
  <2> DEFINE u == <<x, v[2]>>
  <2>3. u \in Uses(e) BY <1>2, <2>2
  <2>4. c[u] = v BY <1>3, <1>4, <2>1, <2>3
  <2> QED BY <2>3, <2>4
<1> QED BY <1>7, <1>8, <1>9 DEF Bijection, Injection, Surjection, IsInjective, c

(* Where the tags and the links of posts are *)
TagPlaces(ps)  == [k \in DOMAIN ps |-> DOMAIN ps[k].hashtags]
LinkPlaces(ps) == [k \in DOMAIN ps |-> DOMAIN ps[k].urls]

(* The tags of posts in another order are those of the posts *)
LEMMA HashtagsFree ==
  ASSUME NEW b, NEW ps, NEW qs, Along(b, ps, qs), Family(ps)
  PROVE  Counter(Hashtags(qs)) = Counter(Hashtags(ps))
<1> DEFINE f == Hashtags(ps)
           g == Hashtags(qs)
           d == TagPlaces(ps)
           e == TagPlaces(qs)
           c == ByUse(b, e)
<1>1. \A x \in DOMAIN qs : b[x] \in DOMAIN ps /\ qs[x] = ps[b[x]] BY AlongIs
<1>2. /\ DOMAIN d = DOMAIN ps /\ DOMAIN e = DOMAIN qs
      /\ \A x \in DOMAIN qs : e[x] = d[b[x]] /\ e[x] = DOMAIN qs[x].hashtags
  BY <1>1 DEF TagPlaces
<1>3. DOMAIN f = Uses(d) /\ DOMAIN g = Uses(e) BY DEF Hashtags, TagPlaces, Uses
<1>4. /\ \A u \in DOMAIN f : f[u] = Lower[ps[u[1]].hashtags[u[2]]]
      /\ \A u \in DOMAIN g : g[u] = Lower[qs[u[1]].hashtags[u[2]]]
  BY DEF Hashtags
<1>5. IsFiniteSet(DOMAIN f) BY HashtagUses DEF Family, PostOK
<1>6. \A u \in Uses(e) : c[u] = <<b[u[1]], u[2]>> BY DEF ByUse
<1> HIDE DEF d, e, f, g
<1>7. Along(b, d, e) BY <1>2, AlongMap
<1>8. c \in Bijection(Uses(e), Uses(d)) BY <1>7, UsesAlong
<1> HIDE DEF c
<1>9. ASSUME NEW u \in DOMAIN g PROVE g[u] = f[c[u]]
  <2>1. c[u] \in DOMAIN f BY <1>3, <1>8 DEF Bijection, Injection
  <2>2. u[1] \in DOMAIN qs BY <1>2, <1>3, UseIs
  <2>3. qs[u[1]] = ps[b[u[1]]] BY <1>1, <2>2
  <2>4. c[u][1] = b[u[1]] /\ c[u][2] = u[2] BY <1>3, <1>6
  <2> QED BY <1>4, <2>1, <2>3, <2>4
<1>10. Along(c, f, g) BY <1>3, <1>5, <1>8, <1>9 DEF Along
<1>11. Counter(g) = Counter(f) BY <1>10, AlongCounter
<1> QED BY <1>11 DEF f, g

(* ... and so are the domains of their links *)
LEMMA DomainsFree ==
  ASSUME NEW b, NEW ps, NEW qs, Along(b, ps, qs), Family(ps)
  PROVE  Counter(Domains(qs)) = Counter(Domains(ps))
<1> DEFINE f == Domains(ps)
           g == Domains(qs)
           d == LinkPlaces(ps)
           e == LinkPlaces(qs)
           c == ByUse(b, e)
           S == {u \in Uses(d) : DomainOf[ps[u[1]].urls[u[2]]] # None}
           T == {u \in Uses(e) : DomainOf[qs[u[1]].urls[u[2]]] # None}
           o == [u \in T |-> c[u]]
<1>1. \A x \in DOMAIN qs : b[x] \in DOMAIN ps /\ qs[x] = ps[b[x]] BY AlongIs
<1>2. /\ DOMAIN d = DOMAIN ps /\ DOMAIN e = DOMAIN qs
      /\ \A x \in DOMAIN qs : e[x] = d[b[x]] /\ e[x] = DOMAIN qs[x].urls
  BY <1>1 DEF LinkPlaces
<1>3. DOMAIN f = S /\ DOMAIN g = T
  BY DEF Domains, RestrictValues, Restrict, LinkPlaces, Uses
<1>4. /\ \A u \in DOMAIN f : f[u] = DomainOf[ps[u[1]].urls[u[2]]]
      /\ \A u \in DOMAIN g : g[u] = DomainOf[qs[u[1]].urls[u[2]]]
  BY DEF Domains, RestrictValues, Restrict
<1>5. IsFiniteSet(DOMAIN f) BY DomainUses DEF Family, PostOK
<1>6. \A u \in Uses(e) : c[u] = <<b[u[1]], u[2]>> BY DEF ByUse
<1> HIDE DEF d, e, f, g
<1>7. Along(b, d, e) BY <1>2, AlongMap
<1>8. c \in Bijection(Uses(e), Uses(d)) BY <1>7, UsesAlong
<1> HIDE DEF c
<1>9. ASSUME NEW u \in Uses(e)
      PROVE  /\ c[u] \in Uses(d)
             /\ DomainOf[qs[u[1]].urls[u[2]]] = DomainOf[ps[c[u][1]].urls[c[u][2]]]
  <2>1. c[u] \in Uses(d) BY <1>8 DEF Bijection, Injection
  <2>2. u[1] \in DOMAIN qs BY <1>2, UseIs
  <2>3. qs[u[1]] = ps[b[u[1]]] BY <1>1, <2>2
  <2>4. c[u][1] = b[u[1]] /\ c[u][2] = u[2] BY <1>6
  <2> QED BY <2>1, <2>3, <2>4
<1>10. \A u \in Uses(e) : u \in T <=> c[u] \in S BY <1>9
<1>11. \A u \in T : o[u] = c[u] OBVIOUS
<1>12. /\ T \subseteq Uses(e) /\ S \subseteq Uses(d)
       /\ \A u \in T : g[u] = f[c[u]]
  BY <1>3, <1>4, <1>9, <1>10
<1>13. DOMAIN o = T /\ o = [u \in T |-> o[u]] OBVIOUS
<1> HIDE DEF S, T, o
<1>14. o \in Bijection(T, S)
  <2>1. o \in [T -> S] BY <1>10, <1>11, <1>12, <1>13
  <2>2. \A u, v \in T : o[u] = o[v] => u = v
    BY <1>8, <1>11, <1>12 DEF Bijection, Injection, IsInjective
  <2>3. \A z \in S : \E u \in T : o[u] = z
    <3> SUFFICES ASSUME NEW z \in S PROVE \E u \in T : o[u] = z
      OBVIOUS
    <3>1. PICK u \in Uses(e) : c[u] = z BY <1>8, <1>12 DEF Bijection, Surjection
    <3> QED BY <1>10, <1>11, <3>1
  <2> QED BY <2>1, <2>2, <2>3 DEF Bijection, Injection, Surjection, IsInjective
<1>15. \A u \in DOMAIN g : g[u] = f[o[u]] BY <1>3, <1>11, <1>12
<1>16. Along(o, f, g) BY <1>3, <1>5, <1>14, <1>15 DEF Along
<1>17. Counter(g) = Counter(f) BY <1>16, AlongCounter
<1> QED BY <1>17 DEF f, g

(* The content figures are made of these *)
ContentOf(size, groups, hashtags, domains, media) ==
  [post_count      |-> size,
   hashtags        |-> hashtags,
   domains         |-> domains,
   media_usage     |-> media,
   duplicate_ratio |-> Round(1000 * (Total(groups) - Cardinality(DOMAIN groups)), size)]

(* What is left of the texts *)
TextsLeft(ps) == [k \in DOMAIN ps |-> Normalized[ps[k].text]]

(* The content figures do not depend on the order of the posts *)
LEMMA ContentFree ==
  ASSUME NEW b, NEW ps, NEW qs, Along(b, ps, qs), Family(ps)
  PROVE  ContentMetrics(qs) = ContentMetrics(ps)
<1>1. ASSUME NEW rs
      PROVE  ContentMetrics(rs) =
               ContentOf(Size(rs), DuplicateGroups(rs), Counter(Hashtags(rs)),
                         Counter(Domains(rs)), ByMediaType(rs))
  <2>1. MediaUsage(rs) = ByMediaType(rs) BY DEF MediaUsage, CountWhere, ByMediaType
  <2>2. ContentMetrics(rs) =
          ContentOf(Size(rs), DuplicateGroups(rs), Counter(Hashtags(rs)),
                    Counter(Domains(rs)), MediaUsage(rs))
    BY DEF ContentMetrics, ContentOf
  <2> QED BY <2>1, <2>2
<1>2. Size(qs) = Size(ps) BY AlongSize
<1>3. DuplicateGroups(qs) = DuplicateGroups(ps)
  <2> DEFINE f == TextsLeft(ps)
             g == TextsLeft(qs)
  <2>1. \A x \in DOMAIN qs : b[x] \in DOMAIN ps /\ qs[x] = ps[b[x]] BY AlongIs
  <2>2. DOMAIN f = DOMAIN ps /\ DOMAIN g = DOMAIN qs /\ \A x \in DOMAIN qs : g[x] = f[b[x]]
    BY <2>1 DEF TextsLeft
  <2> HIDE DEF f, g
  <2>3. Along(b, f, g) BY <2>2, AlongMap
  <2>4. Counter(g) = Counter(f) BY <2>3, AlongCounter
  <2>5. \A rs : DuplicateGroups(rs) =
                  [t \in {x \in DOMAIN Counter(TextsLeft(rs)) :
                            Counter(TextsLeft(rs))[x] > 1 /\ x # ""} |-> Counter(TextsLeft(rs))[t]]
    BY DEF DuplicateGroups, TextsLeft
  <2> QED BY <2>4, <2>5 DEF f, g
<1>4. Counter(Hashtags(qs)) = Counter(Hashtags(ps)) BY HashtagsFree
<1>5. Counter(Domains(qs)) = Counter(Domains(ps)) BY DomainsFree
<1>6. ByMediaType(qs) = ByMediaType(ps)
  <2> DEFINE tz == "UTC"
  <2>1. tz = tz OBVIOUS
  <2> HIDE DEF tz
  <2> QED BY CountsFree
<1> QED BY <1>1, <1>2, <1>3, <1>4, <1>5, <1>6

-----------------------------------------------------------------------------
(* The scores of posts are numbers *)
Scored(ps) == \A k \in DOMAIN ps : Compound[ps[k].text] \in Int

Scores(ps)     == [k \in DOMAIN ps |-> Compound[ps[k].text]]
UTCDates(ps)   == [k \in DOMAIN ps |-> DateOf(ps[k].created_at)]
ByClass(ps)    == [l \in {"positive", "neutral", "negative"} |->
                     Cardinality({k \in DOMAIN ps : classify(Compound[ps[k].text]) = l})]

(* The sentiment figures are made of these *)
SentimentFrom(size, analyzed, language, counts, days, sum, by_tag) ==
  LET skipped == size - analyzed
      scored  == analyzed >= MIN_ANALYZABLE
  IN
  [available |-> scored,
   reason    |-> CASE scored -> None
                   [] ~scored /\ skipped >= size -> "unsupported_language"
                   [] OTHER -> "insufficient_english_posts",
   analyzed_count      |-> analyzed,
   skipped_unsupported |-> skipped,
   detected_language   |-> language,
   counts     |-> counts,
   trend      |-> IF scored THEN days ELSE <<>>,
   average    |-> IF scored THEN Round(100 * sum, analyzed) ELSE None,
   by_hashtag |-> IF scored THEN RestrictValues(by_tag, LAMBDA uses : uses >= 2) ELSE <<>>]

(* The posts that are analysed are the same ones *)
LEMMA AnalyzedFree ==
  ASSUME NEW b, NEW ps, NEW qs, Along(b, ps, qs)
  PROVE  Along(On(b, DOMAIN Analyzed(qs)), Analyzed(ps), Analyzed(qs))
<1> DEFINE f == Analyzed(ps)
           g == Analyzed(qs)
           S == DOMAIN f
           T == DOMAIN g
<1>1. \A x \in DOMAIN qs : b[x] \in DOMAIN ps /\ qs[x] = ps[b[x]] BY AlongIs
<1>2. /\ S = {k \in DOMAIN ps : detect_lang(ps[k]) \in SUPPORTED_LANGUAGES}
      /\ T = {k \in DOMAIN qs : detect_lang(qs[k]) \in SUPPORTED_LANGUAGES}
      /\ \A k \in S : f[k] = ps[k]
      /\ \A k \in T : g[k] = qs[k]
  BY DEF Analyzed, RestrictValues, Restrict
<1> HIDE DEF f, g, S, T
<1>3. Corresponds(b, ps, qs, S, T) BY <1>1, <1>2 DEF Corresponds
<1>4. IsFiniteSet(S) /\ On(b, T) \in Bijection(T, S) BY <1>3, AlongPart
<1>5. \A x \in T : On(b, T)[x] = b[x] BY DEF On
<1>6. \A x \in T : b[x] \in S BY <1>2, <1>3 DEF Corresponds
<1>7. \A x \in T : g[x] = f[On(b, T)[x]] BY <1>1, <1>2, <1>5, <1>6
<1> QED BY <1>4, <1>7 DEF Along, S, T, f, g

(* But for the language detected, the sentiment figures do not depend on    *)
(* the order of the posts                                                   *)
LEMMA SentimentFree ==
  ASSUME NEW b, NEW ps, NEW qs, Along(b, ps, qs), Family(ps), Scored(ps)
  PROVE  [SentimentMetrics(qs) EXCEPT !.detected_language = None]
           = [SentimentMetrics(ps) EXCEPT !.detected_language = None]
<1> DEFINE f == Analyzed(ps)
           g == Analyzed(qs)
           c == On(b, DOMAIN g)
<1>1. ASSUME NEW rs
      PROVE  SentimentMetrics(rs) =
               SentimentFrom(Size(rs), Size(Analyzed(rs)), DetectedLanguage(rs),
                             ByClass(Analyzed(rs)), Counter(UTCDates(Analyzed(rs))),
                             Total(Scores(Analyzed(rs))), Counter(Hashtags(Analyzed(rs))))
  <2> DEFINE a == Analyzed(rs)
             score(p) == Compound[p.text]
             counts == [l \in {"positive", "neutral", "negative"} |->
                          CountWhere(a, LAMBDA p : classify(score(p)) = l)]
  <2>1. SentimentMetrics(rs) =
          SentimentFrom(Size(rs), Size(a), DetectedLanguage(rs), counts, Counter(UTCDates(a)),
                        SumOf(a, score), Counter(Hashtags(a)))
    BY DEF SentimentMetrics, SentimentFrom, UTCDates
  <2>2. counts = ByClass(a) BY DEF CountWhere, ByClass
  <2>3. SumOf(a, score) = Total(Scores(a)) BY DEF SumOf, Scores
  <2> HIDE DEF counts, score
  <2> QED BY <2>1, <2>2, <2>3
<1>2. Along(c, f, g) BY AnalyzedFree
<1>3. DOMAIN f \subseteq DOMAIN ps /\ \A k \in DOMAIN f : f[k] = ps[k]
  BY DEF Analyzed, RestrictValues, Restrict
<1> HIDE DEF f, g, c
<1>4. Family(f)
  <2>1. IsFiniteSet(DOMAIN f) BY <1>2 DEF Along
  <2> QED BY <1>3, <2>1 DEF Family
<1>5. Scored(f) BY <1>3 DEF Scored
<1>6. \A x \in DOMAIN g : c[x] \in DOMAIN f /\ g[x] = f[c[x]] BY <1>2, AlongIs
<1>7. Size(qs) = Size(ps) BY AlongSize
<1>8. Size(g) = Size(f) BY <1>2, AlongSize
<1>9. ByClass(g) = ByClass(f)
  <2>1. ASSUME NEW l
        PROVE  Cardinality({k \in DOMAIN g : classify(Compound[g[k].text]) = l})
                 = Cardinality({k \in DOMAIN f : classify(Compound[f[k].text]) = l})
    <3> DEFINE S == {k \in DOMAIN f : classify(Compound[f[k].text]) = l}
               T == {k \in DOMAIN g : classify(Compound[g[k].text]) = l}
    <3>1. Corresponds(c, f, g, S, T) BY <1>2, <1>6 DEF Corresponds
    <3> HIDE DEF S, T
    <3>2. Cardinality(T) = Cardinality(S) BY <3>1, AlongPart
    <3> QED BY <3>2 DEF S, T
  <2> QED BY <2>1 DEF ByClass
<1>10. Counter(UTCDates(g)) = Counter(UTCDates(f))
  <2> DEFINE v == UTCDates(f)
             w == UTCDates(g)
  <2>1. DOMAIN v = DOMAIN f /\ DOMAIN w = DOMAIN g /\ \A x \in DOMAIN g : w[x] = v[c[x]]
    BY <1>6 DEF UTCDates
  <2> HIDE DEF v, w
  <2>2. Along(c, v, w) BY <1>2, <2>1, AlongMap
  <2>3. Counter(w) = Counter(v) BY <2>2, AlongCounter
  <2> QED BY <2>3 DEF v, w
<1>11. Total(Scores(g)) = Total(Scores(f))
  <2> DEFINE v == Scores(f)
             w == Scores(g)
  <2>1. DOMAIN v = DOMAIN f /\ DOMAIN w = DOMAIN g /\ \A x \in DOMAIN g : w[x] = v[c[x]]
    BY <1>6 DEF Scores
  <2>2. \A x \in DOMAIN v : v[x] \in Int BY <1>5 DEF Scores, Scored
  <2> HIDE DEF v, w
  <2>3. Along(c, v, w) BY <1>2, <2>1, AlongMap
  <2>4. Total(w) = Total(v) BY <2>2, <2>3, AlongTotal
  <2> QED BY <2>4 DEF v, w
<1>12. Counter(Hashtags(g)) = Counter(Hashtags(f)) BY <1>2, <1>4, HashtagsFree
<1> DEFINE from(language) ==
             SentimentFrom(Size(ps), Size(f), language, ByClass(f), Counter(UTCDates(f)),
                           Total(Scores(f)), Counter(Hashtags(f)))
<1>13. SentimentMetrics(ps) = from(DetectedLanguage(ps)) BY <1>1 DEF f
<1>14. SentimentMetrics(qs) = from(DetectedLanguage(qs))
  BY <1>1, <1>7, <1>8, <1>9, <1>10, <1>11, <1>12 DEF g
<1>15. ASSUME NEW language
       PROVE  [from(language) EXCEPT !.detected_language = None] = from(None)
  <2> DEFINE reason == from(None).reason
             trend == from(None).trend
             average == from(None).average
             by_hashtag == from(None).by_hashtag
             made(lang) ==
               [available |-> Size(f) >= MIN_ANALYZABLE, reason |-> reason,
                analyzed_count |-> Size(f), skipped_unsupported |-> Size(ps) - Size(f),
                detected_language |-> lang, counts |-> ByClass(f), trend |-> trend,
                average |-> average, by_hashtag |-> by_hashtag]
  <2>1. from(language) = made(language) BY DEF SentimentFrom
  <2>2. from(None) = made(None) BY DEF SentimentFrom
  <2> HIDE DEF reason, trend, average, by_hashtag, from
  <2>3. [made(language) EXCEPT !.detected_language = None] = made(None) OBVIOUS
  <2> QED BY <2>1, <2>2, <2>3
<1> HIDE DEF from
<1> QED BY <1>13, <1>14, <1>15

(* In how many posts a language is spoken *)
Speakers(ps, lang) == Cardinality(With(Spoken(ps), lang))

LEMMA SpokenAre ==
  ASSUME NEW ps
  PROVE  /\ DOMAIN Spoken(ps) = {k \in DOMAIN ps : detect_lang(ps[k]) # None}
         /\ \A k \in DOMAIN Spoken(ps) : Spoken(ps)[k] = detect_lang(ps[k])
<1> DEFINE langs == [k \in DOMAIN ps |-> detect_lang(ps[k])]
<1>1. Spoken(ps) = [k \in {l \in DOMAIN langs : langs[l] # None} |-> langs[k]]
  BY DEF Spoken, RestrictValues, Restrict
<1> QED BY <1>1

(* In another order as many posts are in each language *)
LEMMA SpokenFree ==
  ASSUME NEW b, NEW ps, NEW qs, Along(b, ps, qs)
  PROVE  /\ Counter(Spoken(qs)) = Counter(Spoken(ps))
         /\ \A lang : Speakers(qs, lang) = Speakers(ps, lang)
<1> DEFINE f == Spoken(ps)
           g == Spoken(qs)
           S == DOMAIN f
           T == DOMAIN g
           c == On(b, T)
<1>1. \A x \in DOMAIN qs : b[x] \in DOMAIN ps /\ qs[x] = ps[b[x]] BY AlongIs
<1>2. /\ S = {k \in DOMAIN ps : detect_lang(ps[k]) # None}
      /\ T = {k \in DOMAIN qs : detect_lang(qs[k]) # None}
      /\ \A k \in S : f[k] = detect_lang(ps[k])
      /\ \A k \in T : g[k] = detect_lang(qs[k])
  BY SpokenAre
<1> HIDE DEF f, g, S, T
<1>3. Corresponds(b, ps, qs, S, T) BY <1>1, <1>2 DEF Corresponds
<1>4. IsFiniteSet(S) /\ c \in Bijection(T, S) BY <1>3, AlongPart
<1>5. \A x \in T : c[x] = b[x] BY DEF On
<1>6. \A x \in T : g[x] = f[c[x]] BY <1>1, <1>2, <1>3, <1>5 DEF Corresponds
<1> HIDE DEF c
<1>7. Along(c, f, g) BY <1>4, <1>6 DEF Along, S, T
<1>8. Counter(g) = Counter(f) BY <1>7, AlongCounter
<1>9. \A lang : Cardinality(With(g, lang)) = Cardinality(With(f, lang)) BY <1>7, AlongCount
<1> QED BY <1>8, <1>9 DEF Speakers, f, g

(* Nothing is more frequent than the language detected *)
LEMMA DetectedIsTop ==
  ASSUME NEW ps, PostsOK(ps)
  PROVE  Speakers(ps, DetectedLanguage(ps)) = Top(Counter(Spoken(ps)))
<1> DEFINE f == Spoken(ps)
           c == Counter(f)
           M == {k \in DOMAIN f : c[f[k]] = Top(c)}
           lang == f[Min(M)]
<1>1. IsFiniteSet(DOMAIN ps) /\ DOMAIN ps \subseteq Int BY SeqDomain DEF PostsOK
<1>2. DOMAIN f \subseteq DOMAIN ps BY SpokenAre
<1>3. IsFiniteSet(DOMAIN f) /\ DOMAIN f \subseteq Int BY <1>1, <1>2, FS_Subset
<1>4. DetectedLanguage(ps) = IF DOMAIN f = {} THEN None ELSE lang BY DEF DetectedLanguage
<1>5. Speakers(ps, DetectedLanguage(ps)) = Cardinality(With(f, DetectedLanguage(ps))) BY DEF Speakers
<1> HIDE DEF f
<1>6. /\ DOMAIN c = Range(f) /\ IsFiniteSet(Range(f))
      /\ \A x \in Range(f) : c[x] \in Nat
      /\ \A x \in Range(f) : c[x] = Cardinality(With(f, x))
  BY <1>3, CounterType DEF With
<1> HIDE DEF c
<1>7. Top(c) = Max({0} \cup Range(c)) BY DEF Top
<1>8. CASE DOMAIN f = {}
  <2>1. Range(f) = {} BY <1>8 DEF Range
  <2>2. Range(c) = {} BY <1>6, <2>1 DEF Range
  <2>3. With(f, None) = {} BY <1>8 DEF With
  <2>4. Max({0} \cup Range(c)) = 0
    <3> DEFINE z == 0
    <3>1. z \in Int OBVIOUS
    <3> HIDE DEF z
    <3>2. Max({z, z}) = z BY <3>1, MaxMinOfTwo
    <3>3. {z} \cup Range(c) = {z, z} BY <2>2
    <3> QED BY <3>2, <3>3 DEF z
  <2> QED BY <1>4, <1>5, <1>7, <1>8, <2>3, <2>4, FS_EmptySet DEF c, f
<1>9. CASE DOMAIN f # {}
  <2> DEFINE S == {0} \cup Range(c)
  <2>1. PICK k \in DOMAIN f : TRUE BY <1>9
  <2>2. f[k] \in DOMAIN c /\ c[f[k]] \in Nat BY <1>6 DEF Range
  <2>3. IsFiniteSet(S) /\ S \in SUBSET Int /\ S # {}
    <3>1. IsFiniteSet(Range(c)) BY <1>6, FiniteRange
    <3>2. IsFiniteSet({0}) BY FS_Singleton
    <3>3. \A x \in Range(c) : x \in Nat BY <1>6 DEF Range
    <3>4. IsFiniteSet({0} \cup Range(c)) BY <3>1, <3>2, FS_Union
    <3> QED BY <3>3, <3>4
  <2>4. \A l \in DOMAIN f : c[f[l]] \in S BY <1>6 DEF Range
  <2>5. \A x \in S : x = 0 \/ \E l \in DOMAIN f : x = c[f[l]] BY <1>6 DEF Range
  <2> HIDE DEF S
  <2>6. Max(S) \in S /\ \A x \in S : x <= Max(S) BY <2>3, GreatestIsIn
  <2>7. \E l \in DOMAIN f : c[f[l]] = Max(S)
    <3>1. CASE Max(S) = 0
      <4>1. c[f[k]] <= 0 BY <2>4, <2>6, <3>1
      <4> QED BY <2>2, <3>1, <4>1
    <3>2. CASE Max(S) # 0 BY <2>5, <2>6, <3>2
    <3> QED BY <3>1, <3>2
  <2>8. M # {} /\ M \in SUBSET DOMAIN f BY <1>7, <2>7 DEF S
  <2> HIDE DEF M
  <2>9. Min(M) \in M
    <3>1. IsFiniteSet(M) /\ M \in SUBSET Int BY <1>3, <2>8, FS_Subset
    <3> QED BY <2>8, <3>1, LeastIsIn
  <2>10. c[lang] = Top(c) /\ lang \in Range(f) BY <2>9 DEF M, Range
  <2>11. Cardinality(With(f, lang)) = Top(c) BY <1>6, <2>10
  <2> QED BY <1>4, <1>5, <1>9, <2>11 DEF c, f
<1> QED BY <1>8, <1>9 DEF c, f

(* Whichever language is detected, as many posts are in it *)
LEMMA DetectedFree ==
  ASSUME NEW b, NEW ps, NEW qs, Along(b, ps, qs), PostsOK(ps), PostsOK(qs)
  PROVE  Speakers(ps, SentimentMetrics(qs).detected_language)
           = Speakers(ps, SentimentMetrics(ps).detected_language)
<1>1. /\ SentimentMetrics(qs).detected_language = DetectedLanguage(qs)
      /\ SentimentMetrics(ps).detected_language = DetectedLanguage(ps)
  BY DEF SentimentMetrics
<1>2. /\ Speakers(qs, DetectedLanguage(qs)) = Top(Counter(Spoken(qs)))
      /\ Speakers(ps, DetectedLanguage(ps)) = Top(Counter(Spoken(ps)))
  BY DetectedIsTop
<1> QED BY <1>1, <1>2, SpokenFree

(* The scores of the patterns do not depend on it either *)
LEMMA PatternsFree ==
  ASSUME NEW b, NEW ps, NEW qs, Along(b, ps, qs), Family(ps), NEW a, NEW c
  PROVE  PatternMetrics(qs, a, c) = PatternMetrics(ps, a, c)
<1>1. TimesOf(qs) = TimesOf(ps) BY TimesFree
<1>2. score_regularity(qs) = score_regularity(ps) BY <1>1 DEF score_regularity
<1>3. components(qs, a, c) = components(ps, a, c) BY <1>2 DEF components
<1> QED BY <1>3 DEF PatternMetrics

-----------------------------------------------------------------------------
(* The engagements, as they sort from the most to the least *)
Lack(ps) == [k \in DOMAIN ps |-> -engagement_of(ps[k])]

LEMMA LackType ==
  ASSUME NEW ps, PostsOK(ps)
  PROVE  /\ Numbers(Lack(ps)) /\ DOMAIN Lack(ps) = DOMAIN ps /\ Size(Lack(ps)) = Len(ps)
         /\ \A k \in DOMAIN ps : /\ engagement_of(ps[k]) \in Int
                                 /\ Lack(ps)[k] = -engagement_of(ps[k])
<1>1. IsFiniteSet(DOMAIN ps) /\ Size(ps) = Len(ps) BY SeqDomain DEF PostsOK
<1>2. ASSUME NEW k \in DOMAIN ps
      PROVE  engagement_of(ps[k]) \in Int /\ Lack(ps)[k] = -engagement_of(ps[k])
  <2>1. Engagements(ps)[k] \in Nat BY EngagementType
  <2>2. Engagements(ps)[k] = engagement_of(ps[k]) BY DEF Engagements
  <2> QED BY <2>1, <2>2 DEF Lack
<1>3. DOMAIN Lack(ps) = DOMAIN ps BY DEF Lack
<1> QED BY <1>1, <1>2, <1>3 DEF Numbers, Size

(* Someone is next in the list: r - 1 posts are before it *)
LEMMA SomePostIsNext ==
  ASSUME NEW ps, PostsOK(ps), NEW r \in 1..Len(ps)
  PROVE  \E k \in DOMAIN ps : Cardinality(Before(ps, k)) = r - 1
<1> DEFINE f == Lack(ps)
           x == Sorted(f)[r]
           B == Below(f, x)
           E == {l \in DOMAIN ps : f[l] = x}
           I == [l \in E |-> l]
           s == r - Cardinality(B)
<1>1. /\ Numbers(f) /\ DOMAIN f = DOMAIN ps /\ Size(f) = Len(ps)
      /\ \A k \in DOMAIN ps : engagement_of(ps[k]) \in Int /\ f[k] = -engagement_of(ps[k])
  BY LackType
<1>2. Len(ps) \in Nat /\ DOMAIN ps = 1..Len(ps) BY SeqDomain DEF PostsOK
<1> HIDE DEF f
<1>3. Ranked(f, r, x) BY <1>1, SortedRanks
<1> HIDE DEF x
<1>4. x \in Int /\ \A k \in DOMAIN ps : f[k] \in Int BY <1>1, <1>3 DEF Ranked, Range, Numbers
<1>5. IsFiniteSet(B) /\ IsFiniteSet(E) BY <1>1, FS_Subset DEF Below, Numbers
<1>6. UpTo(f, x) = B \cup E /\ B \cap E = {} BY <1>1, <1>4 DEF UpTo, Below
<1>7. DOMAIN I = E /\ \A l \in E : I[l] = l OBVIOUS
<1>8. \A k \in E : Before(ps, k) = B \cup {l \in E : l < k}
  BY <1>1, <1>2, <1>4 DEF Before, Below
<1>9. E \subseteq DOMAIN ps OBVIOUS
<1> HIDE DEF B, E, I
<1>10. Cardinality(B) \in Nat /\ Cardinality(E) \in Nat BY <1>5, FS_CardinalityType
<1>11. Cardinality(UpTo(f, x)) = Cardinality(B) + Cardinality(E)
  <2>1. Cardinality(B \cap E) = 0 BY <1>6, FS_EmptySet
  <2>2. Cardinality(B \cup E) = Cardinality(B) + Cardinality(E) - Cardinality(B \cap E)
    BY <1>5, FS_Union
  <2> QED BY <1>6, <1>10, <2>1, <2>2
<1>12. Numbers(I) /\ Size(I) = Cardinality(E) BY <1>2, <1>5, <1>7, <1>9 DEF Numbers, Size
<1>13. s \in 1..Size(I) BY <1>2, <1>3, <1>10, <1>11, <1>12 DEF Ranked, B
<1> HIDE DEF s
<1>14. PICK k \in Range(I) : Ranked(I, s, k) BY <1>12, <1>13, RankedExists
<1> DEFINE L == Below(I, k)
           U == UpTo(I, k)
<1>15. k \in E BY <1>7, <1>14 DEF Range
<1>16. k \in Int /\ \A l \in E : l \in Int BY <1>2, <1>9, <1>15
<1>17. L = {l \in E : l < k} /\ U = L \cup {k} /\ k \notin L
  BY <1>7, <1>15, <1>16 DEF Below, UpTo
<1>18. Cardinality(L) < s /\ Cardinality(U) >= s BY <1>14 DEF Ranked
<1> HIDE DEF L, U
<1>19. IsFiniteSet(L) BY <1>5, <1>17, FS_Subset
<1>20. Cardinality(L) \in Nat BY <1>19, FS_CardinalityType
<1>21. Cardinality(U) = Cardinality(L) + 1 BY <1>17, <1>19, FS_AddElement
<1>22. s \in Int BY <1>2, <1>10 DEF s
<1>23. Cardinality(L) = s - 1 BY <1>18, <1>20, <1>21, <1>22
<1>24. Cardinality(Before(ps, k)) = r - 1
  <2>1. Before(ps, k) = B \cup L BY <1>8, <1>15, <1>17
  <2>2. B \cap L = {} BY <1>6, <1>17
  <2>3. Cardinality(B \cap L) = 0 BY <2>2, FS_EmptySet
  <2>4. Cardinality(B \cup L) = Cardinality(B) + Cardinality(L) - Cardinality(B \cap L)
    BY <1>5, <1>19, FS_Union
  <2> QED BY <1>2, <1>10, <1>20, <1>23, <2>1, <2>3, <2>4 DEF s
<1> QED BY <1>9, <1>15, <1>24

(* Whoever is next has the engagement that sorting puts there *)
LEMMA NextHasRank ==
  ASSUME NEW ps, PostsOK(ps), NEW r \in 1..Len(ps), NEW k \in DOMAIN ps,
         Cardinality(Before(ps, k)) = r - 1
  PROVE  engagement_of(ps[k]) = -Sorted(Lack(ps))[r]
<1> DEFINE f == Lack(ps)
           x == Sorted(f)[r]
           y == f[k]
           B == Before(ps, k)
<1>1. /\ Numbers(f) /\ DOMAIN f = DOMAIN ps /\ Size(f) = Len(ps)
      /\ \A l \in DOMAIN ps : engagement_of(ps[l]) \in Int /\ f[l] = -engagement_of(ps[l])
  BY LackType
<1>2. Len(ps) \in Nat /\ DOMAIN ps = 1..Len(ps) BY SeqDomain DEF PostsOK
<1> HIDE DEF f
<1>3. Ranked(f, r, x) BY <1>1, SortedRanks
<1> HIDE DEF x
<1>4. x \in Int /\ y \in Int BY <1>1, <1>3 DEF Ranked, Range, Numbers
<1>5. IsFiniteSet(DOMAIN ps) BY SeqDomain DEF PostsOK
<1>6. IsFiniteSet(B) /\ Cardinality(B) \in Nat
  <2>1. B \in SUBSET DOMAIN ps BY DEF Before
  <2> QED BY <1>5, <2>1, FS_Subset, FS_CardinalityType
<1>7. k \notin B BY <1>1, <1>2 DEF Before
<1>8. Below(f, y) \subseteq B /\ B \cup {k} \subseteq UpTo(f, y)
  BY <1>1, <1>4 DEF Below, UpTo, Before
<1> HIDE DEF y, B
<1>9. Cardinality(Below(f, y)) <= Cardinality(B)
  BY <1>6, <1>8, FS_Subset
<1>10. Cardinality(B \cup {k}) = r
  <2>1. Cardinality(B \cup {k}) = Cardinality(B) + 1 BY <1>6, <1>7, FS_AddElement
  <2> QED BY <1>2, <1>6, <2>1 DEF B
<1>11. IsFiniteSet(UpTo(f, y)) /\ IsFiniteSet(Below(f, y)) BY <1>1, FS_Subset DEF UpTo, Below, Numbers
<1>12. Cardinality(B \cup {k}) <= Cardinality(UpTo(f, y)) BY <1>8, <1>11, FS_Subset
<1>13. Cardinality(UpTo(f, y)) \in Nat /\ Cardinality(Below(f, y)) \in Nat
  BY <1>11, FS_CardinalityType
<1>14. y \in Range(f) BY <1>1 DEF Range, y
<1>15. Ranked(f, r, y)
  BY <1>2, <1>6, <1>9, <1>10, <1>12, <1>13, <1>14 DEF Ranked, B
<1>16. x <= y /\ y <= x
  <2>1. r \in Int /\ r <= r BY <1>2
  <2> QED BY <1>1, <1>3, <1>15, <2>1, RankedOrder
<1>17. x = y BY <1>4, <1>16
<1> QED BY <1>1, <1>17 DEF x, y, f

(* The posts that are listed, and the engagement of each *)
TopPosts(ps) ==
  [r \in 1..Min({5, Size(ps)}) |->
     ps[CHOOSE k \in DOMAIN ps : Cardinality(Before(ps, k)) = r - 1]]
Best(tops) == [r \in DOMAIN tops |-> engagement_of(tops[r])]

LEMMA BestAreRanked ==
  ASSUME NEW ps, PostsOK(ps)
  PROVE  Best(TopPosts(ps)) = [r \in 1..Min({5, Size(ps)}) |-> -Sorted(Lack(ps))[r]]
<1> DEFINE top == TopPosts(ps)
           R == 1..Min({5, Size(ps)})
<1>1. Len(ps) \in Nat /\ Size(ps) = Len(ps) BY SeqDomain DEF PostsOK
<1>2. \A r \in R : r \in 1..Len(ps)
  <2> DEFINE five == 5
             m == Len(ps)
  <2>1. five \in Int /\ m \in Int BY <1>1
  <2> HIDE DEF five, m
  <2>2. Min({five, m}) = IF five <= m THEN five ELSE m BY <2>1, MaxMinOfTwo
  <2> QED BY <1>1, <2>1, <2>2 DEF five, m
<1>3. DOMAIN top = R BY DEF TopPosts
<1> HIDE DEF R
<1>4. ASSUME NEW r \in R PROVE engagement_of(top[r]) = -Sorted(Lack(ps))[r]
  <2> DEFINE P(k) == Cardinality(Before(ps, k)) = r - 1
             k == CHOOSE l \in DOMAIN ps : P(l)
  <2>1. r \in 1..Len(ps) BY <1>2
  <2>2. \E l \in DOMAIN ps : P(l) BY <2>1, SomePostIsNext
  <2>3. k \in DOMAIN ps /\ P(k)
    <3> HIDE DEF P
    <3> QED BY <2>2
  <2>4. top[r] = ps[k] BY DEF TopPosts, R
  <2> HIDE DEF k, top
  <2>5. engagement_of(ps[k]) = -Sorted(Lack(ps))[r] BY <2>1, <2>3, NextHasRank
  <2> QED BY <2>4, <2>5
<1> HIDE DEF top
<1>5. Best(top) = [r \in R |-> -Sorted(Lack(ps))[r]] BY <1>3, <1>4 DEF Best
<1> QED BY <1>5 DEF R, top

(* The engagements at the top do not depend on the order of the posts *)
LEMMA BestFree ==
  ASSUME NEW b, NEW ps, NEW qs, Along(b, ps, qs), PostsOK(ps), PostsOK(qs)
  PROVE  Best(TopPosts(qs)) = Best(TopPosts(ps))
<1> DEFINE f == Lack(ps)
           g == Lack(qs)
<1>1. \A x \in DOMAIN qs : b[x] \in DOMAIN ps /\ qs[x] = ps[b[x]] BY AlongIs
<1>2. DOMAIN f = DOMAIN ps /\ DOMAIN g = DOMAIN qs /\ \A x \in DOMAIN qs : g[x] = f[b[x]]
  BY <1>1 DEF Lack
<1>3. Numbers(f) BY LackType
<1> HIDE DEF f, g
<1>4. Along(b, f, g) BY <1>2, AlongMap
<1>5. Sorted(g) = Sorted(f) BY <1>3, <1>4, AlongSorted
<1>6. Size(qs) = Size(ps) BY AlongSize
<1>7. /\ Best(TopPosts(qs)) = [r \in 1..Min({5, Size(qs)}) |-> -Sorted(g)[r]]
      /\ Best(TopPosts(ps)) = [r \in 1..Min({5, Size(ps)}) |-> -Sorted(f)[r]]
  BY BestAreRanked DEF f, g
<1> QED BY <1>5, <1>6, <1>7

(* Averages over parts that correspond are the same *)
LEMMA MeanFree ==
  ASSUME NEW b, NEW ps, NEW qs, PostsOK(ps), NEW S, NEW T, Corresponds(b, ps, qs, S, T)
  PROVE  MeanOver(qs, T) = MeanOver(ps, S)
<1> DEFINE v == Engagements(ps)
           w == Engagements(qs)
           f == [k \in S |-> v[k]]
           g == [k \in T |-> w[k]]
           c == On(b, T)
<1>1. /\ IsFiniteSet(S) /\ c \in Bijection(T, S)
      /\ Cardinality(T) = Cardinality(S) /\ IsFiniteSet(T)
  BY AlongPart
<1>2. /\ Along(b, ps, qs) /\ S \subseteq DOMAIN ps /\ T \subseteq DOMAIN qs
      /\ \A x \in DOMAIN qs : x \in T <=> b[x] \in S
  BY DEF Corresponds
<1>3. \A x \in DOMAIN qs : b[x] \in DOMAIN ps /\ qs[x] = ps[b[x]] BY <1>2, AlongIs
<1>4. \A x \in DOMAIN qs : w[x] = v[b[x]] BY <1>3 DEF Engagements
<1>5. \A x \in S : v[x] \in Int
  <2>1. \A x \in DOMAIN ps : v[x] \in Nat BY EngagementType
  <2> QED BY <1>2, <2>1
<1>6. \A x \in T : c[x] = b[x] BY DEF On
<1>7. DOMAIN f = S /\ DOMAIN g = T /\ (\A x \in S : f[x] = v[x]) /\ (\A x \in T : g[x] = w[x])
  OBVIOUS
<1> HIDE DEF v, w, f, g, c
<1>8. \A x \in T : g[x] = f[c[x]] /\ w[x] \in Int /\ g[x] \in Int /\ b[x] \in S
  BY <1>2, <1>4, <1>5, <1>6, <1>7
<1>9. Along(c, f, g) BY <1>1, <1>7, <1>8 DEF Along
<1>10. Total(g) = Total(f) BY <1>5, <1>7, <1>9, AlongTotal
<1>11. Total(f) = SumOver(v, S)
  <2>1. \A x \in S : f[x] \in Int /\ f[x] = v[x] BY <1>5, <1>7
  <2>2. SumOver(f, S) = SumOver(v, S) BY <1>1, <2>1, SumSame
  <2> QED BY <1>7, <2>2, TotalIs
<1>12. Total(g) = SumOver(w, T)
  <2>1. \A x \in T : g[x] \in Int /\ g[x] = w[x] BY <1>7, <1>8
  <2>2. SumOver(g, T) = SumOver(w, T) BY <1>1, <2>1, SumSame
  <2> QED BY <1>7, <2>2, TotalIs
<1> QED BY <1>1, <1>10, <1>11, <1>12 DEF MeanOver, v, w

(* ... so every average is *)
LEMMA MeansFree ==
  ASSUME NEW b, NEW ps, NEW qs, Along(b, ps, qs), PostsOK(ps), NEW tz_name
  PROVE  /\ MeansByHour(qs, tz_name) = MeansByHour(ps, tz_name)
         /\ MeansByWeekday(qs, tz_name) = MeansByWeekday(ps, tz_name)
         /\ MeansByType(qs) = MeansByType(ps)
<1> DEFINE f == LocalTimes(ps, tz_name)
           g == LocalTimes(qs, tz_name)
<1>1. \A x \in DOMAIN qs : b[x] \in DOMAIN ps /\ qs[x] = ps[b[x]] BY AlongIs
<1>2. \A x \in DOMAIN qs : g[x] = f[b[x]]
  <2>1. Along(b, f, g) BY LocalTimesFree
  <2>2. DOMAIN g = DOMAIN qs BY DEF LocalTimes
  <2> HIDE DEF f, g
  <2> QED BY <2>1, <2>2, AlongIs
<1> HIDE DEF f, g
<1>3. ASSUME NEW h
      PROVE  MeanOver(qs, {k \in DOMAIN qs : HourOf(g[k]) = h})
               = MeanOver(ps, {k \in DOMAIN ps : HourOf(f[k]) = h})
  <2> DEFINE S == {k \in DOMAIN ps : HourOf(f[k]) = h}
             T == {k \in DOMAIN qs : HourOf(g[k]) = h}
  <2>1. Corresponds(b, ps, qs, S, T) BY <1>1, <1>2 DEF Corresponds
  <2> HIDE DEF S, T
  <2>2. MeanOver(qs, T) = MeanOver(ps, S) BY <2>1, MeanFree
  <2> QED BY <2>2 DEF S, T
<1>4. ASSUME NEW d
      PROVE  MeanOver(qs, {k \in DOMAIN qs : WeekdayOf(g[k]) = d})
               = MeanOver(ps, {k \in DOMAIN ps : WeekdayOf(f[k]) = d})
  <2> DEFINE S == {k \in DOMAIN ps : WeekdayOf(f[k]) = d}
             T == {k \in DOMAIN qs : WeekdayOf(g[k]) = d}
  <2>1. Corresponds(b, ps, qs, S, T) BY <1>1, <1>2 DEF Corresponds
  <2> HIDE DEF S, T
  <2>2. MeanOver(qs, T) = MeanOver(ps, S) BY <2>1, MeanFree
  <2> QED BY <2>2 DEF S, T
<1>5. ASSUME NEW t
      PROVE  MeanOver(qs, {k \in DOMAIN qs : qs[k].media_type = t})
               = MeanOver(ps, {k \in DOMAIN ps : ps[k].media_type = t})
  <2> DEFINE S == {k \in DOMAIN ps : ps[k].media_type = t}
             T == {k \in DOMAIN qs : qs[k].media_type = t}
  <2>1. Corresponds(b, ps, qs, S, T) BY <1>1 DEF Corresponds
  <2> HIDE DEF S, T
  <2>2. MeanOver(qs, T) = MeanOver(ps, S) BY <2>1, MeanFree
  <2> QED BY <2>2 DEF S, T
<1>6. {qs[k].media_type : k \in DOMAIN qs} = {ps[k].media_type : k \in DOMAIN ps}
  <2>1. \A z \in DOMAIN ps : \E x \in DOMAIN qs : b[x] = z BY AlongIs
  <2> QED BY <1>1, <2>1
<1>7. MeansByHour(qs, tz_name) = MeansByHour(ps, tz_name) BY <1>3 DEF MeansByHour, f, g
<1>8. MeansByWeekday(qs, tz_name) = MeansByWeekday(ps, tz_name) BY <1>4 DEF MeansByWeekday, f, g
<1>9. MeansByType(qs) = MeansByType(ps) BY <1>5, <1>6 DEF MeansByType
<1> QED BY <1>7, <1>8, <1>9

(* The engagement figures are made of these *)
EngagementFrom(size, totals, total, median2, followers, tops, by_type, by_weekday, by_hour) ==
  [post_count  |-> size,
   totals      |-> totals,
   total_engagement |-> total,
   median2     |-> median2,
   rate        |-> IF followers \notin {None, 0} THEN Round(10000 * total, size * followers) ELSE None,
   top_posts   |-> tops,
   by_type     |-> by_type,
   by_weekday  |-> by_weekday,
   by_hour     |-> by_hour]

(* How often posts were liked, say *)
Column(ps, c) == [k \in DOMAIN ps |-> ps[k].counts[c]]
Columns(ps)   == [c \in Counts |-> Total(Column(ps, c))]

LEMMA EngagementIsFrom ==
  ASSUME NEW ps, PostsOK(ps), NEW followers, NEW tz_name
  PROVE  EngagementMetrics(ps, followers, tz_name) =
           EngagementFrom(Size(ps), Columns(ps), Total(Engagements(ps)), Median2(Engagements(ps)),
                          followers, TopPosts(ps), MeansByType(ps), MeansByWeekday(ps, tz_name),
                          MeansByHour(ps, tz_name))
<1> DEFINE of == EngagementMetrics(ps, followers, tz_name)
           sums == [c \in Counts |-> SumOf(ps, LAMBDA p : p.counts[c])]
           all == SumOf(ps, engagement_of)
           types == [t \in {ps[k].media_type : k \in DOMAIN ps} |->
                       MeanWhere(ps, LAMBDA p : p.media_type = t)]
           days  == [d \in 0..6 |-> MeanWhere(ps, LAMBDA p : WeekdayOf(EngagementTime(p, tz_name)) = d)]
           hours == [h \in 0..23 |-> MeanWhere(ps, LAMBDA p : HourOf(EngagementTime(p, tz_name)) = h)]
<1>1. of = EngagementFrom(Size(ps), sums, all, Median2(Engagements(ps)), followers,
                          TopPosts(ps), types, days, hours)
  BY DEF EngagementMetrics, EngagementFrom, TopPosts, Engagements
<1>2. sums = Columns(ps) BY DEF SumOf, Columns, Column
<1>3. all = Total(Engagements(ps)) BY DEF SumOf, Engagements
<1>4. /\ of.by_hour = MeansByHour(ps, tz_name) /\ of.by_weekday = MeansByWeekday(ps, tz_name)
      /\ of.by_type = MeansByType(ps)
  BY EngagementParts
<1> HIDE DEF of, sums, all, types, days, hours
<1>5. of.by_hour = hours /\ of.by_weekday = days /\ of.by_type = types
  BY <1>1 DEF EngagementFrom
<1> QED BY <1>1, <1>2, <1>3, <1>4, <1>5 DEF of

(* But for the list of posts, the engagement figures do not depend on the   *)
(* order either                                                             *)
LEMMA EngagementFree ==
  ASSUME NEW b, NEW ps, NEW qs, Along(b, ps, qs), PostsOK(ps), PostsOK(qs),
         NEW followers, NEW tz_name
  PROVE  [EngagementMetrics(qs, followers, tz_name) EXCEPT !.top_posts = None]
           = [EngagementMetrics(ps, followers, tz_name) EXCEPT !.top_posts = None]
<1>1. \A x \in DOMAIN qs : b[x] \in DOMAIN ps /\ qs[x] = ps[b[x]] BY AlongIs
<1>2. Size(qs) = Size(ps) BY AlongSize
<1>3. Columns(qs) = Columns(ps)
  <2>1. ASSUME NEW c \in Counts PROVE Total(Column(qs, c)) = Total(Column(ps, c))
    <3> DEFINE f == Column(ps, c)
               g == Column(qs, c)
    <3>1. DOMAIN f = DOMAIN ps /\ DOMAIN g = DOMAIN qs /\ \A x \in DOMAIN qs : g[x] = f[b[x]]
      BY <1>1 DEF Column
    <3>2. \A x \in DOMAIN f : f[x] \in Int
      <4>1. \A x \in DOMAIN ps : ps[x].counts[c] \in Int BY EngagementType
      <4> QED BY <4>1 DEF Column
    <3> HIDE DEF f, g
    <3>3. Along(b, f, g) BY <3>1, AlongMap
    <3>4. Total(g) = Total(f) BY <3>2, <3>3, AlongTotal
    <3> QED BY <3>4 DEF f, g
  <2> QED BY <2>1 DEF Columns
<1> DEFINE f == Engagements(ps)
           g == Engagements(qs)
<1>4. Total(g) = Total(f) /\ Median2(g) = Median2(f)
  <2>1. DOMAIN f = DOMAIN ps /\ DOMAIN g = DOMAIN qs /\ \A x \in DOMAIN qs : g[x] = f[b[x]]
    BY <1>1 DEF Engagements
  <2>2. \A x \in DOMAIN f : f[x] \in Int
    <3>1. \A x \in DOMAIN ps : Engagements(ps)[x] \in Nat BY EngagementType
    <3> QED BY <2>1, <3>1
  <2> HIDE DEF f, g
  <2>3. Along(b, f, g) BY <2>1, AlongMap
  <2>4. Total(g) = Total(f) BY <2>2, <2>3, AlongTotal
  <2>5. Numbers(f) BY <2>2, <2>3 DEF Numbers, Along
  <2>6. Sorted(g) = Sorted(f) /\ Size(g) = Size(f) BY <2>3, <2>5, AlongSorted, AlongSize
  <2>7. Median2(g) = Median2(f) BY <2>6 DEF Median2
  <2> QED BY <2>4, <2>7
<1> HIDE DEF f, g
<1>5. /\ MeansByHour(qs, tz_name) = MeansByHour(ps, tz_name)
      /\ MeansByWeekday(qs, tz_name) = MeansByWeekday(ps, tz_name)
      /\ MeansByType(qs) = MeansByType(ps)
  BY MeansFree
<1> DEFINE from(tops) == EngagementFrom(Size(ps), Columns(ps), Total(f), Median2(f), followers, tops,
                                        MeansByType(ps), MeansByWeekday(ps, tz_name),
                                        MeansByHour(ps, tz_name))
<1>6. EngagementMetrics(ps, followers, tz_name) = from(TopPosts(ps)) BY EngagementIsFrom DEF f
<1>7. EngagementMetrics(qs, followers, tz_name) = from(TopPosts(qs))
  <2>1. EngagementMetrics(qs, followers, tz_name) =
          EngagementFrom(Size(qs), Columns(qs), Total(g), Median2(g), followers, TopPosts(qs),
                         MeansByType(qs), MeansByWeekday(qs, tz_name), MeansByHour(qs, tz_name))
    BY EngagementIsFrom DEF g
  <2> QED BY <1>2, <1>3, <1>4, <1>5, <2>1
<1>8. \A tops : [from(tops) EXCEPT !.top_posts = None] = from(None) BY DEF EngagementFrom
<1> HIDE DEF from
<1> QED BY <1>6, <1>7, <1>8

(* In whatever order posts come, the figures modelled are the same, but      *)
(* where arrival breaks a tie: the posts at the top may be others, of the    *)
(* same engagements, and the language detected another, of as many posts.    *)
THEOREM AnyOrder ==
  ASSUME NEW b, NEW ps, NEW qs, Along(b, ps, qs), PostsOK(ps), PostsOK(qs), Scored(ps),
         NEW tz_name, NEW followers, NEW burst_count, NEW activity, NEW content
  PROVE  /\ ActivityMetrics(qs, tz_name, burst_count) = ActivityMetrics(ps, tz_name, burst_count)
         /\ ContentMetrics(qs) = ContentMetrics(ps)
         /\ [SentimentMetrics(qs) EXCEPT !.detected_language = None]
              = [SentimentMetrics(ps) EXCEPT !.detected_language = None]
         /\ Speakers(ps, SentimentMetrics(qs).detected_language)
              = Speakers(ps, SentimentMetrics(ps).detected_language)
         /\ PatternMetrics(qs, activity, content) = PatternMetrics(ps, activity, content)
         /\ [EngagementMetrics(qs, followers, tz_name) EXCEPT !.top_posts = None]
              = [EngagementMetrics(ps, followers, tz_name) EXCEPT !.top_posts = None]
         /\ Best(EngagementMetrics(qs, followers, tz_name).top_posts)
              = Best(EngagementMetrics(ps, followers, tz_name).top_posts)
<1>1. Family(ps) BY DEF Family, PostsOK, Along
<1>2. ActivityMetrics(qs, tz_name, burst_count) = ActivityMetrics(ps, tz_name, burst_count)
  BY <1>1, ActivityFree
<1>3. ContentMetrics(qs) = ContentMetrics(ps) BY <1>1, ContentFree
<1>4. /\ [SentimentMetrics(qs) EXCEPT !.detected_language = None]
           = [SentimentMetrics(ps) EXCEPT !.detected_language = None]
      /\ Speakers(ps, SentimentMetrics(qs).detected_language)
           = Speakers(ps, SentimentMetrics(ps).detected_language)
  BY <1>1, SentimentFree, DetectedFree
<1>5. PatternMetrics(qs, activity, content) = PatternMetrics(ps, activity, content)
  BY <1>1, PatternsFree
<1>6. [EngagementMetrics(qs, followers, tz_name) EXCEPT !.top_posts = None]
        = [EngagementMetrics(ps, followers, tz_name) EXCEPT !.top_posts = None]
  BY EngagementFree
<1>7. /\ EngagementMetrics(qs, followers, tz_name).top_posts = TopPosts(qs)
      /\ EngagementMetrics(ps, followers, tz_name).top_posts = TopPosts(ps)
  BY EngagementIsFrom DEF EngagementFrom
<1>8. Best(TopPosts(qs)) = Best(TopPosts(ps)) BY BestFree
<1> QED BY <1>2, <1>3, <1>4, <1>5, <1>6, <1>7, <1>8
=============================================================================
