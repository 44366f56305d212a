---------------------------- MODULE PostSources ----------------------------
(***************************************************************************)
(* Where posts come from: the rows of an uploaded CSV file                 *)
(* (_parse_imported_posts of api/analyses.py), the tweets of the X API     *)
(* (_map_tweet of providers/x_api.py), and the draws of the mock provider  *)
(* (providers/mock_x.py). Texts, tags and links are opaque; what the       *)
(* code's regular expressions find in them are constants.                  *)
(***************************************************************************)
EXTENDS Posts

CONSTANTS
  UrlsIn, TagsIn,    \* what _URL_RE and _HASHTAG_RE find in a text
  Now,               \* datetime.now of a run
  Junk, Inf          \* a count that is no number, and "inf"

IsSeq(s) == s \in Seq(Range(s))

(* A text the code's regular expressions have read *)
IsText(t) ==
  /\ t \in DOMAIN UrlsIn /\ IsSeq(UrlsIn[t])
  /\ t \in DOMAIN TagsIn /\ IsSeq(TagsIn[t])

(* What the code may take for granted of a row of a file, of a tweet of the *)
(* API and of the random draws: its columns are there                       *)
IsFileRow(row) ==
  /\ IsText(row.text) /\ row.created_at \in Int \cup {None}
  /\ row.counts \in [Counts -> Int \cup {Junk, Inf}]
  /\ IsSeq(row.hashtags) /\ IsSeq(row.urls)

IsTweet(raw) ==
  /\ raw.created_at \in Int \cup {None}
  /\ raw.counts \in [Counts -> Nat]
  /\ IsSeq(raw.hashtags) /\ IsSeq(raw.urls)

IsDraw(draw) ==
  /\ IsText(draw.text) /\ {draw.base, draw.jitter, draw.night} \subseteq Int
  /\ draw.post_type \in PostTypes /\ draw.media_type \in MediaTypes
  /\ draw.counts \in [Counts -> Nat]
  /\ IsSeq(draw.hashtags) /\ IsSeq(draw.urls)

(* randint(-3, 3) minutes for a bot *)
IsBotDraw(draw) == IsDraw(draw) /\ 20 * draw.jitter \in -Hour..Hour

ASSUME SourcesAssumption == Now \in Int /\ None \notin {"VALIDATION_ERROR", "INTERNAL_ERROR"}

(* int(float(value)): what is no number counts 0, a negative number too.   *)
(* "inf" is a number to float, and int refuses it with an OverflowError,   *)
(* which nothing catches.                                                  *)
to_int(value) == IF value = Junk THEN 0 ELSE Max({0, value})

(* Mutant: a value that is not allowed is kept *)
choice_any(value, allowed, default) == IF value = "" THEN default ELSE value

choice(value, allowed, default) == IF value \in allowed THEN value ELSE default

OrElse(s, other) == IF s = <<>> THEN other ELSE s

ImportedPost(row) ==
  LET urls == OrElse(row.urls, UrlsIn[row.text]) IN
  [text |-> row.text, created_at |-> row.created_at, lang |-> row.lang,
   post_type  |-> choice(row.post_type, PostTypes, "original"),
   media_type |-> choice(row.media_type, MediaTypes, IF urls # <<>> THEN "link" ELSE "none"),
   counts |-> [c \in Counts |-> to_int(row.counts[c])],
   hashtags |-> OrElse(row.hashtags, TagsIn[row.text]), urls |-> urls]

(* Why a row ends the import, if it does: the first such row decides *)
Problem(row) ==
  CASE row.text = ""           -> "VALIDATION_ERROR"
    [] row.created_at = None   -> "VALIDATION_ERROR"
    [] \E c \in Counts : row.counts[c] = Inf -> "INTERNAL_ERROR"
    [] OTHER                   -> None

parse_imported_posts(rows) ==
  LET bad == {k \in DOMAIN rows : Problem(rows[k]) # None} IN
  CASE rows = <<>> -> [error |-> "VALIDATION_ERROR", posts |-> <<>>]
    [] rows # <<>> /\ bad # {} -> [error |-> Problem(rows[Min(bad)]), posts |-> <<>>]
    [] OTHER -> [error |-> None, posts |-> [k \in DOMAIN rows |-> ImportedPost(rows[k])]]

-----------------------------------------------------------------------------
(* A retweet that quotes is a repost *)
classify_type(raw) ==
  CASE "retweeted" \in raw.refs -> "repost"
    [] "quoted" \in raw.refs /\ "retweeted" \notin raw.refs -> "quote"
    [] raw.refs \cap {"retweeted", "quoted"} = {}
         /\ (raw.in_reply_to # None \/ "replied_to" \in raw.refs) -> "reply"
    [] OTHER -> "original"

(* raw.media are the types of the attached media: None for one whose key   *)
(* the service did not resolve                                             *)
classify_media(raw) ==
  CASE raw.poll -> "poll"
    [] ~raw.poll /\ raw.media # {} ->
         (CASE "video" \in raw.media -> "video"
            [] raw.media \cap {"video", "animated_gif"} = {"animated_gif"} -> "gif"
            [] OTHER -> "image")
    [] OTHER -> IF raw.urls # <<>> THEN "link" ELSE "none"

(* A tweet without a readable date is one of this very moment *)
map_tweet(raw) ==
  [text |-> raw.text, lang |-> raw.lang,
   created_at |-> IF raw.created_at = None THEN Now ELSE raw.created_at,
   post_type |-> classify_type(raw), media_type |-> classify_media(raw),
   counts |-> raw.counts,
   hashtags |-> raw.hashtags, urls |-> raw.urls]

map_tweets(raws) == [error |-> None, posts |-> [k \in DOMAIN raws |-> map_tweet(raws[k])]]

-----------------------------------------------------------------------------
(* The reserved usernames of the demo                                        *)
mock_error(username) ==
  CASE username = "notfound_demo"  -> "PROFILE_NOT_FOUND"
    [] username = "protected_demo" -> "PROFILE_PROTECTED"
    [] username = "suspended_demo" -> "PROFILE_SUSPENDED"
    [] OTHER -> None

(* Mutant: bots sleep at night, too *)
mock_gap_sleepy(draw, botlike, cursor) ==
  (IF botlike THEN Hour ELSE draw.base) + draw.jitter
    + (IF HourOf(cursor) < 6 THEN draw.night ELSE 0)

(* The time between a post and the one drawn before it. draw.base is an     *)
(* account's, draw.jitter and draw.night are a post's. No draw is small      *)
(* enough for the floor of five minutes.                                     *)
mock_gap(draw, botlike, cursor) ==
  IF botlike THEN Hour + draw.jitter
  ELSE draw.base + draw.jitter + (IF HourOf(cursor) < 6 THEN draw.night ELSE 0)

(* A bot's copied text brings a link of its own *)
mock_post(draw, at) ==
  [text |-> draw.text, created_at |-> at, lang |-> "en",
   post_type |-> draw.post_type, media_type |-> draw.media_type, counts |-> draw.counts,
   hashtags |-> draw.hashtags, urls |-> OrElse(draw.urls, UrlsIn[draw.text])]

(* Newest first, back from now *)
mock_posts(username, botlike, limit, draws) ==
  LET m     == IF username = "empty_demo" THEN 0 ELSE Min({limit, Len(draws)})
      at[k \in 0..m] ==
        IF k = 0 THEN Now ELSE at[k - 1] - mock_gap(draws[k], botlike, at[k - 1])
      error == mock_error(username)
  IN  [error |-> error,
       posts |-> IF error # None THEN <<>> ELSE [k \in 1..m |-> mock_post(draws[k], at[k])]]
=============================================================================
