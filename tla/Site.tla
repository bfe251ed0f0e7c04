-------------------------------- MODULE Site --------------------------------
(***************************************************************************)
(* The parts of the site that share no state below the level of whole      *)
(* operations, side by side.  "part" says which of them runs in a          *)
(* behaviour, so that a model checker looks at one after the other; the    *)
(* rest of the site stands still meanwhile.                                *)
(***************************************************************************)
EXTENDS FollowFeed, LikeNotices, Comments, DirectMessages, SocialQueue, Media,
        DetailCache, LatestFeed, Sessions, SignUp, Passkeys, Traffic,
        HotFeed, Recommend, Interests, Watch, PublishPage

CONSTANT Parts      \* the parts to look at

VARIABLE part

SiteInit ==
    /\ part \in Parts
    /\ FeedInit /\ LikeInit /\ CommentInit /\ DmInit /\ SocialInit /\ MediaInit
    /\ DetailInit /\ LatestInit /\ SessionInit /\ SignUpInit /\ PasskeyInit /\ TrafficInit
    /\ HotInit /\ RecInit /\ TasteInit /\ WatchInit /\ PageInit

siteVars == <<part, feedVars, likeVars, commentVars, dmVars, socialVars, mediaVars,
              detailVars, latestVars, sessionVars, signUpVars, passkeyVars, trafficVars,
              hotVars, recVars, tasteVars, watchVars, pageVars>>

\* One part runs, the others stay as they are.
SiteNext ==
    /\ UNCHANGED part
    /\ IF part = "feed" THEN FeedNext ELSE UNCHANGED feedVars
    /\ IF part = "likes" THEN LikeNext ELSE UNCHANGED likeVars
    /\ IF part = "comments" THEN CommentNext ELSE UNCHANGED commentVars
    /\ IF part = "dm" THEN DmNext ELSE UNCHANGED dmVars
    /\ IF part = "social" THEN SocialNext ELSE UNCHANGED socialVars
    /\ IF part = "media" THEN MediaNext ELSE UNCHANGED mediaVars
    /\ IF part = "detail" THEN DetailNext ELSE UNCHANGED detailVars
    /\ IF part = "latest" THEN LatestNext ELSE UNCHANGED latestVars
    /\ IF part = "sessions" THEN SessionNext ELSE UNCHANGED sessionVars
    /\ IF part = "signup" THEN SignUpNext ELSE UNCHANGED signUpVars
    /\ IF part = "passkeys" THEN PasskeyNext ELSE UNCHANGED passkeyVars
    /\ IF part = "traffic" THEN TrafficNext ELSE UNCHANGED trafficVars
    /\ IF part = "hot" THEN HotNext ELSE UNCHANGED hotVars
    /\ IF part = "recommend" THEN RecNext ELSE UNCHANGED recVars
    /\ IF part = "taste" THEN TasteNext ELSE UNCHANGED tasteVars
    /\ IF part = "watch" THEN WatchNext ELSE UNCHANGED watchVars
    /\ IF part = "publish" THEN PageNext ELSE UNCHANGED pageVars

SiteSafety == SiteInit /\ [][SiteNext]_siteVars
-----------------------------------------------------------------------------
\* Every variable of every part keeps its type.
SiteTypeOK ==
    /\ part \in Parts
    /\ (part = "feed" => FeedTypeOK) /\ (part = "likes" => LikeTypeOK)
    /\ (part = "comments" => CommentTypeOK) /\ (part = "dm" => DmTypeOK)
    /\ (part = "social" => SocialTypeOK) /\ (part = "media" => MediaTypeOK)
    /\ (part = "detail" => DetailTypeOK) /\ (part = "latest" => LatestTypeOK)
    /\ (part = "sessions" => SessionTypeOK) /\ (part = "signup" => SignUpTypeOK)
    /\ (part = "passkeys" => PasskeyTypeOK) /\ (part = "traffic" => TrafficTypeOK)
    /\ (part = "hot" => HotTypeOK) /\ (part = "recommend" => RecTypeOK)
    /\ (part = "taste" => TasteTypeOK) /\ (part = "watch" => WatchTypeOK)
    /\ (part = "publish" => PageTypeOK)
=============================================================================
