---------------------------- MODULE MCIngestion ----------------------------
(***************************************************************************)
(* Small instances of Ingestion for TLC.  Three accounts: sa carries one   *)
(* post, sb two, sc one; what a call for each may answer depends on the    *)
(* question a run asks.                                                    *)
(***************************************************************************)
EXTENDS Ingestion, TLC

CONSTANTS sa, sb, sc, p1, p2, p3

ThreeSources == {sa, sb, sc}
TwoSources == {sa, sb}
ThreePosts == {p1, p2, p3}

MediaOfThree == (sa :> {p1}) @@ (sb :> {p2}) @@ (sc :> {p3})
MediaOfTwo == (sa :> {p1}) @@ (sb :> {p2, p3})

(* A healthy account behind a token that may expire, an unstable one whose *)
(* posts may hit a database error, and one that may turn out to be gone.   *)
MixedAnswers ==
  (sa :> {"media", "fatal"})
  @@ (sb :> {"media", "transient", "dberror", "fatal"})
  @@ (sc :> {"permanent", "timeout", "fatal"})

(* Two accounts that are fine behind a token that is rate limited now and  *)
(* then, and one that only fails.                                          *)
LimitedAnswers ==
  (sa :> {"media", "fatal"}) @@ (sb :> {"media", "fatal"}) @@ (sc :> {"permanent", "transient"})

(* A healthy account next to one whose connections always time out.        *)
TimeoutAnswers == (sa :> {"media"}) @@ (sb :> {"timeout"})

GoodAnswers == (sa :> {"media"}) @@ (sb :> {"media"})
=============================================================================
