----------------------------- MODULE MCTwitter -----------------------------
(* A small instance of Twitter: u1 has tweeted t0 and has one follower.   *)
(* Who follows whom changes by unfollowing; following is left to the      *)
(* proofs, which have every command.                                      *)
EXTENDS Twitter, TLC

CONSTANTS u1, u2, t0, t1, none

Asked ==
    {Command("DeleteTweet", u1, t0, none),
     Command("Retweet", u2, t1, t0),
     Command("LikeTweet", u2, t0, none),
     Command("UnlikeTweet", u2, t0, none),
     Command("UnfollowUser", u2, none, u1),
     Command("SendDirectMessage", u2, t1, u1)}

Sent == {Command("PostTweet", u1, t1, none)}

AllRequests == Asked \cup Sent

Carried ==
    AllRequests \cup {Event(r) : r \in AllRequests}
    \cup {Command("FanOutTweet", u1, t1, none)}

NoRoute(message) == NoData

Symmetry == Permutations(Callers) \cup Permutations(Messages)

StartDb ==
    [EmptyDb EXCEPT !.tweets = {<<t0, u1>>}, !.follows = {<<u2, u1>>}]
=============================================================================
