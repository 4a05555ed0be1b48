---------------------------- MODULE MCAwardQueue ----------------------------
(* Small instances of the award queue.                                      *)
EXTENDS AwardQueue, TLC

CONSTANTS a, b, c, x, y

Casual(u, award) == [kind |-> "casual", user |-> u, award |-> award]

\* An award of each account, one that names no user, a leaderboard entry and a
\* hardcore award.
EveryKind ==
    {Casual(a, x), Casual(b, y), Casual(NoUser, x),
     [kind |-> "leaderboard", user |-> a, award |-> x],
     [kind |-> "hardcore", user |-> b, award |-> y]}

\* Only awards that race into the queue, of one account more than there are
\* workers; c plays offline only.
RacingRequests == {Casual(a, x), Casual(a, y), Casual(b, y), Casual(c, y)}

\* Each account signs in under its own name ...
OwnSignIns == {<<a, a>>, <<b, b>>}
\* ... and the site once answers a sign-in as b with the account a.
RenamedSignIns == OwnSignIns \cup {<<b, a>>}

Symmetry == Permutations(Workers) \cup Permutations(Flushers)
=============================================================================
