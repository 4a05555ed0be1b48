---------------------------- MODULE AwardLedger ----------------------------
(***************************************************************************)
(* What the offline award queue promises, without the mechanism.           *)
(*                                                                         *)
(* Every award taken into the queue gets a ticket number.  A ticket stays  *)
(* pending until RetroAchievements has given a final answer about it: the  *)
(* award was credited to an account, or the achievement no longer exists   *)
(* there.  An award that names its user is only ever credited to that      *)
(* user's account; one that names nobody goes to whoever is signed in.     *)
(* Nothing else removes a ticket: no crash, no sweep, no other account.    *)
(***************************************************************************)
EXTENDS Naturals

CONSTANTS Users,  \* the RetroAchievements accounts used on the device
          NoUser  \* the owner of an award whose request carries no "u"

VARIABLES next,      \* the next ticket number
          pending,   \* pending[i] = owner of the pending ticket i
          credits,   \* what the site was asked to credit, and to whom
          disowned   \* tickets whose achievement the site does not know

ledgerVars == <<next, pending, credits, disowned>>

Owners == Users \cup {NoUser}

Init ==
    /\ next = 1
    /\ pending = [i \in {} |-> NoUser]
    /\ credits = {}
    /\ disowned = {}

\* The remaining tickets once those in S are settled.
Without(S) == [i \in DOMAIN pending \ S |-> pending[i]]

Promise(u) ==
    /\ next' = next + 1
    /\ pending' = [i \in DOMAIN pending \cup {next} |->
                     IF i = next THEN u ELSE pending[i]]
    /\ UNCHANGED <<credits, disowned>>

\* The site may credit an award and its answer be lost: the ticket then stays.
Credit(i, account) ==
    /\ i \in DOMAIN pending
    /\ pending[i] \in {NoUser, account}
    /\ credits' = credits \cup {[id |-> i, owner |-> pending[i], account |-> account]}
    /\ pending' \in {pending, Without({i})}
    /\ UNCHANGED <<next, disowned>>

Disown(i) ==
    /\ i \in DOMAIN pending
    /\ disowned' = disowned \cup {i}
    /\ pending' = Without({i})
    /\ UNCHANGED <<next, credits>>

Next ==
    \/ \E u \in Owners : Promise(u)
    \/ \E i \in DOMAIN pending :
         \/ \E account \in Users : Credit(i, account)
         \/ Disown(i)

Spec == Init /\ [][Next]_ledgerVars
=============================================================================
