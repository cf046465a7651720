------------------------------- MODULE SignIn -------------------------------
(***************************************************************************)
(* What signing in by link promises, with no tables, transactions, locks   *)
(* or handlers: a link goes from none to live to used, a visit is admitted *)
(* on a live link, then redeems it, then is signed in.  Two visits may be  *)
(* admitted on one link while it is live: that much the code promises, and *)
(* no more (see SingleUse in MagicLinkAuth).                               *)
(***************************************************************************)
EXTENDS Naturals

CONSTANTS Links, Visits, NoLink, Lifetime

VARIABLES clock, ledger, visits
signInVars == <<clock, ledger, visits>>

Fresh == [state |-> "none", deadline |-> 0]
Gone  == [state |-> "gone", deadline |-> 0]
Outside == [state |-> "outside", link |-> NoLink]
Away    == [state |-> "away", link |-> NoLink]

SignInInit ==
    /\ clock = 0
    /\ ledger = [l \in Links |-> Fresh]
    /\ visits = [v \in Visits |-> Outside]

\* A link lives at most Lifetime from the moment it is handed out.
Issue(l) ==
    /\ ledger[l] = Fresh
    /\ \E d \in 0 .. clock + Lifetime :
           ledger' = [ledger EXCEPT ![l] = [state |-> "live", deadline |-> d]]
    /\ UNCHANGED <<clock, visits>>

\* A link that was never handed out and will not be.
Withdraw(l) ==
    /\ ledger[l] = Fresh
    /\ ledger' = [ledger EXCEPT ![l] = Gone]
    /\ UNCHANGED <<clock, visits>>

Admit(v, l) ==
    /\ visits[v] = Outside
    /\ ledger[l].state = "live" /\ clock <= ledger[l].deadline
    /\ visits' = [visits EXCEPT ![v] = [state |-> "admitted", link |-> l]]
    /\ UNCHANGED <<clock, ledger>>

\* From here on the link is used, for good.
Redeem(v) ==
    /\ visits[v].state = "admitted"
    /\ visits' = [visits EXCEPT ![v].state = "redeemed"]
    /\ ledger' = [ledger EXCEPT ![visits[v].link].state = "used"]
    /\ UNCHANGED clock

Grant(v) ==
    /\ visits[v].state = "redeemed"
    /\ visits' = [visits EXCEPT ![v].state = "signed_in"]
    /\ UNCHANGED <<clock, ledger>>

TurnAway(v) ==
    /\ visits[v].state # "signed_in"
    /\ visits' = [visits EXCEPT ![v] = Away]
    /\ UNCHANGED <<clock, ledger>>

\* Every link handed out is forgotten, and so is every visit that holds one
\* unredeemed; links not yet handed out and visits outside may go with them.
Wipe ==
    /\ \E lost \in SUBSET Links :
          /\ \A l \in Links : ledger[l] # Fresh => l \in lost
          /\ ledger' = [l \in Links |-> IF l \in lost THEN Gone ELSE ledger[l]]
    /\ \E turned \in SUBSET {v \in Visits : visits[v].state = "outside"} :
          visits' = [v \in Visits |->
              IF visits[v].state = "admitted" \/ v \in turned THEN Away ELSE visits[v]]
    /\ UNCHANGED clock

PassTime == clock' = clock + 1 /\ UNCHANGED <<ledger, visits>>

SignInNext ==
    \/ \E l \in Links : Issue(l) \/ Withdraw(l)
    \/ \E v \in Visits, l \in Links : Admit(v, l)
    \/ \E v \in Visits : Redeem(v) \/ Grant(v) \/ TurnAway(v)
    \/ Wipe \/ PassTime

SignInSpec == SignInInit /\ [][SignInNext]_signInVars
=============================================================================
