---------------------------- MODULE EnglishAuction ----------------------------
(***************************************************************************)
(* What one auction promises, with no Redis, no MySQL and no requests.     *)
(*                                                                         *)
(* An auction is opened under some terms; while it runs, somebody who is   *)
(* not already on top may offer more than everybody else; it is sold the   *)
(* moment an offer reaches the cap, or when the hammer falls on at least   *)
(* one offer; otherwise it stays unsold, or the host withdraws it.  The    *)
(* winner is always somebody whose best offer is beaten by nobody.         *)
(*                                                                         *)
(* There is deliberately no "current price" and no "leader" here: both are *)
(* read off the best offers, so a system that keeps them in fields of      *)
(* their own must keep those fields in step to implement this module.      *)
(***************************************************************************)
EXTENDS Integers

CONSTANTS
  Users,     \* the people who may bid
  NoUser,    \* "nobody", the winner of an auction that was not sold
  RuleSet    \* the terms an auction may be opened under

VARIABLES
  phase,     \* "UNOPENED", "RUNNING", "SOLD", "UNSOLD" or "CANCELLED"
  terms,     \* the terms the auction was opened under
  best,      \* the best offer of each user, 0 when there is none
  winner     \* the user the item was sold to

vars == <<phase, terms, best, winner>>

(* The auction is still to be opened, or open with no offer yet. *)
Init ==
  /\ phase \in {"UNOPENED", "RUNNING"}
  /\ terms \in RuleSet
  /\ best = [u \in Users |-> 0]
  /\ winner = NoUser

Open ==
  /\ phase = "UNOPENED"
  /\ phase' = "RUNNING"
  /\ terms' \in RuleSet
  /\ UNCHANGED <<best, winner>>

(* u is on top: u has an offer and nobody else offers as much. *)
OnTop(u) ==
  /\ best[u] > 0
  /\ \A v \in Users \ {u} : best[v] < best[u]

(***************************************************************************)
(* u offers p.  The offer beats every offer so far by the increment, or it *)
(* goes straight to the cap and sells the item.                            *)
(***************************************************************************)
Offer(u, p) ==
  /\ phase = "RUNNING"
  /\ ~ OnTop(u)
  /\ terms.start < p /\ p <= terms.cap
  /\ \A v \in Users : best[v] < p
  /\ \/ p = terms.cap
     \/ /\ terms.start + terms.inc <= p
        /\ \A v \in Users : best[v] > 0 => best[v] + terms.inc <= p
  /\ best' = [best EXCEPT ![u] = p]
  /\ phase' = IF p = terms.cap THEN "SOLD" ELSE "RUNNING"
  /\ winner' = IF p = terms.cap THEN u ELSE NoUser
  /\ UNCHANGED terms

(* Time is up and there is an offer: whoever is on top wins. *)
HammerSold ==
  /\ phase = "RUNNING"
  /\ phase' = "SOLD"
  /\ \E u \in Users : OnTop(u) /\ winner' = u
  /\ UNCHANGED <<terms, best>>

(* Time is up and nobody has offered anything. *)
HammerUnsold ==
  /\ phase = "RUNNING"
  /\ \A u \in Users : best[u] = 0
  /\ phase' = "UNSOLD"
  /\ UNCHANGED <<terms, best, winner>>

Withdraw ==
  /\ phase = "RUNNING"
  /\ phase' = "CANCELLED"
  /\ UNCHANGED <<terms, best, winner>>

Next ==
  \/ Open
  \/ \E u \in Users : \E p \in 1 .. terms.cap : Offer(u, p)
  \/ HammerSold
  \/ HammerUnsold
  \/ Withdraw

Spec == Init /\ [][Next]_vars
===============================================================================
