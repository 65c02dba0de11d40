---------------------------- MODULE MCProvisioning ----------------------------
(* A principal company and two others, two or three people.                   *)
EXTENDS Provisioning, TLC

CONSTANTS north, south, ana, ben, c1, c2

MCSlugs == {north, south}
MCEmails == {ana, ben}
MCCalls == {c1, c2}
Alike == Permutations(MCSlugs) \cup Permutations(MCEmails) \cup Permutations(MCCalls)
===============================================================================
