------------------------ MODULE MCPerDomainThrottle ------------------------
(***************************************************************************)
(* Two domains, one of which has a robots.txt that asks for a delay above  *)
(* the configured one and above half of what jitter makes of it.           *)
(***************************************************************************)
EXTENDS PerDomainThrottle

OneRobots == [d \in Domains |-> IF d = "a" THEN {2} ELSE {}]
=============================================================================
