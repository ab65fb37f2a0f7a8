---------------------------- MODULE MCD1Rollout ----------------------------
(* D1Rollout with one operator going through the whole rollout, and with two *)
(* commands at a time.                                                       *)
EXTENDS D1Rollout

Scenario(kinds, n, authorities, order, migrated) ==
  [starts |-> [k \in Kinds |-> IF k \in kinds THEN n ELSE 0],
   width |-> IF order = <<>> THEN 2 ELSE 1,
   authorities |-> authorities, order |-> order, migrated |-> migrated]

Documented == <<"check", "migrate", "verify", "prepare", "bootstrap", "preflight", "deploy">>

MCScenarios ==
  {Scenario(Kinds, 1, {1}, Documented, FALSE),
   Scenario({"check", "migrate", "verify"}, 1, {1}, <<>>, FALSE),
   Scenario({"check", "preflight"}, 1, {1, 2}, <<>>, FALSE),
   Scenario({"prepare", "bootstrap"}, 2, {1}, <<>>, TRUE),
   Scenario({"preflight", "deploy"}, 1, {1}, <<>>, TRUE),
   Scenario({"migrate", "deploy"}, 1, {1, 2}, <<>>, FALSE)}
=============================================================================
