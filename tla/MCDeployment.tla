---------------------------- MODULE MCDeployment ----------------------------
(* Configurations for Deployment: one that is edited between polls. *)
EXTENDS Deployment

Base == [enabled |-> <<"FreeForAllPolicy">>, maciPolicy |-> "FreeForAllPolicy",
         pollPolicy |-> "FreeForAllPolicy", zkeys |-> {"qv", "nonQv", "full"}, mode |-> "qv",
         depth |-> 10, pollDepth |-> 10, tallyDepth |-> 1, voteOptionDepth |-> 2, batch |-> 20]

OtherPolicy == [Base EXCEPT !.pollPolicy = "SelfEligibilityPolicy", !.mode = "full"]
OnePolicy == {Base}
TwoPolicies == {Base, OtherPolicy}
MorePolicies == {Base, [Base EXCEPT !.enabled = <<"FreeForAllPolicy", "EASPolicy">>]}
OnlyQv == {[Base EXCEPT !.zkeys = {"qv"}]}
OnlyNonQv == {[Base EXCEPT !.zkeys = {"nonQv"}, !.mode = "nonQv"]}
TwoBatchSizes == {Base, [Base EXCEPT !.batch = 5]}
TwoDepths == {Base, [Base EXCEPT !.pollDepth = 5]}
=============================================================================
