----------------------------- MODULE MCOperator -----------------------------
(* One request for one Ingress, with specs that turn publishing on and off. *)
EXTENDS MigrationOperator, TLC

CONSTANTS o1, o2

Web        == [ns |-> "default", name |-> "web"]
MigrateWeb == [ns |-> "default", name |-> "migrate-web"]

AutoPR == [name |-> "web", ns |-> "", provider |-> "EnvoyGateway", dryRun |-> FALSE,
           gitops |-> "auto", repo |-> "owner/name"]
DryRun == [AutoPR EXCEPT !.dryRun = TRUE]
Istio  == [AutoPR EXCEPT !.provider = "Istio", !.gitops = "absent"]

OneReplica    == {o1}
TwoReplicas   == {o1, o2}
MCNone        == {}
MCRequests    == {MigrateWeb}
MCIngresses   == {Web}
MCNames       == {"web"}
MCSpecs       == {AutoPR, DryRun}
AllSpecs      == {AutoPR, DryRun, Istio}
MCManifests   == {Render(s, Web, v) : s \in AllSpecs, v \in 1..MaxVersion}
FirstSecond   == Names \X {0}
MCSymmetry    == Permutations(TwoReplicas)
=============================================================================
