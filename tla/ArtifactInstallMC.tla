--------------------------- MODULE ArtifactInstallMC ---------------------------
(* Instances of ArtifactInstall: two releases whose scanner is the same
   pack and whose providers differ, the first revoked by the second. *)
EXTENDS ArtifactInstall

MCPackOf == [r \in 1..2 |-> [a \in Artifacts |-> IF a = "gitleaks" THEN "scanner"
                                                 ELSE IF r = 1 THEN "provider1" ELSE "provider2"]]
MCRevoked == [r \in 1..2 |-> IF r = 2 THEN {"provider1"} ELSE {}]

(* Two installers of one target, of two releases, a provision by hand and a
   doctor. *)
UpgradeRole == <<"installer", "installer", "provisioner", "doctor">>
UpgradeRelease == <<1, 2, 1, 1>>
UpgradeProvider == <<FALSE, TRUE, FALSE, FALSE>>
UpgradeCacheOnly == <<TRUE, FALSE, TRUE, FALSE>>

(* The caches they start from: the first provider is there, and all or none of
   the rest. *)
UpgradeCaches == {{"provider1"}, {"scanner", "provider1", "provider2"}}

=============================================================================
