---------------------------- MODULE MC_APIServer ----------------------------
(* Instances of the APIServer controller for TLC.                          *)
EXTENDS APIServer

(* Every stage that calls the API server may fail once.                   *)
MCErrStages == {"Installation", "Certs", "Tier", "Dex", "Finalizer",
                "ApplyPolicy", "ApplyAPIServer", "StatusUpdate"}

MCCalico == {"Calico"}
MCVariants == {"Calico", "Enterprise"}
MCEnterpriseObjs == {"Tier"}
MCToggle == {"Tier", "AuthDex", "DexCert"}
MCEnterprise == {"Enterprise"}
=============================================================================
