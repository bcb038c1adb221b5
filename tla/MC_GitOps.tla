------------------------------- MODULE MC_GitOps -------------------------------
EXTENDS GitOpsLoop

MCRepoOf == <<"a", "a", "b">>
MCBranchOf == <<"main", "dev", "main">>
MCGroups == <<2, 1, 1>>
MCSecrets == <<<<"x">>, <<"x">>, <<"y", "y">>>>
MCLastRevision == [r \in Repo |-> [b \in Branch |-> IF r = "a" /\ b = "main" THEN 2 ELSE 1]]
================================================================================
