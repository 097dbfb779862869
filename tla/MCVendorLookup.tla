---------------------------- MODULE MCVendorLookup -----------------------------
(***************************************************************************)
(* One lookup of either kind against a vendor that may reply anything: the *)
(* replies of MCIntegrationClient, scores on both sides of every           *)
(* threshold, counts on both sides of zero, names empty and not.           *)
(***************************************************************************)
EXTENDS VendorLookup, MCIntegrationClient

MCIndicators ==
    [schemaOk : BOOLEAN, verdict : {"malicious", "benign", "other"},
     score : {-10, 10, 11, 35, 36, 50, 64, 65, 89, 90, 120}]

MCAssets ==
    [schemaOk : BOOLEAN, criticality : {"critical", "low", "other"},
     named : BOOLEAN, open_critical_cves : {-1, 0, 3}]
===============================================================================
