---------------------------- MODULE MCWebsiteCheck -----------------------------
(* Modern, mixed and outdated sites, and certificates that have expired, may     *)
(* expire during the check or are valid for a month.                             *)
EXTENDS WebsiteCheck

MCOffers == {{12, 13}, {11, 12}, {10, 13}, {10}}
MCHours  == {-1, 0, 24 * 30}
================================================================================
