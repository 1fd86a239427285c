------------------------- MODULE MCCampaignWatchdog -------------------------
(* CampaignWatchdog on small instances.                                    *)
EXTENDS CampaignWatchdog

CONSTANTS w1, cp
=============================================================================
