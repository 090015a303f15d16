---------------------------- MODULE MCOfflineReview ----------------------------
EXTENDS OfflineReview

CONSTANTS a, b

MCCards == <<a, b>>
=============================================================================
