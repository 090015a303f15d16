------------------------------ MODULE MCOnboarding ------------------------------
EXTENDS Onboarding

\* Two levels of reading, one of listening, and a question nobody is placed by.
MCBank == <<[skill |-> "listening", level |-> 1], [skill |-> "reading", level |-> 1],
            [skill |-> "reading", level |-> 2], [skill |-> "speaking", level |-> 1]>>
=============================================================================
