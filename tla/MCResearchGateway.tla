-------------------------- MODULE MCResearchGateway --------------------------
EXTENDS ResearchGateway, TLC
=============================================================================
