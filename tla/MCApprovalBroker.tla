-------------------------- MODULE MCApprovalBroker --------------------------
\* The approval broker with a few registrations and calls of resolve.
EXTENDS ApprovalBroker
=============================================================================
