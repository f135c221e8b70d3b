---------------------------- MODULE MCApiClient ----------------------------
EXTENDS ApiClient, TLC
CONSTANTS c1, c2, c3, a, b
OneTab == [c \in Calls |-> a]
TwoTabs == [c \in Calls |-> IF c = c1 THEN a ELSE b]
=============================================================================
