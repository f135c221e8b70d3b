----------------------------- MODULE MCFocusPage -----------------------------
EXTENDS FocusPage
MCSlots == 1..2
=============================================================================
