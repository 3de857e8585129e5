------------------------------ MODULE MCButtons ------------------------------
EXTENDS ButtonDispatch, ButtonSetups

=============================================================================
