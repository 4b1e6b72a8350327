----------------------------- MODULE MCSmsTask -----------------------------
(* SmsTask with one CM and one CU group.                                    *)
EXTENDS SmsTask

MCOp == <<1, 2>>
=============================================================================
